----------------------------- MODULE BasicProofs -----------------------------
(***************************************************************************)
(* Theorems of Nano BASIC, for any size of its store and of its stacks,    *)
(* any lines entered and any statements in them: the program store is a    *)
(* chain of whole, sorted records after any editing, a running program     *)
(* stands at one of them, everything keeps its type, the value stack holds *)
(* what the bound on parentheses lets through, and the whole implements    *)
(* BasicProgram.                                                           *)
(***************************************************************************)
EXTENDS NanoBasic, TLAPS, WellFoundedInduction, SequenceTheorems, FiniteSetTheorems

-----------------------------------------------------------------------------
(* Numbers. *)

(* Every set of naturals that is not empty has a least element. *)
LEMMA Least ==
  ASSUME NEW T, T \subseteq Nat, T # {}
  PROVE  \E x \in T : \A y \in T : x <= y
<1>1. PICK R : R = OpToRel(<, Nat)
  OBVIOUS
<1>2. \A a, b \in Nat : a < b => <<a, b>> \in R
  BY <1>1 DEF OpToRel
<1>3. IsWellFoundedOn(R, Nat)
  BY <1>1, NatLessThanWellFounded
<1>4. PICK x \in T : \A y \in T : ~ (<<y, x>> \in R)
  BY <1>3, WFMin
<1>5. \A y \in T : ~ (y < x)
  BY <1>2, <1>4
<1> QED BY <1>4, <1>5

(* A set of turns that has the first, and with each the next, has all. *)
LEMMA AllTurns ==
  ASSUME NEW n \in Nat, NEW T, 0 \in T, \A i \in 1 .. n : i - 1 \in T => i \in T
  PROVE  0 .. n \subseteq T
<1> SUFFICES ASSUME ~(0 .. n \subseteq T) PROVE FALSE
  OBVIOUS
<1> DEFINE U == (0 .. n) \ T
<1>1. U \subseteq Nat /\ U # {}
  OBVIOUS
<1>2. PICK x \in U : \A y \in U : x <= y
  BY <1>1, Least
<1>3. x # 0 /\ x \in 1 .. n /\ x - 1 \in 0 .. n /\ x - 1 < x
  BY <1>2
<1>4. x - 1 \in T
  BY <1>2, <1>3
<1> QED BY <1>2, <1>3, <1>4

(* A loop that takes its state to the next in each turn has a course. *)
Course(f, n, S, base, g) ==
  /\ f \in [0 .. n -> S] /\ f[0] = base
  /\ \A i \in 1 .. n : f[i] = g[<<i, f[i - 1]>>]

(* The course of so many turns exists.                                     *)
LEMMA Iterates ==
  ASSUME NEW n \in Nat, NEW S, NEW base \in S, NEW g \in [(1 .. n) \X S -> S]
  PROVE  \E f : Course(f, n, S, base, g)
<1> DEFINE T == {k \in 0 .. n : \E f : Course(f, k, S, base, g)}
<1>1. 0 \in T
  <2> DEFINE f == [i \in 0 .. 0 |-> base]
  <2>1. Course(f, 0, S, base, g)
    BY DEF Course
  <2> QED BY <2>1
<1>2. ASSUME NEW i \in 1 .. n, i - 1 \in T PROVE i \in T
  <2>1. PICK f : Course(f, i - 1, S, base, g)
    BY <1>2
  <2>2. i - 1 \in 0 .. i - 1 /\ f[i - 1] \in S
    BY <2>1 DEF Course
  <2> DEFINE h == [j \in 0 .. i |-> IF j = i THEN g[<<i, f[i - 1]>>] ELSE f[j]]
  <2>3. g[<<i, f[i - 1]>>] \in S
    BY <2>2
  <2>4. \A j \in 0 .. i : j # i => j \in 0 .. i - 1
    OBVIOUS
  <2>5. h \in [0 .. i -> S]
    BY <2>1, <2>3, <2>4 DEF Course
  <2>6. h[0] = base
    BY <2>1 DEF Course
  <2>7. ASSUME NEW j \in 1 .. i PROVE h[j] = g[<<j, h[j - 1]>>]
    <3> HIDE DEF h
    <3>1. h[j - 1] = f[j - 1]
      <4>1. j - 1 \in 0 .. i /\ j - 1 # i
        OBVIOUS
      <4> QED BY <4>1 DEF h
    <3>2. CASE j = i
      <4>1. j \in 0 .. i
        OBVIOUS
      <4>2. h[j] = g[<<i, f[i - 1]>>]
        BY <3>2, <4>1 DEF h
      <4> QED BY <3>1, <3>2, <4>2
    <3>3. CASE j # i
      <4>1. j \in 1 .. i - 1 /\ h[j] = f[j]
        BY <3>3 DEF h
      <4> QED BY <2>1, <3>1, <4>1 DEF Course
    <3> QED BY <3>2, <3>3
  <2>8. Course(h, i, S, base, g)
    BY <2>5, <2>6, <2>7 DEF Course
  <2> QED BY <2>8
<1>3. n \in T
  <2> HIDE DEF T
  <2>1. 0 .. n \subseteq T
    BY <1>1, <1>2, AllTurns
  <2> QED BY <2>1
<1> QED BY <1>3

-----------------------------------------------------------------------------
(* The records of a store. *)

Octet == 0 .. 255

(* A store as the editor keeps it: whole records from PROG to `pend`, each *)
(* ended by a NUL, in the order of their lines.                            *)
Chain(m, pend, R) ==
  /\ m \in [PROG .. LIMIT - 1 -> Octet] /\ pend \in PROG .. LIMIT
  /\ R \subseteq PROG .. pend - 1 /\ PROG \in R \cup {pend}
  /\ \A p \in R : /\ LenAt(m, p) \in 5 .. 255
                  /\ p + LenAt(m, p) \in R \cup {pend}
                  /\ m[p + LenAt(m, p) - 1] = NUL
  /\ \A p, q \in R : p < q => p + LenAt(m, p) <= q /\ LineAt(m, p) < LineAt(m, q)

Whole(m, pend) == \E R : Chain(m, pend, R)

(* The sizes are numbers. *)
LEMMA Sizes == PROG \in Nat /\ LIMIT \in Nat /\ PROG < LIMIT /\ TooLong \in 1 .. 252 /\ Turns \in Nat
               /\ PROG + 4 * Turns > LIMIT - 4
BY LineStoreAssumption DEF Turns

(* A byte is a number of eight bits. *)
LEMMA OctetsAre == \A n : n \in Octet <=> n \in Int /\ 0 <= n /\ n <= 255
BY DEF Octet

(* A word is a number of sixteen bits. *)
LEMMA WordsAre == \A n : n \in Words <=> n \in Int /\ 0 <= n /\ n <= 65535
<1>1. WORD \in Int
  BY DEF WORD
<1>2. \A n : n \in Words <=> n \in Int /\ 0 <= n /\ n <= WORD - 1
  BY <1>1 DEF Words
<1> QED BY <1>2 DEF WORD

(* A number and its two bytes. *)
LEMMA Halves ==
  ASSUME NEW n \in Int, 0 <= n, n <= 65535
  PROVE  n = (n % 256) + 256 * (n \div 256) /\ 0 <= n % 256 /\ n % 256 <= 255 /\ n \div 256 \in Int
<1>1. n \div 256 \in Int
  OBVIOUS
<1>2. 0 <= n % 256 /\ n % 256 <= 255
  OBVIOUS
<1>3. n = (n % 256) + 256 * (n \div 256)
  OBVIOUS
<1> QED BY <1>1, <1>2, <1>3

(* Two bytes compared from the high one down are the number compared. *)
LEMMA TwoBytes ==
  ASSUME NEW a \in Octet, NEW b \in Octet, NEW n \in Words
  PROVE  (b < n \div 256 \/ (b = n \div 256 /\ a < n % 256)) <=> a + 256 * b < n
<1>0. n \in Int /\ 0 <= n /\ n <= 65535
  BY WordsAre
<1>1. n = (n % 256) + 256 * (n \div 256) /\ n % 256 \in Octet /\ n \div 256 \in Int
  <2>1. 0 <= n % 256 /\ n % 256 <= 255 /\ n % 256 \in Int
    BY <1>0
  <2> QED BY <1>0, <2>1, Halves, OctetsAre
<1> DEFINE h == n \div 256
           l == n % 256
<1>2. h \in Int /\ l \in Octet /\ n = l + 256 * h /\ n \in Int
  BY <1>1, WordsAre
<1> HIDE DEF h, l
<1>3. (b < h \/ (b = h /\ a < l)) <=> a + 256 * b < n
  BY <1>2, OctetsAre
<1> QED BY <1>3 DEF h, l

(* What lies in a record lies in the store. *)
LEMMA InRecord ==
  ASSUME NEW m, NEW pend, NEW R, Chain(m, pend, R), NEW p \in R
  PROVE  /\ p \in Nat /\ p >= PROG /\ pend \in Nat /\ p + LenAt(m, p) <= pend /\ pend <= LIMIT
         /\ LenAt(m, p) \in 5 .. 255 /\ m[p] \in Octet /\ m[p + 1] \in Octet
         /\ LineAt(m, p) \in Words
         /\ LenAt(m, p) \in Int /\ 5 <= LenAt(m, p) /\ p + LenAt(m, p) \in R \cup {pend}
         /\ p \in Int /\ p < pend /\ m[p + LenAt(m, p) - 1] = NUL
<1>1. p \in Nat /\ p >= PROG /\ pend \in Nat /\ pend <= LIMIT /\ p < pend
  BY Sizes DEF Chain
<1>2. LenAt(m, p) \in 5 .. 255 /\ p + LenAt(m, p) \in R \cup {pend}
  BY DEF Chain
<1>3. p + LenAt(m, p) <= pend
  <2>1. \A q \in R : q < pend
    BY Sizes DEF Chain
  <2> QED BY <1>1, <1>2, <2>1
<1>4. p \in PROG .. LIMIT - 1 /\ p + 1 \in PROG .. LIMIT - 1
  BY <1>1, <1>2, <1>3, Sizes
<1>5. m[p] \in Octet /\ m[p + 1] \in Octet
  BY <1>4 DEF Chain
<1>6. LineAt(m, p) \in Words
  BY <1>5, OctetsAre, WordsAre DEF LineAt
<1>7. LenAt(m, p) \in Int /\ 5 <= LenAt(m, p) /\ p \in Int
  BY <1>1, <1>2
<1>8. m[p + LenAt(m, p) - 1] = NUL
  BY DEF Chain
<1> QED BY <1>1, <1>2, <1>3, <1>5, <1>6, <1>7, <1>8

(* FIND_LINE stops at the first record whose line is not below, or at the  *)
(* end: it has turns enough for any store.                                 *)
LEMMA FindsPlace ==
  ASSUME NEW m, NEW pend, NEW R, Chain(m, pend, R), NEW n \in Words
  PROVE  /\ FIND_LINE(m, pend, n) \in R \cup {pend}
         /\ \A q \in R : q < FIND_LINE(m, pend, n) <=> LineAt(m, q) < n
<1> DEFINE turn == [p \in Nat |-> IF p < pend /\ Below(m, p, n) THEN p + LenAt(m, p) ELSE p]
           S == R \cup {pend}
           g == [ix \in (1 .. Turns) \X S |-> turn[ix[2]]]
           Walk(f) == f = [i \in 0 .. Turns |-> IF i = 0 THEN PROG ELSE turn[f[i - 1]]]
<1>1. S \subseteq Nat /\ pend \in Nat /\ PROG \in S /\ pend \notin R
  BY Sizes DEF Chain
<1>2. \A p \in R : p < pend /\ (Below(m, p, n) <=> LineAt(m, p) < n)
  <2> SUFFICES ASSUME NEW p \in R PROVE p < pend /\ (Below(m, p, n) <=> LineAt(m, p) < n)
    OBVIOUS
  <2>1. p < pend
    BY InRecord
  <2>2. m[p] \in Octet /\ m[p + 1] \in Octet
    BY InRecord
  <2>3. Below(m, p, n) <=> LineAt(m, p) < n
    BY <2>2, TwoBytes DEF Below, LineAt, Hi, Lo
  <2> QED BY <2>1, <2>3
<1>3. \A p \in R : turn[p] = IF LineAt(m, p) < n THEN p + LenAt(m, p) ELSE p
  BY <1>1, <1>2
<1>4. turn[pend] = pend
  BY <1>1
<1>5. \A p \in S : turn[p] \in S
  <2>1. \A p \in R : p + LenAt(m, p) \in S
    BY DEF Chain
  <2> QED BY <1>3, <1>4, <2>1
<1> HIDE DEF turn
<1>6. \E f : Walk(f) /\ FIND_LINE(m, pend, n) = f[Turns]
  <2>1. g \in [(1 .. Turns) \X S -> S]
    BY <1>5
  <2>2. PICK f : Course(f, Turns, S, PROG, g)
    BY <1>1, <2>1, Sizes, Iterates
  <2>3. \A i \in 1 .. Turns : i - 1 \in 0 .. Turns
    BY Sizes
  <2>4. \A i \in 1 .. Turns : f[i] = turn[f[i - 1]]
    BY <2>2, <2>3 DEF Course
  <2>5. Walk(f)
    BY <2>2, <2>4, Sizes DEF Course
  <2> QED BY <2>5 DEF FIND_LINE, turn
<1>7. PICK f : Walk(f) /\ FIND_LINE(m, pend, n) = f[Turns]
  BY <1>6
<1>8. f[0] = PROG /\ \A i \in 1 .. Turns : f[i] = turn[f[i - 1]]
  BY <1>7, Sizes
<1> DEFINE T == {i \in 0 .. Turns :
                   /\ f[i] \in S /\ \A q \in R : q < f[i] => LineAt(m, q) < n
                   /\ f[i] >= PROG + 4 * i \/ f[i] = pend \/ ~(LineAt(m, f[i]) < n)}
<1>9. 0 \in T
  BY <1>1, <1>8, Sizes DEF Chain
<1>10. ASSUME NEW i \in 1 .. Turns, i - 1 \in T PROVE i \in T
  <2> DEFINE x == f[i - 1]
  <2>1. f[i] = turn[x] /\ x \in S /\ (\A q \in R : q < x => LineAt(m, q) < n)
        /\ (x >= PROG + 4 * (i - 1) \/ x = pend \/ ~(LineAt(m, x) < n))
    BY <1>8, <1>10
  <2>2. i \in 0 .. Turns
    OBVIOUS
  <2> HIDE DEF x
  <2>3. CASE x = pend
    BY <1>4, <2>1, <2>2, <2>3
  <2>4. CASE x \in R /\ ~(LineAt(m, x) < n)
    BY <1>3, <2>1, <2>2, <2>4
  <2>5. CASE x \in R /\ LineAt(m, x) < n
    <3>1. f[i] = x + LenAt(m, x) /\ f[i] \in S
      BY <1>3, <1>5, <2>1, <2>5
    <3>2. x \in Nat /\ LenAt(m, x) \in 5 .. 255
      BY <2>5, InRecord
    <3>3. \A q \in R : q < f[i] => LineAt(m, q) < n
      <4> SUFFICES ASSUME NEW q \in R, q < f[i] PROVE LineAt(m, q) < n
        OBVIOUS
      <4>1. ~(x < q)
        <5>1. x < q => x + LenAt(m, x) <= q
          BY <2>5 DEF Chain
        <5>2. q \in Nat
          BY <1>1
        <5> QED BY <3>1, <3>2, <5>1, <5>2
      <4>2. q = x \/ q < x
        BY <1>1, <3>2, <4>1
      <4> QED BY <2>1, <2>5, <4>2
    <3>4. f[i] >= PROG + 4 * i
      BY <2>1, <2>5, <3>1, <3>2, <1>1, Sizes
    <3> QED BY <2>2, <3>1, <3>3, <3>4
  <2> QED BY <2>1, <2>3, <2>4, <2>5
<1>11. Turns \in T
  <2> HIDE DEF T
  <2>1. 0 .. Turns \subseteq T
    BY <1>9, <1>10, Sizes, AllTurns
  <2> QED BY <2>1, Sizes
<1> DEFINE p == FIND_LINE(m, pend, n)
<1>12. /\ p \in S /\ \A q \in R : q < p => LineAt(m, q) < n
       /\ p >= PROG + 4 * Turns \/ p = pend \/ ~(LineAt(m, p) < n)
  BY <1>7, <1>11
<1> HIDE DEF p
<1>13. p = pend \/ (p \in R /\ ~(LineAt(m, p) < n))
  <2> SUFFICES ASSUME p \in R, p >= PROG + 4 * Turns PROVE FALSE
    BY <1>12
  <2>1. p \in Nat /\ p + LenAt(m, p) <= pend /\ pend <= LIMIT /\ LenAt(m, p) \in 5 .. 255 /\ pend \in Nat
    BY InRecord
  <2> QED BY <2>1, Sizes
<1>14. ASSUME NEW q \in R, LineAt(m, q) < n PROVE q < p
  <2>1. q \in Nat /\ q < pend /\ LineAt(m, q) \in Words /\ n \in Int /\ LineAt(m, q) \in Int
    BY <1>2, <1>1, InRecord, WordsAre
  <2>2. CASE p = pend
    BY <2>1, <2>2
  <2>3. CASE p \in R /\ ~(LineAt(m, p) < n)
    <3>1. p \in Nat /\ LineAt(m, p) \in Int
      BY <2>3, InRecord, WordsAre
    <3>2. p < q => LineAt(m, p) < LineAt(m, q)
      BY <2>3 DEF Chain
    <3> QED BY <1>14, <2>1, <2>3, <3>1, <3>2
  <2> QED BY <1>13, <2>2, <2>3
<1> QED BY <1>12, <1>14 DEF p

-----------------------------------------------------------------------------
(* Moving bytes. *)

(* The bytes from..to stand `by` higher, or those behind from + by lower.  *)
Up(m, from, to, by) ==
  [a \in PROG .. LIMIT - 1 |-> IF from + by <= a /\ a <= to + by - 1 THEN m[a - by] ELSE m[a]]
Down(m, from, to, by) ==
  [a \in PROG .. LIMIT - 1 |-> IF from <= a /\ a <= to - by - 1 THEN m[a + by] ELSE m[a]]

(* shift_right moves the bytes from..to up, however they overlap. *)
LEMMA ShiftRight ==
  ASSUME NEW m \in [PROG .. LIMIT - 1 -> Octet], NEW from \in Nat, NEW to \in Nat, NEW by \in Nat,
         PROG <= from, from <= to, 1 <= by, to + by <= LIMIT
  PROVE  shift_right(m, from, to, by) = Up(m, from, to, by)
<1> DEFINE n == to - from
           W(i) == [a \in PROG .. LIMIT - 1 |-> IF to - i + by <= a /\ a <= to + by - 1 THEN m[a - by] ELSE m[a]]
           w == [i \in 0 .. n |-> W(i)]
           Moves(f) == f = [i \in 0 .. n |-> IF i = 0 THEN m
                                             ELSE [f[i - 1] EXCEPT ![to - i + by] = f[i - 1][to - i]]]
<1>1. n \in Nat
  OBVIOUS
<1>2. W(0) = m
  OBVIOUS
<1>3. ASSUME NEW i \in 1 .. n PROVE [W(i - 1) EXCEPT ![to - i + by] = W(i - 1)[to - i]] = W(i)
  <2>1. i \in Nat /\ 1 <= i /\ i <= to - from /\ to - i \in PROG .. LIMIT - 1 /\ to - i + by \in PROG .. LIMIT - 1
    BY Sizes
  <2>2. W(i - 1)[to - i] = m[to - i]
    BY <2>1, Sizes
  <2>3. ASSUME NEW a \in PROG .. LIMIT - 1
        PROVE  [W(i - 1) EXCEPT ![to - i + by] = m[to - i]][a] = W(i)[a]
    <3>1. CASE a = to - i + by
      <4>1. a - by = to - i /\ to - i + by <= a /\ a <= to + by - 1
        BY <2>1, <3>1
      <4>2. W(i)[a] = m[a - by]
        BY <4>1
      <4> QED BY <3>1, <4>1, <4>2
    <3>2. CASE a # to - i + by
      <4>1. (to - i + by <= a /\ a <= to + by - 1) <=> (to - (i - 1) + by <= a /\ a <= to + by - 1)
        BY <2>1, <3>2, Sizes
      <4> QED BY <3>2, <4>1
    <3> QED BY <3>1, <3>2
  <2> QED BY <2>2, <2>3
<1> HIDE DEF n, W
<1>4. \E f : Moves(f) /\ shift_right(m, from, to, by) = f[n]
  <2>1. w[0] = m
    BY <1>1, <1>2
  <2>2. \A i \in 1 .. n : w[i] = W(i) /\ w[i - 1] = W(i - 1)
    BY <1>1
  <2>3. \A i \in 0 .. n : w[i] = IF i = 0 THEN m ELSE [w[i - 1] EXCEPT ![to - i + by] = w[i - 1][to - i]]
    <3>1. \A i \in 0 .. n : i # 0 => i \in 1 .. n
      BY <1>1
    <3> QED BY <1>3, <2>1, <2>2, <3>1
  <2>4. Moves(w)
    BY <2>3
  <2> QED BY <2>4 DEF shift_right, n
<1>5. PICK f : Moves(f) /\ shift_right(m, from, to, by) = f[n]
  BY <1>4
<1>6. f[0] = m /\ \A i \in 1 .. n : f[i] = [f[i - 1] EXCEPT ![to - i + by] = f[i - 1][to - i]]
  <2>1. \A i \in 0 .. n : f[i] = IF i = 0 THEN m ELSE [f[i - 1] EXCEPT ![to - i + by] = f[i - 1][to - i]]
    BY <1>5
  <2>2. 0 \in 0 .. n /\ \A i \in 1 .. n : i \in 0 .. n /\ i # 0
    BY <1>1
  <2> QED BY <2>1, <2>2
<1> DEFINE T == {i \in 0 .. n : f[i] = W(i)}
<1>7. 0 \in T
  BY <1>1, <1>2, <1>6
<1>8. \A i \in 1 .. n : i - 1 \in T => i \in T
  <2>1. \A i \in 1 .. n : i \in 0 .. n
    BY <1>1
  <2> QED BY <1>3, <1>6, <2>1
<1>9. n \in T
  <2> HIDE DEF T
  <2>1. 0 .. n \subseteq T
    BY <1>1, <1>7, <1>8, AllTurns
  <2> QED BY <1>1, <2>1
<1>10. shift_right(m, from, to, by) = W(n)
  BY <1>5, <1>9
<1>11. to - n = from
  BY DEF n
<1> QED BY <1>10, <1>11 DEF W, Up

(* shift_left moves the bytes behind from + by down to from. *)
LEMMA ShiftLeft ==
  ASSUME NEW m \in [PROG .. LIMIT - 1 -> Octet], NEW from \in Nat, NEW to \in Nat, NEW by \in Nat,
         PROG <= from, from + by <= to, 1 <= by, to <= LIMIT
  PROVE  shift_left(m, from, to, by) = Down(m, from, to, by)
<1> DEFINE n == to - (from + by)
           W(i) == [a \in PROG .. LIMIT - 1 |-> IF from <= a /\ a <= from + i - 1 THEN m[a + by] ELSE m[a]]
           w == [i \in 0 .. n |-> W(i)]
           Moves(f) == f = [i \in 0 .. n |-> IF i = 0 THEN m
                                             ELSE [f[i - 1] EXCEPT ![from + i - 1] = f[i - 1][from + by + i - 1]]]
<1>1. n \in Nat
  OBVIOUS
<1>2. W(0) = m
  OBVIOUS
<1>3. ASSUME NEW i \in 1 .. n PROVE [W(i - 1) EXCEPT ![from + i - 1] = W(i - 1)[from + by + i - 1]] = W(i)
  <2>1. i \in Nat /\ 1 <= i /\ i <= to - (from + by) /\ from + by + i - 1 \in PROG .. LIMIT - 1
        /\ from + i - 1 \in PROG .. LIMIT - 1
    BY Sizes
  <2>2. W(i - 1)[from + by + i - 1] = m[from + by + i - 1]
    BY <2>1, Sizes
  <2>3. ASSUME NEW a \in PROG .. LIMIT - 1
        PROVE  [W(i - 1) EXCEPT ![from + i - 1] = m[from + by + i - 1]][a] = W(i)[a]
    <3>1. CASE a = from + i - 1
      <4>1. a + by = from + by + i - 1 /\ from <= a /\ a <= from + i - 1
        BY <2>1, <3>1
      <4>2. W(i)[a] = m[a + by]
        BY <4>1
      <4> QED BY <3>1, <4>1, <4>2
    <3>2. CASE a # from + i - 1
      <4>1. (from <= a /\ a <= from + i - 1) <=> (from <= a /\ a <= from + (i - 1) - 1)
        BY <2>1, <3>2, Sizes
      <4> QED BY <3>2, <4>1
    <3> QED BY <3>1, <3>2
  <2> QED BY <2>2, <2>3
<1> HIDE DEF n, W
<1>4. \E f : Moves(f) /\ shift_left(m, from, to, by) = f[n]
  <2>1. w[0] = m
    BY <1>1, <1>2
  <2>2. \A i \in 1 .. n : w[i] = W(i) /\ w[i - 1] = W(i - 1)
    BY <1>1
  <2>3. \A i \in 0 .. n : w[i] = IF i = 0 THEN m ELSE [w[i - 1] EXCEPT ![from + i - 1] = w[i - 1][from + by + i - 1]]
    <3>1. \A i \in 0 .. n : i # 0 => i \in 1 .. n
      BY <1>1
    <3> QED BY <1>3, <2>1, <2>2, <3>1
  <2>4. Moves(w)
    BY <2>3
  <2> QED BY <2>4 DEF shift_left, n
<1>5. PICK f : Moves(f) /\ shift_left(m, from, to, by) = f[n]
  BY <1>4
<1>6. f[0] = m /\ \A i \in 1 .. n : f[i] = [f[i - 1] EXCEPT ![from + i - 1] = f[i - 1][from + by + i - 1]]
  <2>1. \A i \in 0 .. n : f[i] = IF i = 0 THEN m ELSE [f[i - 1] EXCEPT ![from + i - 1] = f[i - 1][from + by + i - 1]]
    BY <1>5
  <2>2. 0 \in 0 .. n /\ \A i \in 1 .. n : i \in 0 .. n /\ i # 0
    BY <1>1
  <2> QED BY <2>1, <2>2
<1> DEFINE T == {i \in 0 .. n : f[i] = W(i)}
<1>7. 0 \in T
  BY <1>1, <1>2, <1>6
<1>8. \A i \in 1 .. n : i - 1 \in T => i \in T
  <2>1. \A i \in 1 .. n : i \in 0 .. n
    BY <1>1
  <2> QED BY <1>3, <1>6, <2>1
<1>9. n \in T
  <2> HIDE DEF T
  <2>1. 0 .. n \subseteq T
    BY <1>1, <1>7, <1>8, AllTurns
  <2> QED BY <1>1, <2>1
<1>10. shift_left(m, from, to, by) = W(n)
  BY <1>5, <1>9
<1>11. from + n - 1 = to - by - 1
  BY DEF n
<1> QED BY <1>10, <1>11 DEF W, Down

-----------------------------------------------------------------------------
(* Editing. *)

(* Cells that move together keep what they say of a record. *)
LEMMA SameRecord ==
  ASSUME NEW m, NEW k, NEW p \in Int, NEW d \in Int, LenAt(m, p) \in 5 .. 255,
         \A i \in 0 .. LenAt(m, p) - 1 : k[p + i + d] = m[p + i]
  PROVE  /\ LenAt(k, p + d) = LenAt(m, p) /\ LineAt(k, p + d) = LineAt(m, p)
         /\ k[p + d + LenAt(k, p + d) - 1] = m[p + LenAt(m, p) - 1]
         /\ TextAt(k, p + d) = TextAt(m, p)
<1> DEFINE l == LenAt(m, p)
<1>1. l \in Int /\ l >= 5
  OBVIOUS
<1>2. LenAt(m, p) = m[p + 2]
  BY DEF LenAt
<1> HIDE DEF l
<1>3. 0 \in 0 .. l - 1 /\ 1 \in 0 .. l - 1 /\ 2 \in 0 .. l - 1 /\ l - 1 \in 0 .. l - 1
  BY <1>1
<1>4. \A i \in 0 .. l - 1 : k[p + i + d] = m[p + i]
  BY DEF l
<1>5. k[p + 0 + d] = m[p + 0] /\ k[p + 1 + d] = m[p + 1] /\ k[p + 2 + d] = m[p + 2]
  BY <1>3, <1>4
<1>6. p + 0 + d = p + d /\ p + 1 + d = p + d + 1 /\ p + 2 + d = p + d + 2 /\ p + 0 = p
  OBVIOUS
<1>7. LenAt(k, p + d) = l /\ LineAt(k, p + d) = LineAt(m, p)
  BY <1>2, <1>5, <1>6 DEF LenAt, LineAt, l
<1>8. k[p + (l - 1) + d] = m[p + (l - 1)]
  BY <1>3, <1>4
<1>9. p + (l - 1) + d = p + d + l - 1 /\ p + (l - 1) = p + l - 1
  BY <1>1
<1>10. \A i \in 1 .. l - 4 : k[p + d + 2 + i] = m[p + 2 + i]
  <2>1. \A i \in 1 .. l - 4 : 2 + i \in 0 .. l - 1 /\ p + (2 + i) + d = p + d + 2 + i /\ p + (2 + i) = p + 2 + i
    BY <1>1
  <2>2. \A i \in 1 .. l - 4 : k[p + (2 + i) + d] = m[p + (2 + i)]
    BY <1>4, <2>1
  <2> QED BY <2>1, <2>2
<1>11. TextAt(k, p + d) = TextAt(m, p)
  <2>1. LenAt(k, p + d) = l /\ LenAt(m, p) = l
    BY <1>7 DEF l
  <2>2. TextAt(k, p + d) = [i \in 1 .. l - 4 |-> k[p + d + 2 + i]]
    BY <2>1 DEF TextAt
  <2>3. TextAt(m, p) = [i \in 1 .. l - 4 |-> m[p + 2 + i]]
    BY <2>1 DEF TextAt
  <2> QED BY <1>10, <2>2, <2>3
<1> QED BY <1>7, <1>8, <1>9, <1>11 DEF l

(* The bytes of m from lo to hi stand in k, d further on. *)
Moved(m, k, d, lo, hi) == \A a \in lo .. hi - 1 : k[a + d] = m[a]

(* The record of k at r says what that of m at q says. *)
Alike(k, r, m, q) == LineAt(k, r) = LineAt(m, q) /\ TextAt(k, r) = TextAt(m, q)

(* The record of k at q + d is that of m at q. *)
Same(m, k, q, d) ==
  /\ LenAt(k, q + d) = LenAt(m, q) /\ Alike(k, q + d, m, q)
  /\ k[q + d + LenAt(k, q + d) - 1] = NUL

(* A record of a chain that moves with its neighbourhood is a record where *)
(* it gets to.                                                             *)
LEMMA RecordMoves ==
  ASSUME NEW m, NEW pend, NEW R, Chain(m, pend, R), NEW q \in R,
         NEW k, NEW d \in Int, NEW lo \in Int, NEW hi \in Int, lo <= q, q + LenAt(m, q) <= hi,
         Moved(m, k, d, lo, hi)
  PROVE  Same(m, k, q, d)
<1> DEFINE l == LenAt(m, q)
<1>1. q \in Int /\ l \in Int /\ l \in 5 .. 255 /\ m[q + l - 1] = NUL
  BY InRecord
<1>2. \A i \in 0 .. l - 1 : k[q + i + d] = m[q + i]
  <2> HIDE DEF l
  <2> SUFFICES ASSUME NEW i \in 0 .. l - 1 PROVE k[q + i + d] = m[q + i]
    OBVIOUS
  <2>1. q + i \in lo .. hi - 1
    BY <1>1 DEF l
  <2> QED BY <2>1 DEF Moved
<1>3. /\ LenAt(k, q + d) = l /\ LineAt(k, q + d) = LineAt(m, q)
      /\ k[q + d + LenAt(k, q + d) - 1] = m[q + l - 1] /\ TextAt(k, q + d) = TextAt(m, q)
  BY <1>1, <1>2, SameRecord
<1> QED BY <1>1, <1>3 DEF Same, Alike

(* Room is made for a new record at p, or none is left. *)
Gap(m, k, R, p, c, d, B) ==
  \/ B = {} /\ c + d = p
  \/ /\ B = {p} /\ LenAt(k, p) \in 5 .. 255 /\ c + d = p + LenAt(k, p)
     /\ k[p + LenAt(k, p) - 1] = NUL
     /\ \A q \in R : q < p => LineAt(m, q) < LineAt(k, p)
     /\ \A q \in R : c <= q => LineAt(k, p) < LineAt(m, q)

(* The records of k are those of m outside p .. c - 1, and those in B.     *)
Follows(m, R, p, c, B, k, last) ==
  \E Q : /\ Chain(k, last, Q) /\ B \subseteq Q
         /\ \A r \in Q : r \in B \/ \E q \in R : (q < p \/ c <= q) /\ Alike(k, r, m, q)
         /\ \A q \in R : q < p \/ c <= q => \E r \in Q : Alike(k, r, m, q)

(* What stands between two records, those below p and those from c on, may *)
(* give way to a new record, or to none: the chain closes over it.         *)
LEMMA Spliced ==
  ASSUME NEW m, NEW pend, NEW R, Chain(m, pend, R),
         NEW p \in R \cup {pend}, NEW c \in R \cup {pend}, p <= c,
         NEW d \in Int, NEW k \in [PROG .. LIMIT - 1 -> Octet], pend + d <= LIMIT,
         Moved(m, k, 0, PROG, p), Moved(m, k, d, c, pend), NEW B, Gap(m, k, R, p, c, d, B)
  PROVE  Follows(m, R, p, c, B, k, pend + d)
<1> DEFINE A == {q \in R : q < p}
           C == {q \in R : c <= q}
           D == {q + d : q \in C}
           e == c + d
           last == pend + d
           Q == A \cup B \cup D
<1>1. p \in Nat /\ c \in Nat /\ pend \in Nat /\ c <= pend /\ p <= pend /\ PROG <= p /\ R \subseteq Nat
      /\ \A q \in R : PROG <= q /\ q < pend
  BY Sizes DEF Chain
<1>3. B = {} \/ B = {p}
  BY DEF Gap
<1>4. B = {} => e = p
  BY DEF Gap
<1>5. B = {p} => /\ LenAt(k, p) \in 5 .. 255 /\ e = p + LenAt(k, p) /\ k[p + LenAt(k, p) - 1] = NUL
                 /\ \A q \in R : q < p => LineAt(m, q) < LineAt(k, p)
                 /\ \A q \in R : c <= q => LineAt(k, p) < LineAt(m, q)
  BY DEF Gap
<1>2. e \in Int /\ last \in Int /\ p <= e /\ e <= last /\ last <= LIMIT /\ (B = {p} => p < e)
  <2>1. e \in Int /\ last \in Int /\ e <= last /\ last <= LIMIT
    BY <1>1
  <2> HIDE DEF e, last
  <2>2. CASE B = {}
    BY <1>1, <1>4, <2>1, <2>2
  <2>3. CASE B = {p}
    <3>1. LenAt(k, p) \in 5 .. 255 /\ e = p + LenAt(k, p)
      BY <1>5, <2>3
    <3> DEFINE len == LenAt(k, p)
    <3>2. len \in 5 .. 255 /\ e = p + len
      BY <3>1
    <3> HIDE DEF len
    <3>3. len \in Int /\ 5 <= len
      BY <3>2
    <3> QED BY <3>2, <3>3, <1>1, <2>1
  <2> QED BY <1>3, <2>2, <2>3
<1>6. ASSUME NEW q \in A
      PROVE  /\ LenAt(k, q) = LenAt(m, q) /\ LineAt(k, q) = LineAt(m, q) /\ Alike(k, q, m, q)
             /\ LenAt(k, q) \in 5 .. 255 /\ LenAt(k, q) \in Int /\ q + LenAt(k, q) <= p
             /\ q + LenAt(k, q) \in A \cup {p} /\ k[q + LenAt(k, q) - 1] = NUL
  <2> DEFINE l == LenAt(m, q)
  <2>1. q \in R /\ q < p
    OBVIOUS
  <2>2. q \in Int /\ PROG <= q /\ l \in 5 .. 255 /\ l \in Int /\ q + l <= pend /\ q + l \in R \cup {pend}
    BY <2>1, InRecord
  <2>3. p \in R => q + l <= p
    BY <2>1 DEF Chain
  <2> HIDE DEF l
  <2>4. q + l <= p
    BY <2>2, <2>3
  <2>5. q + l \in A \cup {p}
    BY <1>1, <2>2, <2>4
  <2>7. /\ LenAt(k, q + 0) = l /\ LineAt(k, q + 0) = LineAt(m, q) /\ k[q + 0 + LenAt(k, q + 0) - 1] = NUL
        /\ Alike(k, q + 0, m, q)
    <3>1. q + LenAt(m, q) <= p /\ p \in Int /\ PROG \in Int /\ 0 \in Int
      BY <1>1, <2>4, Sizes DEF l
    <3>2. PROG <= q
      BY <2>2
    <3> HIDE DEF A
    <3>3. Same(m, k, q, 0)
      BY <2>1, <3>1, <3>2, RecordMoves
    <3> QED BY <3>3 DEF l, Same, Alike
  <2>8. q + 0 = q
    BY <2>2
  <2> QED BY <2>2, <2>4, <2>5, <2>7, <2>8 DEF l
<1>7. ASSUME NEW q \in C
      PROVE  /\ LenAt(k, q + d) = LenAt(m, q) /\ LineAt(k, q + d) = LineAt(m, q) /\ Alike(k, q + d, m, q)
             /\ LenAt(k, q + d) \in 5 .. 255
             /\ q + d + LenAt(k, q + d) \in D \cup {last} /\ k[q + d + LenAt(k, q + d) - 1] = NUL
             /\ e <= q + d /\ q + d < last
  <2> DEFINE l == LenAt(m, q)
  <2>1. q \in R /\ c <= q
    OBVIOUS
  <2>2. q \in Int /\ l \in 5 .. 255 /\ l \in Int /\ 5 <= l /\ q + l <= pend /\ q + l \in R \cup {pend} /\ q < pend
    BY <2>1, InRecord
  <2> HIDE DEF l
  <2>3. q + d + l \in D \cup {last}
    <3>1. CASE q + l = pend
      <4>1. q + d + l = pend + d
        BY <1>1, <2>2, <3>1
      <4> QED BY <4>1
    <3>2. CASE q + l \in R
      <4>1. c <= q + l
        BY <1>1, <2>1, <2>2
      <4>2. (q + l) + d \in D
        BY <3>2, <4>1
      <4>3. (q + l) + d = q + d + l
        BY <2>2
      <4> QED BY <4>2, <4>3
    <3> QED BY <2>2, <3>1, <3>2
  <2>4. /\ LenAt(k, q + d) = l /\ LineAt(k, q + d) = LineAt(m, q) /\ k[q + d + LenAt(k, q + d) - 1] = NUL
        /\ Alike(k, q + d, m, q)
    <3>1. q + LenAt(m, q) <= pend /\ c \in Int /\ pend \in Int
      BY <1>1, <2>2 DEF l
    <3> HIDE DEF C
    <3>3. Same(m, k, q, d)
      BY <2>1, <3>1, RecordMoves
    <3> QED BY <3>3 DEF l, Same, Alike
  <2>5. e <= q + d /\ q + d < last
    BY <1>1, <2>1, <2>2
  <2> QED BY <2>2, <2>3, <2>4, <2>5 DEF l
<1>8. e \in D \cup {last}
  <2>1. CASE c = pend
    BY <2>1
  <2>2. CASE c \in R
    <3>1. c \in C
      BY <1>1, <2>2
    <3> QED BY <3>1
  <2> QED BY <2>1, <2>2
<1>9. p \in Q \cup {last} /\ last \in PROG .. LIMIT
  BY <1>1, <1>2, <1>3, <1>4, <1>8, Sizes
<1>10. PROG \in Q \cup {last}
  <2>1. CASE PROG = p
    BY <1>9, <2>1
  <2>2. CASE PROG # p
    <3>1. PROG < p /\ PROG # pend
      BY <1>1, <2>2, Sizes
    <3>2. PROG \in R
      BY <3>1 DEF Chain
    <3> QED BY <3>1, <3>2
  <2> QED BY <2>1, <2>2
<1>11. \A r \in D : r \in Int /\ e <= r /\ r < last
  BY <1>1, <1>7
<1>12. Q \subseteq PROG .. last - 1
  <2>1. \A r \in A : r \in PROG .. last - 1
    BY <1>1, <1>2, Sizes
  <2>2. B = {p} => p < last
    <3> HIDE DEF e, last
    <3> QED BY <1>1, <1>2
  <2>3. \A r \in B : r \in PROG .. last - 1
    BY <1>1, <1>2, <1>3, <2>2, Sizes
  <2>4. \A r \in D : r \in PROG .. last - 1
    BY <1>1, <1>2, <1>11, Sizes
  <2> QED BY <2>1, <2>3, <2>4
<1>13. ASSUME NEW r \in Q
       PROVE  LenAt(k, r) \in 5 .. 255 /\ r + LenAt(k, r) \in Q \cup {last} /\ k[r + LenAt(k, r) - 1] = NUL
  <2>1. CASE r \in A
    BY <1>6, <1>9, <2>1
  <2>2. CASE r \in B
    BY <1>3, <1>5, <1>8, <2>2
  <2>3. CASE r \in D
    <3>1. PICK q \in C : r = q + d
      BY <2>3
    <3> QED BY <1>7, <3>1
  <2> QED BY <2>1, <2>2, <2>3
<1>14. ASSUME NEW r \in Q, NEW s \in Q, r < s
       PROVE  r + LenAt(k, r) <= s /\ LineAt(k, r) < LineAt(k, s)
  <2>0. r \in Int /\ s \in Int
    BY <1>12
  <2>1. CASE r \in A /\ s \in A
    <3>1. r + LenAt(m, r) <= s /\ LineAt(m, r) < LineAt(m, s)
      BY <1>14, <2>1 DEF Chain
    <3>2. LenAt(k, r) = LenAt(m, r) /\ LineAt(k, r) = LineAt(m, r) /\ LineAt(k, s) = LineAt(m, s)
      BY <1>6, <2>1
    <3> QED BY <3>1, <3>2
  <2>2. CASE r \in A /\ s \in B
    BY <1>3, <1>5, <1>6, <2>2
  <2>3. CASE r \in A /\ s \in D
    <3>1. PICK q \in C : s = q + d
      BY <2>3
    <3>2. r + LenAt(k, r) <= p /\ LineAt(k, r) = LineAt(m, r) /\ LineAt(k, s) = LineAt(m, q) /\ e <= s
      BY <1>6, <1>7, <2>3, <3>1
    <3>3. r \in R /\ q \in R /\ r < q
      <4>1. r \in R /\ r < p /\ q \in R /\ c <= q
        BY <2>3
      <4>2. q \in Int
        BY <1>1
      <4> HIDE DEF A, C, D, e, last
      <4> QED BY <1>1, <2>0, <4>1, <4>2
    <3>4. LineAt(m, r) < LineAt(m, q)
      BY <3>3 DEF Chain
    <3>5. r \in A
      BY <2>3
    <3>6. LenAt(k, r) \in Int
      BY <1>6, <3>5
    <3> HIDE DEF A, C, D, e, last
    <3> QED BY <1>1, <1>2, <2>0, <3>2, <3>4, <3>6
  <2>4. CASE r \in B /\ s \in A
    BY <1>1, <1>3, <1>14, <2>4
  <2>5. CASE r \in B /\ s \in B
    BY <1>1, <1>3, <1>14, <2>5
  <2>6. CASE r \in B /\ s \in D
    <3>1. PICK q \in C : s = q + d
      BY <2>6
    <3>2. r = p /\ B = {p} /\ LineAt(k, s) = LineAt(m, q) /\ e <= s
      BY <1>3, <1>7, <2>6, <3>1
    <3>3. q \in R /\ c <= q
      OBVIOUS
    <3> HIDE DEF A, C, D, e, last
    <3>4. e = p + LenAt(k, p) /\ LineAt(k, p) < LineAt(m, q)
      BY <1>5, <3>2, <3>3
    <3> QED BY <3>2, <3>4
  <2>7. CASE r \in D /\ s \in A
    BY <1>1, <1>2, <1>11, <1>14, <2>7
  <2>8. CASE r \in D /\ s \in B
    BY <1>1, <1>2, <1>3, <1>11, <1>14, <2>8
  <2>9. CASE r \in D /\ s \in D
    <3>1. PICK q \in C : r = q + d
      BY <2>9
    <3>2. PICK t \in C : s = t + d
      BY <2>9
    <3>3. q \in R /\ t \in R /\ q < t /\ q \in Nat /\ t \in Nat
      BY <1>1, <1>14, <3>1, <3>2
    <3>4. q + LenAt(m, q) <= t /\ LineAt(m, q) < LineAt(m, t)
      BY <3>3 DEF Chain
    <3>5. LenAt(k, r) = LenAt(m, q) /\ LineAt(k, r) = LineAt(m, q) /\ LenAt(m, q) \in 5 .. 255
      BY <1>7, <3>1
    <3>6. LineAt(k, s) = LineAt(m, t)
      BY <1>7, <3>2
    <3>7. q + d + LenAt(m, q) <= t + d
      <4> DEFINE l == LenAt(m, q)
      <4>1. l \in Int /\ q + l <= t
        BY <3>3, <3>4, InRecord
      <4> HIDE DEF l
      <4>2. q + d + l <= t + d
        BY <3>3, <4>1
      <4> QED BY <4>2 DEF l
    <3> QED BY <3>1, <3>2, <3>4, <3>5, <3>6, <3>7
  <2> QED BY <2>1, <2>2, <2>3, <2>4, <2>5, <2>6, <2>7, <2>8, <2>9
<1>15. Chain(k, last, Q)
  BY <1>9, <1>10, <1>12, <1>13, <1>14 DEF Chain
<1>16. ASSUME NEW r \in Q
       PROVE  r \in B \/ \E q \in R : (q < p \/ c <= q) /\ Alike(k, r, m, q)
  <2>1. CASE r \in A
    BY <1>6, <2>1
  <2>2. CASE r \in D
    <3>1. PICK q \in C : r = q + d
      BY <2>2
    <3> QED BY <1>7, <3>1
  <2> QED BY <2>1, <2>2
<1>17. ASSUME NEW q \in R, q < p \/ c <= q
       PROVE  \E r \in Q : Alike(k, r, m, q)
  <2>1. CASE q < p
    <3>1. q \in A
      BY <2>1
    <3> QED BY <1>6, <3>1
  <2>2. CASE c <= q
    <3>1. q \in C /\ q + d \in Q
      BY <2>2
    <3> QED BY <1>7, <3>1
  <2> QED BY <1>17, <2>1, <2>2
<1>18. B \subseteq Q
  OBVIOUS
<1> HIDE DEF Q
<1> QED BY <1>15, <1>16, <1>17, <1>18 DEF Follows

(* The bytes of a record: line, length, text, and the NUL that ends it.    *)
LEMMA RecordIs ==
  ASSUME NEW n \in Words, NEW t \in Seq(1 .. 255), t # <<>>, Len(t) < TooLong
  PROVE  /\ Len(t) + 4 \in 5 .. 255
         /\ \A i \in 1 .. Len(t) + 4 : Record(n, t)[i] \in Octet
         /\ Record(n, t)[1] = Lo(n) /\ Record(n, t)[2] = Hi(n)
         /\ Record(n, t)[3] = Len(t) + 4 /\ Record(n, t)[Len(t) + 4] = NUL
         /\ \A i \in 1 .. Len(t) : Record(n, t)[i + 3] = t[i]
<1> DEFINE h == <<Lo(n), Hi(n), Len(t) + 4>>
           z == <<NUL>>
<1>1. Len(t) \in Nat /\ Len(t) >= 1 /\ Len(t) < 252
  <2>1. Len(t) \in Nat /\ Len(t) # 0
    BY EmptySeq
  <2> QED BY <2>1, Sizes
<1>2. Len(t) + 4 \in 5 .. 255 /\ Len(t) + 4 \in Octet /\ NUL \in Octet
  <2> DEFINE l == Len(t)
  <2>1. l \in Nat /\ l >= 1 /\ l < 252
    BY <1>1
  <2> HIDE DEF l
  <2>2. l + 4 \in 5 .. 255 /\ l + 4 \in Int /\ 0 <= l + 4 /\ l + 4 <= 255
    BY <2>1
  <2>3. l + 4 \in Octet
    BY <2>2, OctetsAre
  <2>4. NUL \in Octet
    BY OctetsAre DEF NUL
  <2> QED BY <2>2, <2>3, <2>4 DEF l
<1>3. Lo(n) \in Octet /\ Hi(n) \in Octet
  <2>1. n \in Int /\ 0 <= n /\ n <= 65535
    BY WordsAre
  <2>2. 0 <= n % 256 /\ n % 256 <= 255 /\ n % 256 \in Int
    BY <2>1
  <2>3. n \div 256 \in Int /\ 0 <= n \div 256 /\ n \div 256 <= 255
    BY <2>1
  <2> QED BY <2>2, <2>3, OctetsAre DEF Lo, Hi
<1>4. h \in Seq(Octet) /\ Len(h) = 3 /\ z \in Seq(Octet) /\ Len(z) = 1
  BY <1>2, <1>3
<1>5. t \in Seq(Octet)
  <2>1. 1 .. 255 \subseteq Octet
    BY DEF Octet
  <2>2. \A i \in 1 .. Len(t) : t[i] \in Octet
    BY <2>1, ElementOfSeq
  <2>3. Len(t) \in Nat /\ t \in [1 .. Len(t) -> 1 .. 255]
    BY LenProperties
  <2>4. t \in [1 .. Len(t) -> Octet]
    BY <2>2, <2>3
  <2> QED BY <2>3, <2>4
<1>6. h[1] = Lo(n) /\ h[2] = Hi(n) /\ h[3] = Len(t) + 4 /\ z[1] = NUL
  OBVIOUS
<1>7. Record(n, t) = (h \o t) \o z
  BY DEF Record
<1> HIDE DEF h, z
<1>8. /\ h \o t \in Seq(Octet) /\ Len(h \o t) = 3 + Len(t)
      /\ \A i \in 1 .. 3 + Len(t) : (h \o t)[i] = IF i <= 3 THEN h[i] ELSE t[i - 3]
  <2>1. /\ h \o t \in Seq(Octet) /\ Len(h \o t) = Len(h) + Len(t)
        /\ \A i \in 1 .. Len(h) + Len(t) : (h \o t)[i] = IF i <= Len(h) THEN h[i] ELSE t[i - Len(h)]
    <3>1. h \in Seq(Octet)
      BY <1>4
    <3> QED BY <3>1, <1>5, ConcatProperties
  <2> QED BY <1>4, <2>1
<1> DEFINE ht == h \o t
           r == ht \o z
<1>9. ht \in Seq(Octet) /\ Len(ht) = 3 + Len(t)
      /\ ht[1] = h[1] /\ ht[2] = h[2] /\ ht[3] = h[3]
      /\ \A i \in 1 .. Len(t) : ht[i + 3] = t[i]
  <2>1. ht \in Seq(Octet) /\ Len(ht) = 3 + Len(t) /\ ht[1] = h[1] /\ ht[2] = h[2] /\ ht[3] = h[3]
    BY <1>1, <1>8
  <2>2. \A i \in 1 .. Len(t) : i + 3 \in 1 .. 3 + Len(t) /\ ~(i + 3 <= 3) /\ (i + 3) - 3 = i
    BY <1>1
  <2>3. \A i \in 1 .. Len(t) : ht[i + 3] = t[i]
    BY <1>8, <2>2
  <2> QED BY <2>1, <2>3
<1> HIDE DEF ht
<1>10. /\ r \in Seq(Octet) /\ Len(r) = Len(ht) + 1
       /\ \A i \in 1 .. Len(ht) + 1 : r[i] = IF i <= Len(ht) THEN ht[i] ELSE z[i - Len(ht)]
  <2>1. /\ ht \o z \in Seq(Octet) /\ Len(ht \o z) = Len(ht) + Len(z)
        /\ \A i \in 1 .. Len(ht) + Len(z) : (ht \o z)[i] = IF i <= Len(ht) THEN ht[i] ELSE z[i - Len(ht)]
    <3>1. ht \in Seq(Octet) /\ z \in Seq(Octet)
      BY <1>4, <1>9
    <3> QED BY <3>1, ConcatProperties
  <2> QED BY <1>4, <2>1
<1> HIDE DEF r
<1>11. Len(r) = Len(t) + 4 /\ r[1] = h[1] /\ r[2] = h[2] /\ r[3] = h[3] /\ r[Len(t) + 4] = z[1]
  BY <1>1, <1>9, <1>10
<1>12. \A i \in 1 .. Len(t) + 4 : r[i] \in Octet
  BY <1>10, <1>11, ElementOfSeq
<1>13. \A i \in 1 .. Len(t) : r[i + 3] = t[i]
  <2>1. \A i \in 1 .. Len(t) : i + 3 \in 1 .. Len(ht) + 1 /\ i + 3 <= Len(ht)
    BY <1>1, <1>9
  <2>2. \A i \in 1 .. Len(t) : r[i + 3] = ht[i + 3]
    BY <1>10, <2>1
  <2> QED BY <1>9, <2>2
<1> QED BY <1>2, <1>6, <1>7, <1>11, <1>12, <1>13 DEF r, ht

(* What the records of a store say: lines and their texts.                 *)
Content(m, R) == {<<LineAt(m, q), TextAt(m, q)>> : q \in R}

Others(C, n) == {x \in C : x[1] # n}

Fitting(pend, t) == Len(t) < TooLong /\ pend + (Len(t) + 4) <= LIMIT

(* e is the store with t entered as line n, which it has not yet.          *)
Enters(m, pend, R, n, t, e) ==
  /\ e.at \in Nat
  /\ e.fits <=> t = <<>> \/ Fitting(pend, t)
  /\ t = <<>> \/ ~Fitting(pend, t) => e.mem = m /\ e.pend = pend
  /\ t # <<>> /\ Fitting(pend, t) =>
       \E Q : Chain(e.mem, e.pend, Q) /\ Content(e.mem, Q) = Content(m, R) \cup {<<n, t>>}

(* A text is a function. *)
LEMMA TextIs ==
  ASSUME NEW t \in Seq(1 .. 255)
  PROVE  Len(t) \in Nat /\ t \in [1 .. Len(t) -> 1 .. 255]
BY LenProperties

(* sl_ins: a line that is not there goes in before the first greater one.  *)
LEMMA InsertKeeps ==
  ASSUME NEW m, NEW pend, NEW R, Chain(m, pend, R), NEW n \in Words, NEW t \in Seq(1 .. 255),
         NEW p \in R \cup {pend}, \A q \in R : q < p <=> LineAt(m, q) < n, \A q \in R : LineAt(m, q) # n
  PROVE  Enters(m, pend, R, n, t, Insert(m, pend, p, n, t))
<1> DEFINE len == Len(t) + 4
           moved == shift_right(m, p, pend, len)
           k == [a \in DOMAIN m |-> IF a \in p .. p + len - 1 THEN Record(n, t)[a - p + 1] ELSE moved[a]]
           e == Insert(m, pend, p, n, t)
<1>1. p \in Nat /\ pend \in Nat /\ p <= pend /\ PROG <= p /\ m \in [PROG .. LIMIT - 1 -> Octet]
  BY Sizes DEF Chain
<1>2. CASE t = <<>> \/ ~(Len(t) < TooLong /\ pend + len <= LIMIT)
  <2>1. e.mem = m /\ e.pend = pend /\ e.at = p /\ e.fits = (t = <<>>)
    BY <1>2 DEF Insert
  <2>2. t = <<>> \/ ~Fitting(pend, t)
    BY <1>2 DEF Fitting
  <2> QED BY <1>1, <2>1, <2>2 DEF Enters
<1>3. CASE t # <<>> /\ Len(t) < TooLong /\ pend + len <= LIMIT
  <2>1. e.mem = k /\ e.pend = pend + len /\ e.at = p /\ e.fits = TRUE
    BY <1>3 DEF Insert
  <2>15. t # <<>> /\ Fitting(pend, t)
    BY <1>3 DEF Fitting
  <2>2. /\ len \in 5 .. 255 /\ len \in Nat /\ 5 <= len
        /\ \A i \in 1 .. len : Record(n, t)[i] \in Octet
        /\ Record(n, t)[1] = Lo(n) /\ Record(n, t)[2] = Hi(n)
        /\ Record(n, t)[3] = len /\ Record(n, t)[len] = NUL
    BY <1>3, RecordIs
  <2>16. /\ \A i \in 1 .. Len(t) : Record(n, t)[i + 3] = t[i]
         /\ len - 4 = Len(t) /\ t = [i \in 1 .. Len(t) |-> t[i]]
    <3>1. \A i \in 1 .. Len(t) : Record(n, t)[i + 3] = t[i]
      BY <1>3, RecordIs
    <3>2. Len(t) \in Nat /\ t \in [1 .. Len(t) -> 1 .. 255]
      BY TextIs
    <3>3. t = [i \in 1 .. Len(t) |-> t[i]]
      BY <3>2
    <3> QED BY <3>1, <3>2, <3>3
  <2>3. DOMAIN m = PROG .. LIMIT - 1
    BY <1>1
  <2>14. pend + len <= LIMIT
    BY <1>3
  <2> HIDE DEF len
  <2>4. moved = [a \in PROG .. LIMIT - 1 |-> IF p + len <= a /\ a <= pend + len - 1 THEN m[a - len] ELSE m[a]]
    <3>1. 1 <= len /\ len \in Nat
      BY <2>2
    <3>2. shift_right(m, p, pend, len) = Up(m, p, pend, len)
      BY <1>1, <2>14, <3>1, ShiftRight
    <3> QED BY <3>2 DEF Up
  <2> HIDE DEF moved
  <2>5. ASSUME NEW a \in PROG .. LIMIT - 1
        PROVE  /\ k[a] \in Octet
               /\ a < p => k[a] = m[a]
               /\ p <= a /\ a <= p + len - 1 => k[a] = Record(n, t)[a - p + 1]
               /\ p + len <= a /\ a <= pend + len - 1 => k[a] = m[a - len]
    <3>1. a \in Int /\ PROG <= a /\ a <= LIMIT - 1 /\ PROG \in Int /\ LIMIT \in Int
      BY Sizes
    <3>2. a \in p .. p + len - 1 <=> p <= a /\ a <= p + len - 1
      BY <1>1, <2>2, <3>1
    <3>3. k[a] = IF p <= a /\ a <= p + len - 1 THEN Record(n, t)[a - p + 1] ELSE moved[a]
      BY <2>3, <3>2
    <3>4. moved[a] = IF p + len <= a /\ a <= pend + len - 1 THEN m[a - len] ELSE m[a]
      BY <2>4
    <3>5. p <= a /\ a <= p + len - 1 => a - p + 1 \in 1 .. len
      BY <1>1, <2>2, <3>1
    <3>6. p + len <= a /\ a <= pend + len - 1 => a - len \in PROG .. LIMIT - 1
      BY <1>1, <2>2, <3>1
    <3>7. moved[a] \in Octet
      BY <1>1, <3>4, <3>6
    <3>8. k[a] \in Octet
      BY <2>2, <3>3, <3>5, <3>7
    <3> HIDE DEF k
    <3>9. a < p => k[a] = m[a]
      BY <1>1, <2>2, <3>1, <3>3, <3>4
    <3>10. p + len <= a /\ a <= pend + len - 1 => k[a] = m[a - len]
      BY <1>1, <2>2, <3>1, <3>3, <3>4
    <3> QED BY <3>3, <3>8, <3>9, <3>10
  <2>6. k \in [PROG .. LIMIT - 1 -> Octet]
    <3>1. \A a \in PROG .. LIMIT - 1 : k[a] \in Octet
      BY <2>5
    <3> QED BY <2>3, <3>1
  <2> HIDE DEF k
  <2>7. Moved(m, k, 0, PROG, p)
    <3>1. \A a \in PROG .. p - 1 : a \in PROG .. LIMIT - 1 /\ a < p /\ a + 0 = a
      BY <1>1, <1>3, <2>2, Sizes
    <3> QED BY <2>5, <3>1 DEF Moved
  <2>8. Moved(m, k, len, p, pend)
    <3>1. \A a \in p .. pend - 1 : /\ a + len \in PROG .. LIMIT - 1 /\ p + len <= a + len
                                   /\ a + len <= pend + len - 1 /\ (a + len) - len = a
      BY <1>1, <1>3, <2>2, Sizes
    <3> QED BY <2>5, <3>1 DEF Moved
  <2>9. k[p] = Lo(n) /\ k[p + 1] = Hi(n) /\ k[p + 2] = len /\ k[p + len - 1] = NUL
    <3>1. \A a \in p .. p + len - 1 : a \in PROG .. LIMIT - 1 /\ p <= a /\ a <= p + len - 1
      BY <1>1, <1>3, <2>2, Sizes
    <3>2. \A a \in p .. p + len - 1 : k[a] = Record(n, t)[a - p + 1]
      BY <2>5, <3>1
    <3>3. ASSUME NEW i \in 1 .. len, NEW a, a = p + i - 1 PROVE k[a] = Record(n, t)[i]
      <4>1. a \in p .. p + len - 1 /\ a - p + 1 = i
        BY <1>1, <2>2, <3>3
      <4>2. k[a] = Record(n, t)[a - p + 1]
        BY <3>2, <4>1
      <4> QED BY <4>1, <4>2
    <3>4. 1 \in 1 .. len /\ 2 \in 1 .. len /\ 3 \in 1 .. len /\ len \in 1 .. len
      BY <2>2
    <3>5. p = p + 1 - 1 /\ p + 1 = p + 2 - 1 /\ p + 2 = p + 3 - 1
      BY <1>1
    <3>6. k[p] = Record(n, t)[1]
      BY <3>3, <3>4, <3>5
    <3>7. k[p + 1] = Record(n, t)[2]
      BY <3>3, <3>4, <3>5
    <3>8. k[p + 2] = Record(n, t)[3]
      BY <3>3, <3>4, <3>5
    <3>9. k[p + len - 1] = Record(n, t)[len]
      BY <3>3, <3>4
    <3> QED BY <2>2, <3>6, <3>7, <3>8, <3>9
  <2>10. LenAt(k, p) = len /\ LineAt(k, p) = n
    <3>1. LenAt(k, p) = len /\ LineAt(k, p) = Lo(n) + 256 * Hi(n)
      BY <2>9 DEF LenAt, LineAt
    <3>2. n \in Int /\ 0 <= n /\ n <= 65535
      BY WordsAre
    <3>3. n = (n % 256) + 256 * (n \div 256)
      BY <3>2, Halves
    <3> QED BY <3>1, <3>3 DEF Lo, Hi
  <2>11. Gap(m, k, R, p, p, len, {p})
    <3>1. \A q \in R : q < p => LineAt(m, q) < n
      OBVIOUS
    <3>2. \A q \in R : p <= q => n < LineAt(m, q)
      <4> SUFFICES ASSUME NEW q \in R, p <= q PROVE n < LineAt(m, q)
        OBVIOUS
      <4>1. q \in Int /\ LineAt(m, q) \in Int /\ n \in Int
        BY InRecord, WordsAre
      <4>2. ~(q < p)
        BY <1>1, <4>1
      <4>3. ~(LineAt(m, q) < n) /\ LineAt(m, q) # n
        BY <4>2
      <4> QED BY <4>1, <4>3
    <3> QED BY <2>2, <2>9, <2>10, <3>1, <3>2 DEF Gap
  <2>12. p <= p /\ len \in Int
    BY <1>1, <2>2
  <2>13. Follows(m, R, p, p, {p}, k, pend + len)
    BY <2>6, <2>7, <2>8, <2>11, <2>12, <2>14, Spliced
  <2>17. TextAt(k, p) = t
    <3>1. \A i \in 1 .. Len(t) : k[p + 2 + i] = t[i]
      <4> SUFFICES ASSUME NEW i \in 1 .. Len(t) PROVE k[p + 2 + i] = t[i]
        OBVIOUS
      <4>1. PICK x : x = p + 2 + i
        OBVIOUS
      <4>2. i \in Int /\ 1 <= i /\ i <= len - 4
        BY <2>2, <2>16
      <4>3. x \in PROG .. LIMIT - 1 /\ p <= x /\ x <= p + len - 1 /\ x - p + 1 = i + 3
        BY <1>1, <2>2, <2>14, <4>1, <4>2, Sizes
      <4>4. k[x] = Record(n, t)[i + 3]
        BY <2>5, <4>3
      <4> QED BY <2>16, <4>1, <4>4
    <3>2. TextAt(k, p) = [i \in 1 .. Len(t) |-> k[p + 2 + i]]
      BY <2>10, <2>16 DEF TextAt
    <3> QED BY <2>16, <3>1, <3>2
  <2>18. PICK Q : /\ Chain(k, pend + len, Q) /\ p \in Q
                  /\ \A r \in Q : r = p \/ \E q \in R : Alike(k, r, m, q)
                  /\ \A q \in R : q < p \/ p <= q => \E r \in Q : Alike(k, r, m, q)
    BY <2>13 DEF Follows
  <2>19. \A q \in R : q < p \/ p <= q
    BY <1>1, InRecord
  <2>20. Content(k, Q) = Content(m, R) \cup {<<n, t>>}
    <3>1. ASSUME NEW r \in Q PROVE <<LineAt(k, r), TextAt(k, r)>> \in Content(m, R) \cup {<<n, t>>}
      BY <2>10, <2>17, <2>18 DEF Content, Alike
    <3>2. ASSUME NEW q \in R PROVE <<LineAt(m, q), TextAt(m, q)>> \in Content(k, Q)
      BY <2>18, <2>19 DEF Content, Alike
    <3>3. <<n, t>> \in Content(k, Q)
      BY <2>10, <2>17, <2>18 DEF Content
    <3> QED BY <3>1, <3>2, <3>3 DEF Content
  <2> HIDE DEF e
  <2>21. e.mem = k /\ e.pend = pend + len /\ e.at \in Nat /\ e.fits
    BY <1>1, <2>1
  <2>22. Chain(e.mem, e.pend, Q) /\ Content(e.mem, Q) = Content(m, R) \cup {<<n, t>>}
    BY <2>18, <2>20, <2>21
  <2>23. Enters(m, pend, R, n, t, e)
    BY <2>15, <2>21, <2>22 DEF Enters
  <2> QED BY <2>23 DEF e
<1> QED BY <1>2, <1>3

(* Deleting a line takes out its record, and no other line changes.        *)
LEMMA CutKeeps ==
  ASSUME NEW m, NEW pend, NEW R, Chain(m, pend, R), NEW p \in R
  PROVE  LET cut == shift_left(m, p, pend, LenAt(m, p))
             last == pend - LenAt(m, p)
         IN  \E Q : Chain(cut, last, Q) /\ Content(cut, Q) = Others(Content(m, R), LineAt(m, p))
<1> DEFINE old == LenAt(m, p)
           k == shift_left(m, p, pend, old)
           d == 0 - old
<1>1. /\ p \in Nat /\ pend \in Nat /\ p + old <= pend /\ PROG <= p /\ pend <= LIMIT
      /\ old \in Int /\ 5 <= old /\ p + old \in R \cup {pend}
  BY InRecord
<1>2. m \in [PROG .. LIMIT - 1 -> Octet]
  BY DEF Chain
<1> HIDE DEF old
<1>3. old \in Nat /\ 1 <= old /\ d \in Int /\ p + old + d = p /\ pend + d = pend - old /\ pend + d <= LIMIT
      /\ p <= p + old
  BY <1>1, Sizes
<1>4. k = Down(m, p, pend, old)
  BY <1>1, <1>2, <1>3, ShiftLeft
<1>5. \A a \in PROG .. LIMIT - 1 :
        /\ k[a] = IF p <= a /\ a <= pend - old - 1 THEN m[a + old] ELSE m[a]
        /\ p <= a /\ a <= pend - old - 1 => a + old \in PROG .. LIMIT - 1
  <2>1. \A a \in PROG .. LIMIT - 1 : k[a] = IF p <= a /\ a <= pend - old - 1 THEN m[a + old] ELSE m[a]
    BY <1>4 DEF Down
  <2>2. \A a \in PROG .. LIMIT - 1 : p <= a /\ a <= pend - old - 1 => a + old \in PROG .. LIMIT - 1
    BY <1>1, Sizes
  <2> QED BY <2>1, <2>2
<1>6. k \in [PROG .. LIMIT - 1 -> Octet]
  <2>1. \A a \in PROG .. LIMIT - 1 : k[a] \in Octet
    BY <1>2, <1>5
  <2>2. k = [a \in PROG .. LIMIT - 1 |-> k[a]]
    BY <1>4 DEF Down
  <2> QED BY <2>1, <2>2
<1> HIDE DEF k
<1>7. Moved(m, k, 0, PROG, p)
  <2>1. \A a \in PROG .. p - 1 : a \in PROG .. LIMIT - 1 /\ ~(p <= a) /\ a + 0 = a
    BY <1>1, Sizes
  <2> QED BY <1>5, <2>1 DEF Moved
<1>8. Moved(m, k, d, p + old, pend)
  <2>1. ASSUME NEW a \in p + old .. pend - 1 PROVE k[a + d] = m[a]
    <3>1. /\ a + d \in PROG .. LIMIT - 1 /\ p <= a + d /\ a + d <= pend - old - 1 /\ (a + d) + old = a
      BY <1>1, Sizes
    <3> HIDE DEF d
    <3>2. k[a + d] = m[(a + d) + old]
      BY <1>5, <3>1
    <3> QED BY <3>1, <3>2
  <2> QED BY <2>1 DEF Moved
<1> HIDE DEF d
<1>9. Gap(m, k, R, p, p + old, d, {})
  BY <1>3 DEF Gap
<1>10. Follows(m, R, p, p + old, {}, k, pend + d)
  BY <1>1, <1>3, <1>6, <1>7, <1>8, <1>9, Spliced
<1>11. PICK Q : /\ Chain(k, pend + d, Q)
                /\ \A r \in Q : \E q \in R : (q < p \/ p + old <= q) /\ Alike(k, r, m, q)
                /\ \A q \in R : q < p \/ p + old <= q => \E r \in Q : Alike(k, r, m, q)
  BY <1>10 DEF Follows
<1>12. ASSUME NEW q \in R, q < p \/ p + old <= q PROVE LineAt(m, q) # LineAt(m, p)
  <2>1. q \in Int /\ LineAt(m, q) \in Int /\ LineAt(m, p) \in Int
    BY InRecord, WordsAre
  <2>2. q < p => LineAt(m, q) < LineAt(m, p)
    BY DEF Chain
  <2>3. p < q => LineAt(m, p) < LineAt(m, q)
    BY DEF Chain
  <2>4. q < p \/ p < q
    BY <1>1, <1>12, <2>1
  <2> QED BY <2>1, <2>2, <2>3, <2>4
<1>15. ASSUME NEW q \in R, LineAt(m, q) # LineAt(m, p) PROVE q < p \/ p + old <= q
  <2>1. q \in Int /\ q # p
    BY <1>15, InRecord
  <2>2. p < q => p + old <= q
    BY DEF Chain, old
  <2> QED BY <1>1, <2>1, <2>2
<1>13. Content(k, Q) = Others(Content(m, R), LineAt(m, p))
  <2>1. ASSUME NEW r \in Q
        PROVE  <<LineAt(k, r), TextAt(k, r)>> \in Others(Content(m, R), LineAt(m, p))
    <3>1. PICK q \in R : (q < p \/ p + old <= q) /\ Alike(k, r, m, q)
      BY <1>11
    <3>2. LineAt(m, q) # LineAt(m, p)
      BY <1>12, <3>1
    <3> QED BY <3>1, <3>2 DEF Content, Others, Alike
  <2>2. ASSUME NEW q \in R, LineAt(m, q) # LineAt(m, p)
        PROVE  <<LineAt(m, q), TextAt(m, q)>> \in Content(k, Q)
    <3>1. PICK r \in Q : Alike(k, r, m, q)
      BY <1>11, <1>15, <2>2
    <3> QED BY <3>1 DEF Content, Alike
  <2> QED BY <2>1, <2>2 DEF Content, Others
<1>14. Chain(k, pend - old, Q)
  BY <1>3, <1>11
<1> QED BY <1>13, <1>14 DEF k, old

(* A line that is there is taken out first; then the new one is entered.   *)
LEMMA EditedIs ==
  ASSUME NEW m, NEW pend, NEW R, Chain(m, pend, R), NEW n \in Words, NEW t \in Seq(1 .. 255)
  PROVE  \E k, last, Q : /\ Chain(k, last, Q) /\ Content(k, Q) = Others(Content(m, R), n)
                         /\ Enters(k, last, Q, n, t, Edited(m, pend, n, t))
<1> DEFINE p == FIND_LINE(m, pend, n)
           old == LenAt(m, p)
           cut == shift_left(m, p, pend, old)
           pp == FIND_LINE(cut, pend - old, n)
<1>2. p \in R \cup {pend} /\ \A q \in R : q < p <=> LineAt(m, q) < n
  BY FindsPlace
<1>3. pend \notin R /\ pend \in Nat /\ \A q \in R : q \in Nat /\ q < pend
  BY Sizes DEF Chain
<1>4. n \in Int /\ \A q \in R : LineAt(m, q) \in Int
  BY InRecord, WordsAre
<1>5. CASE ~Found(m, pend, n)
  <2>1. Edited(m, pend, n, t) = Insert(m, pend, p, n, t)
    BY <1>5 DEF Edited
  <2>2. ASSUME NEW q \in R, LineAt(m, q) = n PROVE FALSE
    <3>1. ~(q < p)
      BY <1>2, <1>4, <2>2
    <3>2. p \in R
      BY <1>2, <1>3, <3>1
    <3>3. ~(LineAt(m, p) < n)
      BY <1>2, <1>3, <3>2
    <3>4. p < q => LineAt(m, p) < LineAt(m, q)
      BY <3>2 DEF Chain
    <3>5. p = q
      BY <1>3, <1>4, <2>2, <3>1, <3>2, <3>3, <3>4
    <3> QED BY <1>3, <1>5, <2>2, <3>5 DEF Found
  <2> HIDE DEF p
  <2>3. Enters(m, pend, R, n, t, Edited(m, pend, n, t))
    BY <1>2, <2>1, <2>2, InsertKeeps
  <2>4. Content(m, R) = Others(Content(m, R), n)
    BY <2>2 DEF Content, Others
  <2> QED BY <2>3, <2>4
<1>6. CASE Found(m, pend, n)
  <2>1. p \in R /\ LineAt(m, p) = n /\ p \in Nat
    <3>1. p < pend /\ LineAt(m, p) = n
      BY <1>6 DEF Found
    <3> QED BY <1>2, <1>3, <3>1
  <2>2. PICK Q : Chain(cut, pend - old, Q) /\ Content(cut, Q) = Others(Content(m, R), n)
    <3> HIDE DEF p
    <3> QED BY <2>1, CutKeeps
  <2>3. CASE t = <<>>
    <3>1. /\ Edited(m, pend, n, t).mem = cut /\ Edited(m, pend, n, t).pend = pend - old
          /\ Edited(m, pend, n, t).at = p /\ Edited(m, pend, n, t).fits = TRUE
      BY <1>6, <2>3 DEF Edited
    <3> HIDE DEF p, old, cut
    <3>2. Enters(cut, pend - old, Q, n, t, Edited(m, pend, n, t))
      BY <2>1, <2>3, <3>1 DEF Enters
    <3> QED BY <2>2, <3>2
  <2>4. CASE t # <<>>
    <3>1. Edited(m, pend, n, t) = Insert(cut, pend - old, pp, n, t)
      BY <1>6, <2>4 DEF Edited
    <3> HIDE DEF cut, old
    <3>2. pp \in Q \cup {pend - old} /\ \A q \in Q : q < pp <=> LineAt(cut, q) < n
      BY <2>2, FindsPlace
    <3>3. \A q \in Q : LineAt(cut, q) # n
      <4>1. \A q \in Q : <<LineAt(cut, q), TextAt(cut, q)>> \in Others(Content(m, R), n)
        BY <2>2 DEF Content
      <4> QED BY <4>1 DEF Others
    <3> HIDE DEF pp
    <3>4. Enters(cut, pend - old, Q, n, t, Edited(m, pend, n, t))
      BY <2>2, <3>1, <3>2, <3>3, InsertKeeps
    <3> QED BY <2>2, <3>4
  <2> QED BY <2>3, <2>4
<1> QED BY <1>5, <1>6

(* However a line is entered - new, again, or empty to delete it, and also *)
(* when it does not fit - the store is whole records again.                *)
LEMMA EditedKeeps ==
  ASSUME NEW m, NEW pend, Whole(m, pend), NEW n \in Words, NEW t \in Seq(1 .. 255)
  PROVE  /\ Whole(Edited(m, pend, n, t).mem, Edited(m, pend, n, t).pend)
         /\ Edited(m, pend, n, t).at \in Nat
<1>1. PICK R : Chain(m, pend, R)
  BY DEF Whole
<1>2. PICK k, last, Q : Chain(k, last, Q) /\ Enters(k, last, Q, n, t, Edited(m, pend, n, t))
  BY <1>1, EditedIs
<1> DEFINE e == Edited(m, pend, n, t)
<1> HIDE DEF e
<1>3. Chain(k, last, Q) /\ Enters(k, last, Q, n, t, e)
  BY <1>2 DEF e
<1>4. Whole(e.mem, e.pend) /\ e.at \in Nat
  BY <1>3 DEF Enters, Whole
<1> QED BY <1>4 DEF e

-----------------------------------------------------------------------------
(* Reading. *)

(* Every record but the first follows one.                                 *)
LEMMA Predecessor ==
  ASSUME NEW m, NEW pend, NEW R, Chain(m, pend, R), NEW q \in R, q # PROG
  PROVE  \E x \in R : x < q /\ x + LenAt(m, x) = q
<1> DEFINE G == {g \in 1 .. q : q - g \in R}
<1>1. q \in Nat /\ PROG < q /\ q < pend /\ pend \in Nat /\ PROG \in Nat /\ PROG \in R
  <2>1. q \in Nat /\ PROG <= q /\ q < pend /\ pend \in Nat /\ PROG \in Nat
    BY InRecord, Sizes
  <2> QED BY <2>1 DEF Chain
<1>2. G \subseteq Nat /\ G # {}
  <2>1. PICK h : h = q - PROG
    OBVIOUS
  <2>2. h \in 1 .. q /\ q - h = PROG
    BY <1>1, <2>1
  <2>3. q - h \in R
    BY <1>1, <2>2
  <2>4. h \in G
    BY <2>2, <2>3
  <2>5. G \subseteq Nat
    <3>1. 1 .. q \subseteq Nat
      BY <1>1
    <3> QED BY <3>1
  <2> HIDE DEF G
  <2> QED BY <2>4, <2>5
<1>3. PICK g \in G : \A h \in G : g <= h
  <2> HIDE DEF G
  <2> QED BY <1>2, Least
<1> DEFINE x == q - g
<1>4. x \in R /\ x < q /\ x \in Int /\ g \in 1 .. q /\ x + g = q
  BY <1>1, <1>3
<1>5. x + LenAt(m, x) <= q /\ LenAt(m, x) \in Int /\ 5 <= LenAt(m, x) /\ x + LenAt(m, x) \in R \cup {pend}
  <2>1. x + LenAt(m, x) <= q
    BY <1>4 DEF Chain
  <2> QED BY <1>4, <2>1, InRecord
<1> DEFINE y == x + LenAt(m, x)
<1>6. y \in R /\ y \in Int /\ x < y /\ y <= q
  BY <1>1, <1>4, <1>5
<1>7. ASSUME y < q PROVE FALSE
  <2> HIDE DEF y
  <2>1. q - y \in 1 .. q /\ q - (q - y) = y /\ q - y < g
    <3>1. y \in Nat
      BY <1>6, InRecord
    <3> QED BY <1>1, <1>4, <1>6, <1>7, <3>1
  <2>2. q - y \in G
    BY <1>6, <2>1
  <2>3. g <= q - y
    BY <1>3, <2>2
  <2> QED BY <1>1, <1>4, <1>6, <2>1, <2>3
<1>8. y = q
  BY <1>1, <1>6, <1>7
<1> QED BY <1>4, <1>8

(* What the walk over the records visits is the records.                   *)
LEMMA StartsAre ==
  ASSUME NEW m, NEW pend, NEW R, Chain(m, pend, R)
  PROVE  Starts(m, pend) = R
<1> DEFINE V == R \cup {pend}
           follow == [S \in SUBSET Nat |-> S \cup {p + LenAt(m, p) : p \in {q \in S : q < pend}}]
           g == [ix \in (1 .. Turns) \X SUBSET V |-> follow[ix[2]]]
           Walk(f) == f = [i \in 0 .. Turns |-> IF i = 0 THEN {PROG} ELSE follow[f[i - 1]]]
<1>1. V \subseteq Nat /\ pend \in Nat /\ PROG \in V /\ \A q \in R : q < pend
  BY Sizes DEF Chain
<1>2. \A q \in R : q + LenAt(m, q) \in V
  BY DEF Chain
<1>3. ASSUME NEW S \in SUBSET V
      PROVE  /\ follow[S] \in SUBSET V /\ S \subseteq follow[S]
             /\ \A q \in S : q \in R => q + LenAt(m, q) \in follow[S]
  <2>1. follow[S] = S \cup {p + LenAt(m, p) : p \in {q \in S : q < pend}}
    BY <1>1
  <2>2. \A q \in S : q < pend => q \in R
    BY <1>1
  <2> HIDE DEF follow
  <2> QED BY <1>1, <1>2, <2>1, <2>2
<1> HIDE DEF follow
<1>4. \E f : Walk(f) /\ Starts(m, pend) = {p \in f[Turns] : p < pend}
  <2>1. g \in [(1 .. Turns) \X SUBSET V -> SUBSET V]
    BY <1>3
  <2>2. {PROG} \in SUBSET V
    BY <1>1
  <2>3. PICK f : Course(f, Turns, SUBSET V, {PROG}, g)
    BY <2>1, <2>2, Sizes, Iterates
  <2>4. \A i \in 1 .. Turns : i - 1 \in 0 .. Turns
    BY Sizes
  <2>5. \A i \in 1 .. Turns : f[i] = follow[f[i - 1]]
    BY <2>3, <2>4 DEF Course
  <2>6. Walk(f)
    BY <2>3, <2>5, Sizes DEF Course
  <2> QED BY <2>6 DEF Starts, follow
<1>5. PICK f : Walk(f) /\ Starts(m, pend) = {p \in f[Turns] : p < pend}
  BY <1>4
<1>6. f[0] = {PROG} /\ \A i \in 1 .. Turns : f[i] = follow[f[i - 1]]
  <2>1. \A i \in 0 .. Turns : f[i] = IF i = 0 THEN {PROG} ELSE follow[f[i - 1]]
    BY <1>5
  <2>2. 0 \in 0 .. Turns /\ \A i \in 1 .. Turns : i \in 0 .. Turns /\ i # 0
    BY Sizes
  <2> QED BY <2>1, <2>2
<1> DEFINE T == {i \in 0 .. Turns : f[i] \in SUBSET V /\ \A q \in R : q < PROG + 4 * (i + 1) => q \in f[i]}
<1>7. 0 \in T
  <2>1. ASSUME NEW q \in R, q < PROG + 4 * (0 + 1) PROVE q = PROG
    <3>1. CASE q # PROG
      <4>1. PICK x \in R : x < q /\ x + LenAt(m, x) = q
        BY <3>1, Predecessor
      <4>2. x \in Int /\ PROG <= x /\ LenAt(m, x) \in Int /\ 5 <= LenAt(m, x) /\ q \in Int /\ PROG \in Int
        BY <1>1, InRecord, Sizes
      <4> QED BY <2>1, <4>1, <4>2
    <3> QED BY <3>1
  <2> QED BY <1>1, <1>6, <2>1, Sizes
<1>8. ASSUME NEW i \in 1 .. Turns, i - 1 \in T PROVE i \in T
  <2>1. i \in 0 .. Turns /\ i \in Int /\ 1 <= i /\ (i - 1) + 1 = i
    BY Sizes
  <2>2. f[i] = follow[f[i - 1]] /\ f[i - 1] \in SUBSET V /\ \A q \in R : q < PROG + 4 * i => q \in f[i - 1]
    BY <1>6, <1>8, <2>1
  <2>3. f[i] \in SUBSET V /\ f[i - 1] \subseteq f[i]
        /\ \A q \in f[i - 1] : q \in R => q + LenAt(m, q) \in f[i]
    BY <1>3, <2>2
  <2>4. ASSUME NEW q \in R, q < PROG + 4 * (i + 1) PROVE q \in f[i]
    <3>1. CASE q = PROG
      <4>1. q < PROG + 4 * i
        BY <2>1, <3>1, Sizes
      <4> QED BY <2>2, <2>3, <4>1
    <3>2. CASE q # PROG
      <4>1. PICK x \in R : x < q /\ x + LenAt(m, x) = q
        BY <3>2, Predecessor
      <4>2. x \in Int /\ LenAt(m, x) \in Int /\ 5 <= LenAt(m, x) /\ q \in Int /\ PROG \in Int
        BY <1>1, InRecord, Sizes
      <4>3. x < PROG + 4 * i
        BY <2>1, <2>4, <4>1, <4>2
      <4>4. x \in f[i - 1]
        BY <2>2, <4>3
      <4> QED BY <2>3, <4>1, <4>4
    <3> QED BY <3>1, <3>2
  <2> QED BY <2>1, <2>3, <2>4
<1>9. Turns \in T
  <2> HIDE DEF T
  <2>1. 0 .. Turns \subseteq T
    BY <1>7, <1>8, Sizes, AllTurns
  <2> QED BY <2>1, Sizes
<1>10. f[Turns] \subseteq V /\ \A q \in R : q < PROG + 4 * (Turns + 1) => q \in f[Turns]
  BY <1>9
<1>11. ASSUME NEW q \in R PROVE q \in f[Turns]
  <2>1. q \in Int /\ q + LenAt(m, q) <= pend /\ pend <= LIMIT /\ LenAt(m, q) \in Int /\ 5 <= LenAt(m, q)
        /\ pend \in Int
    BY InRecord
  <2>2. q < PROG + 4 * (Turns + 1)
    BY <2>1, Sizes
  <2> QED BY <1>10, <2>2
<1>12. ~(pend < pend)
  BY <1>1
<1>13. \A q : q \in f[Turns] /\ q < pend <=> q \in R
  BY <1>1, <1>10, <1>11, <1>12
<1> QED BY <1>5, <1>13

(* A store of whole records is sound as the property reads it.             *)
LEMMA WholeIsSound ==
  ASSUME Whole(mem, PEND) PROVE StoreSound
<1>1. PICK R : Chain(mem, PEND, R)
  BY DEF Whole
<1>2. Starts(mem, PEND) = R
  BY <1>1, StartsAre
<1>3. PEND \in PROG .. LIMIT
  BY <1>1 DEF Chain
<1>4. ASSUME NEW p \in R
      PROVE  /\ LenAt(mem, p) > 4 /\ p + LenAt(mem, p) \in R \cup {PEND}
             /\ mem[p + LenAt(mem, p) - 1] = NUL
             /\ \A q \in R : p < q => LineAt(mem, p) < LineAt(mem, q)
  <2>1. \A q \in R : p < q => LineAt(mem, p) < LineAt(mem, q)
    BY <1>1 DEF Chain
  <2> QED BY <1>1, <2>1, InRecord
<1> QED BY <1>2, <1>3, <1>4 DEF StoreSound

-----------------------------------------------------------------------------
(* The store as the program it stands for. *)

(* What can be numbered from 1 to n, each once, is n in number.            *)
LEMMA Counted ==
  ASSUME NEW n \in Nat, NEW S, NEW f \in [1 .. n -> S],
         \A i, j \in 1 .. n : f[i] = f[j] => i = j, \A x \in S : \E i \in 1 .. n : f[i] = x
  PROVE  Cardinality(S) = n
<1>1. f \in Bijection(1 .. n, S)
  BY DEF Bijection, Injection, Surjection, IsInjective
<1>2. ExistsBijection(1 .. n, S)
  BY <1>1 DEF ExistsBijection
<1> QED BY <1>2, FS_CountingElements

(* P is the program of which C has the lines and the texts.                *)
Tells(P, C) == P = [n \in DOMAIN P |-> P[n]] /\ C = {<<n, P[n]>> : n \in DOMAIN P}

(* There is one.                                                           *)
LEMMA TellOne ==
  ASSUME NEW P, NEW Q, NEW C, Tells(P, C), Tells(Q, C)
  PROVE  P = Q
<1>1. ASSUME NEW n \in DOMAIN P PROVE n \in DOMAIN Q /\ P[n] = Q[n]
  <2>1. <<n, P[n]>> \in {<<k, Q[k]>> : k \in DOMAIN Q}
    BY DEF Tells
  <2> QED BY <2>1
<1>2. ASSUME NEW n \in DOMAIN Q PROVE n \in DOMAIN P
  <2>1. <<n, Q[n]>> \in {<<k, P[k]>> : k \in DOMAIN P}
    BY DEF Tells
  <2> QED BY <2>1
<1>3. P = [n \in DOMAIN P |-> P[n]] /\ Q = [n \in DOMAIN Q |-> Q[n]]
  BY DEF Tells
<1> QED BY <1>1, <1>2, <1>3

(* A line has one record, and records of higher lines lie higher.          *)
LEMMA LineOnce ==
  ASSUME NEW m, NEW pend, NEW R, Chain(m, pend, R), NEW p \in R, NEW q \in R
  PROVE  /\ LineAt(m, p) = LineAt(m, q) => p = q
         /\ LineAt(m, p) < LineAt(m, q) <=> p < q
<1>1. p \in Int /\ q \in Int /\ LineAt(m, p) \in Int /\ LineAt(m, q) \in Int
  BY InRecord, WordsAre
<1>2. p < q => LineAt(m, p) < LineAt(m, q)
  BY DEF Chain
<1>3. q < p => LineAt(m, q) < LineAt(m, p)
  BY DEF Chain
<1> QED BY <1>1, <1>2, <1>3

(* The lines read from a store are what its records say.                   *)
LEMMA LinesTell ==
  ASSUME NEW m, NEW pend, NEW R, Chain(m, pend, R)
  PROVE  /\ DOMAIN LinesOf(m, pend) = {LineAt(m, q) : q \in R}
         /\ \A q \in R : LinesOf(m, pend)[LineAt(m, q)] = TextAt(m, q)
         /\ Tells(LinesOf(m, pend), Content(m, R))
<1> DEFINE P == LinesOf(m, pend)
<1>1. Starts(m, pend) = R /\ R \in SUBSET Nat
  <2>1. R \in SUBSET Nat
    BY InRecord
  <2> QED BY <2>1, StartsAre
<1>2. P = [n \in {LineAt(m, p) : p \in R} |-> TextAt(m, CHOOSE p \in R : LineAt(m, p) = n)]
  BY <1>1 DEF LinesOf
<1> HIDE DEF P
<1>3. ASSUME NEW q \in R PROVE P[LineAt(m, q)] = TextAt(m, q)
  <2>1. LineAt(m, q) \in {LineAt(m, p) : p \in R}
    OBVIOUS
  <2>2. P[LineAt(m, q)] = TextAt(m, CHOOSE p \in R : LineAt(m, p) = LineAt(m, q))
    BY <1>2, <2>1
  <2>3. (CHOOSE p \in R : LineAt(m, p) = LineAt(m, q)) = q
    <3>1. \A p \in R : LineAt(m, p) = LineAt(m, q) => p = q
      BY LineOnce
    <3> QED BY <3>1
  <2> QED BY <2>2, <2>3
<1>4. DOMAIN P = {LineAt(m, q) : q \in R} /\ P = [n \in DOMAIN P |-> P[n]]
  BY <1>2
<1>5. Content(m, R) = {<<n, P[n]>> : n \in DOMAIN P}
  BY <1>3, <1>4 DEF Content
<1>6. Tells(P, Content(m, R))
  BY <1>4, <1>5 DEF Tells
<1> QED BY <1>3, <1>4, <1>6 DEF P

(* Every byte of the store belongs to a record.                            *)
LEMMA Owned ==
  ASSUME NEW m, NEW pend, NEW R, Chain(m, pend, R), NEW a \in PROG .. pend - 1
  PROVE  \E p \in R : p <= a /\ a < p + LenAt(m, p)
<1> DEFINE G == {g \in 0 .. a : a - g \in R}
<1>1. a \in Nat /\ PROG <= a /\ a < pend /\ PROG \in Nat /\ pend \in Nat /\ PROG \in R
  <2>1. a \in Nat /\ PROG <= a /\ a < pend /\ PROG \in Nat /\ pend \in Nat /\ PROG \in R \cup {pend}
    BY Sizes DEF Chain
  <2> QED BY <2>1
<1>2. G \subseteq Nat /\ G # {}
  <2>1. PICK h : h = a - PROG
    OBVIOUS
  <2>2. h \in 0 .. a /\ a - h = PROG
    BY <1>1, <2>1
  <2>3. h \in G
    BY <1>1, <2>2
  <2>4. 0 .. a \subseteq Nat
    BY <1>1
  <2> QED BY <2>3, <2>4
<1>3. PICK g \in G : \A h \in G : g <= h
  <2> HIDE DEF G
  <2> QED BY <1>2, Least
<1> DEFINE p == a - g
<1>4. p \in R /\ p <= a /\ p \in Int /\ g \in 0 .. a /\ g = a - p
  BY <1>1, <1>3
<1>5. LenAt(m, p) \in Int /\ 5 <= LenAt(m, p) /\ p + LenAt(m, p) \in R \cup {pend}
  <2> HIDE DEF p
  <2> QED BY <1>4, InRecord
<1>6. ASSUME p + LenAt(m, p) <= a PROVE FALSE
  <2> DEFINE y == p + LenAt(m, p)
  <2>1. y \in R /\ y \in Nat /\ p < y /\ y <= a
    <3>1. y # pend /\ y \in R
      BY <1>1, <1>5, <1>6
    <3>2. y \in Nat
      BY <3>1, InRecord
    <3> QED BY <1>4, <1>5, <1>6, <3>1, <3>2
  <2> HIDE DEF y, p
  <2>2. a - y \in 0 .. a /\ a - (a - y) = y
    BY <1>1, <2>1
  <2>3. a - y \in G
    BY <2>1, <2>2
  <2>4. g <= a - y
    BY <1>3, <2>3
  <2> QED BY <1>1, <1>4, <2>1, <2>4
<1>7. a < p + LenAt(m, p)
  <2> HIDE DEF p
  <2> QED BY <1>1, <1>4, <1>5, <1>6
<1> QED BY <1>4, <1>7

(* The abstract program counts as everybody does.                          *)
LEMMA SameCount == \A S : Program!Cardinality(S) = Cardinality(S)
BY DEF Program!Cardinality, Cardinality

(* The text of a record, and the bytes it takes.                           *)
LEMMA TextTakes ==
  ASSUME NEW m, NEW pend, NEW R, Chain(m, pend, R), NEW q \in R
  PROVE  Program!Takes(TextAt(m, q)) = LenAt(m, q)
<1> DEFINE l == LenAt(m, q) - 4
           t == [i \in 1 .. l |-> m[q + 2 + i]]
<1>1. LenAt(m, q) \in Int /\ 5 <= LenAt(m, q)
  BY InRecord
<1>2. l \in Nat /\ l + 4 = LenAt(m, q) /\ TextAt(m, q) = t
  BY <1>1 DEF TextAt
<1> HIDE DEF l
<1>3. Len(t) = l
  BY <1>2
<1> QED BY <1>2, <1>3 DEF Program!Takes

(* The bytes that lines take are those from PROG to the end.               *)
LEMMA UsedIs ==
  ASSUME NEW m, NEW pend, NEW R, Chain(m, pend, R), NEW P, Tells(P, Content(m, R))
  PROVE  Program!Used(P) = pend - PROG
<1> DEFINE S == UNION {{n} \X (1 .. Program!Takes(P[n])) : n \in DOMAIN P}
           own(a) == CHOOSE p \in R : p <= a /\ a < p + LenAt(m, p)
           N == pend - PROG
           f == [i \in 1 .. N |-> <<LineAt(m, own(PROG + i - 1)), PROG + i - own(PROG + i - 1)>>]
<1>1. N \in Nat /\ PROG \in Nat /\ pend \in Nat
  BY Sizes DEF Chain
<1>2. P = LinesOf(m, pend)
  BY LinesTell, TellOne
<1>3. DOMAIN P = {LineAt(m, q) : q \in R} /\ \A q \in R : Program!Takes(P[LineAt(m, q)]) = LenAt(m, q)
  BY <1>2, LinesTell, TextTakes
<1>4. \A x : x \in S <=> \E q \in R : \E j \in 1 .. LenAt(m, q) : x = <<LineAt(m, q), j>>
  <2>1. ASSUME NEW x \in S PROVE \E q \in R : \E j \in 1 .. LenAt(m, q) : x = <<LineAt(m, q), j>>
    <3>1. PICK n \in DOMAIN P : x \in {n} \X (1 .. Program!Takes(P[n]))
      OBVIOUS
    <3>2. PICK q \in R : n = LineAt(m, q)
      BY <1>3
    <3>3. x \in {LineAt(m, q)} \X (1 .. LenAt(m, q))
      BY <1>3, <3>1, <3>2
    <3>4. \E j \in 1 .. LenAt(m, q) : x = <<LineAt(m, q), j>>
      BY <3>3
    <3> QED BY <3>4
  <2>2. ASSUME NEW q \in R, NEW j \in 1 .. LenAt(m, q) PROVE <<LineAt(m, q), j>> \in S
    <3>1. LineAt(m, q) \in DOMAIN P /\ Program!Takes(P[LineAt(m, q)]) = LenAt(m, q)
      BY <1>3
    <3>2. <<LineAt(m, q), j>> \in {LineAt(m, q)} \X (1 .. Program!Takes(P[LineAt(m, q)]))
      BY <3>1
    <3> QED BY <3>1, <3>2
  <2> HIDE DEF S
  <2> QED BY <2>1, <2>2
<1>5. ASSUME NEW a \in PROG .. pend - 1 PROVE own(a) \in R /\ own(a) <= a /\ a < own(a) + LenAt(m, own(a))
  <2>1. \E p \in R : p <= a /\ a < p + LenAt(m, p)
    BY Owned
  <2> QED BY <2>1
<1>6. ASSUME NEW q \in R, NEW a \in Int, q <= a, a < q + LenAt(m, q)
      PROVE  a \in PROG .. pend - 1 /\ own(a) = q
  <2>1. q \in Int /\ PROG <= q /\ q + LenAt(m, q) <= pend /\ LenAt(m, q) \in Int
    BY InRecord
  <2>2. a \in PROG .. pend - 1
    BY <1>1, <1>6, <2>1
  <2>3. own(a) \in R /\ own(a) <= a /\ a < own(a) + LenAt(m, own(a))
    BY <1>5, <2>2
  <2>4. PICK p \in R : p = own(a)
    BY <2>3
  <2> HIDE DEF own
  <2>5. p \in Int /\ LenAt(m, p) \in Int /\ p <= a /\ a < p + LenAt(m, p)
    BY <2>3, <2>4, InRecord
  <2>6. p < q => p + LenAt(m, p) <= q
    BY DEF Chain
  <2>7. q < p => q + LenAt(m, q) <= p
    BY DEF Chain
  <2>8. p = q
    BY <1>6, <2>1, <2>5, <2>6, <2>7
  <2> QED BY <2>2, <2>4, <2>8
<1> HIDE DEF own, S, N
<1>7. ASSUME NEW i \in 1 .. N
      PROVE  \E q \in R : \E j \in 1 .. LenAt(m, q) :
               own(PROG + i - 1) = q /\ PROG + i - 1 = q + j - 1 /\ f[i] = <<LineAt(m, q), j>>
  <2>1. PICK a : a = PROG + i - 1
    OBVIOUS
  <2>2. a \in PROG .. pend - 1 /\ a + 1 = PROG + i
    BY <1>1, <2>1 DEF N
  <2>3. PICK q : q = own(a)
    OBVIOUS
  <2>4. q \in R /\ q <= a /\ a < q + LenAt(m, q)
    BY <1>5, <2>2, <2>3
  <2>5. q \in Int /\ LenAt(m, q) \in Int /\ a \in Int
    BY <1>1, <2>2, <2>4, InRecord
  <2>6. PICK j : j = a + 1 - q
    OBVIOUS
  <2>7. j \in 1 .. LenAt(m, q) /\ a = q + j - 1
    BY <2>4, <2>5, <2>6
  <2>8. f[i] = <<LineAt(m, q), j>>
    <3>1. f[i] = <<LineAt(m, own(PROG + i - 1)), PROG + i - own(PROG + i - 1)>>
      OBVIOUS
    <3>2. own(PROG + i - 1) = q /\ PROG + i = a + 1
      BY <2>1, <2>2, <2>3
    <3>4. PROG + i - own(PROG + i - 1) = j
      <4> HIDE DEF f
      <4>1. PROG + (i - q) = j
        BY <1>1, <2>5, <2>6, <3>2
      <4> QED BY <3>2, <4>1
    <3> QED BY <3>1, <3>2, <3>4
  <2> QED BY <2>1, <2>3, <2>4, <2>7, <2>8
<1>8. f \in [1 .. N -> S]
  <2>1. \A i \in 1 .. N : f[i] \in S
    BY <1>4, <1>7
  <2> QED BY <2>1
<1>9. ASSUME NEW i \in 1 .. N, NEW k \in 1 .. N, f[i] = f[k] PROVE i = k
  <2>1. PICK q \in R : \E j \in 1 .. LenAt(m, q) : PROG + i - 1 = q + j - 1 /\ f[i] = <<LineAt(m, q), j>>
    BY <1>7
  <2>2. PICK j \in 1 .. LenAt(m, q) : PROG + i - 1 = q + j - 1 /\ f[i] = <<LineAt(m, q), j>>
    BY <2>1
  <2>3. PICK r \in R : \E h \in 1 .. LenAt(m, r) : PROG + k - 1 = r + h - 1 /\ f[k] = <<LineAt(m, r), h>>
    BY <1>7
  <2>4. PICK h \in 1 .. LenAt(m, r) : PROG + k - 1 = r + h - 1 /\ f[k] = <<LineAt(m, r), h>>
    BY <2>3
  <2>5. <<LineAt(m, q), j>> = <<LineAt(m, r), h>>
    BY <1>9, <2>2, <2>4
  <2>6. LineAt(m, q) = LineAt(m, r) /\ j = h
    BY <2>5
  <2>7. q = r
    BY <2>6, LineOnce
  <2>8. PROG + i - 1 = PROG + k - 1
    BY <2>2, <2>4, <2>6, <2>7
  <2>9. i \in Int /\ k \in Int
    BY <1>1
  <2> HIDE DEF f
  <2> QED BY <1>1, <2>8, <2>9
<1>10. ASSUME NEW x \in S PROVE \E i \in 1 .. N : f[i] = x
  <2>1. PICK q \in R : \E j \in 1 .. LenAt(m, q) : x = <<LineAt(m, q), j>>
    BY <1>4
  <2>2. PICK j \in 1 .. LenAt(m, q) : x = <<LineAt(m, q), j>>
    BY <2>1
  <2>3. q \in Int /\ LenAt(m, q) \in Int /\ j \in Int /\ 1 <= j /\ j <= LenAt(m, q)
    BY InRecord
  <2>4. PICK a : a = q + j - 1
    OBVIOUS
  <2>5. a \in Int /\ q <= a /\ a < q + LenAt(m, q)
    BY <2>3, <2>4
  <2>6. a \in PROG .. pend - 1 /\ own(a) = q
    BY <1>6, <2>5
  <2>7. PICK i : i = a - PROG + 1
    OBVIOUS
  <2>8. i \in 1 .. N /\ PROG + i - 1 = a /\ PROG + i - q = j
    BY <1>1, <2>3, <2>4, <2>6, <2>7 DEF N
  <2>9. f[i] = <<LineAt(m, q), j>>
    BY <2>6, <2>8
  <2> QED BY <2>2, <2>8, <2>9
<1> HIDE DEF f
<1>11. Cardinality(S) = N
  BY <1>1, <1>8, <1>9, <1>10, Counted
<1>12. Program!Used(P) = Cardinality(S)
  BY SameCount DEF Program!Used, S
<1> QED BY <1>11, <1>12 DEF N

(* What comes after n in the program that is stored.                       *)
LEMMA AfterIs ==
  ASSUME NEW n \in Int, DOMAIN Lines \subseteq Int
  PROVE  /\ \A x \in DOMAIN Lines :
              x > n /\ (\A k \in DOMAIN Lines : k > n => x <= k) => Program!After(n) = x
         /\ (\A k \in DOMAIN Lines : ~(k > n)) => Program!After(n) = WORD
<1> DEFINE L == {k \in DOMAIN Lines : k > n}
<1>1. Program!After(n) = IF L = {} THEN Program!PastEnd
                         ELSE CHOOSE k \in L : \A j \in L : k <= j
  BY DEF Program!After
<1>2. Program!PastEnd = WORD
  BY DEF Program!PastEnd, WORD
<1>3. ASSUME NEW x \in DOMAIN Lines, x > n, \A k \in DOMAIN Lines : k > n => x <= k
      PROVE  Program!After(n) = x
  <2>1. x \in L /\ \A j \in L : x <= j
    BY <1>3
  <2>2. PICK y : y = CHOOSE k \in L : \A j \in L : k <= j
    OBVIOUS
  <2>3. y \in L /\ \A j \in L : y <= j
    BY <2>1, <2>2
  <2>4. x \in Int /\ y \in Int
    BY <2>3
  <2>5. y = x
    BY <2>1, <2>3, <2>4
  <2> HIDE DEF L
  <2> QED BY <1>1, <2>1, <2>2, <2>5
<1>4. ASSUME \A k \in DOMAIN Lines : ~(k > n) PROVE Program!After(n) = WORD
  <2>1. L = {}
    BY <1>4
  <2> QED BY <1>1, <1>2, <2>1
<1> QED BY <1>3, <1>4

(* The lines that are stored are words.                                    *)
LEMMA StoredLines ==
  ASSUME NEW R, Chain(mem, PEND, R)
  PROVE  DOMAIN Lines = {LineAt(mem, q) : q \in R} /\ DOMAIN Lines \subseteq Words /\ DOMAIN Lines \subseteq Int
<1>1. DOMAIN Lines = {LineAt(mem, q) : q \in R}
  BY LinesTell DEF Lines
<1>2. \A q \in R : LineAt(mem, q) \in Words /\ LineAt(mem, q) \in Int
  BY InRecord, WordsAre
<1> QED BY <1>1, <1>2

(* The line after that of a record is that of the next.                    *)
LEMMA NextLine ==
  ASSUME NEW R, Chain(mem, PEND, R), NEW q \in R
  PROVE  Program!After(LineAt(mem, q)) =
           IF q + LenAt(mem, q) >= PEND THEN WORD ELSE LineAt(mem, q + LenAt(mem, q))
<1> DEFINE y == q + LenAt(mem, q)
<1>1. /\ q \in Int /\ LineAt(mem, q) \in Int /\ y \in R \cup {PEND} /\ LenAt(mem, q) \in Int
      /\ 5 <= LenAt(mem, q) /\ PEND \in Int
  BY InRecord, WordsAre
<1>2. y \in Int /\ q < y
  BY <1>1
<1>3. \A r \in R : r \in Int /\ r < PEND /\ LineAt(mem, r) \in Int
  BY InRecord, WordsAre
<1>4. \A r \in R : LineAt(mem, r) > LineAt(mem, q) => y <= r
  <2> SUFFICES ASSUME NEW r \in R, LineAt(mem, r) > LineAt(mem, q) PROVE y <= r
    OBVIOUS
  <2>1. LineAt(mem, q) < LineAt(mem, r)
    BY <1>1, <1>3
  <2>2. q < r
    BY <2>1, LineOnce
  <2> QED BY <2>2 DEF Chain
<1>7. DOMAIN Lines = {LineAt(mem, r) : r \in R}
  BY StoredLines
<1> HIDE DEF y
<1>5. CASE y \in R
  <2>1. ~(y >= PEND)
    BY <1>1, <1>3, <1>5
  <2>2. LineAt(mem, y) \in DOMAIN Lines /\ LineAt(mem, y) > LineAt(mem, q)
    <3>1. LineAt(mem, q) < LineAt(mem, y)
      BY <1>2, <1>5, LineOnce
    <3>2. LineAt(mem, y) \in DOMAIN Lines
      BY <1>5, <1>7
    <3> QED BY <1>1, <1>3, <1>5, <3>1, <3>2
  <2>3. ASSUME NEW k \in DOMAIN Lines, k > LineAt(mem, q) PROVE LineAt(mem, y) <= k
    <3>1. PICK r \in R : k = LineAt(mem, r)
      BY StoredLines
    <3>2. y <= r
      BY <1>4, <2>3, <3>1
    <3>3. y = r \/ y < r
      BY <1>2, <1>3, <3>2
    <3>4. y < r => LineAt(mem, y) < LineAt(mem, r)
      BY <1>5 DEF Chain
    <3> QED BY <1>3, <1>5, <3>1, <3>3, <3>4
  <2>4. Program!After(LineAt(mem, q)) = LineAt(mem, y)
    BY <1>1, <2>2, <2>3, StoredLines, AfterIs
  <2> QED BY <2>1, <2>4 DEF y
<1>6. CASE y = PEND
  <2>1. y >= PEND
    BY <1>1, <1>6
  <2>2. ASSUME NEW k \in DOMAIN Lines, k > LineAt(mem, q) PROVE FALSE
    <3>1. PICK r \in R : k = LineAt(mem, r)
      BY StoredLines
    <3> QED BY <1>1, <1>3, <1>4, <1>6, <2>2, <3>1
  <2>3. Program!After(LineAt(mem, q)) = WORD
    BY <1>1, <2>2, StoredLines, AfterIs
  <2> QED BY <2>1, <2>3 DEF y
<1> QED BY <1>1, <1>5, <1>6

(* The first line is that of the record at PROG.                           *)
LEMMA FirstLine ==
  ASSUME NEW R, Chain(mem, PEND, R)
  PROVE  Program!After(-1) = IF PROG >= PEND THEN WORD ELSE LineAt(mem, PROG)
<1>1. PROG \in R \cup {PEND} /\ PROG \in Int /\ PEND \in Int /\ PROG <= PEND
  BY Sizes DEF Chain
<1>2. \A r \in R : r \in Int /\ PROG <= r /\ r < PEND /\ LineAt(mem, r) \in Int /\ 0 <= LineAt(mem, r)
  BY InRecord, WordsAre
<1>3. CASE PROG \in R
  <2>1. ~(PROG >= PEND)
    BY <1>1, <1>2, <1>3
  <2>6. DOMAIN Lines = {LineAt(mem, r) : r \in R}
    BY StoredLines
  <2>2. LineAt(mem, PROG) \in DOMAIN Lines
    BY <1>3, <2>6
  <2>5. LineAt(mem, PROG) > -1
    BY <1>2, <1>3
  <2>3. ASSUME NEW k \in DOMAIN Lines PROVE LineAt(mem, PROG) <= k
    <3>1. PICK r \in R : k = LineAt(mem, r)
      BY StoredLines
    <3>2. PROG = r \/ PROG < r
      BY <1>1, <1>2
    <3>3. PROG < r => LineAt(mem, PROG) < LineAt(mem, r)
      BY <1>3 DEF Chain
    <3> QED BY <1>2, <1>3, <3>1, <3>2, <3>3
  <2>4. Program!After(-1) = LineAt(mem, PROG)
    <3>1. DOMAIN Lines \subseteq Int
      BY StoredLines
    <3>2. -1 \in Int
      OBVIOUS
    <3> QED BY <2>2, <2>3, <2>5, <3>1, <3>2, AfterIs
  <2> QED BY <2>1, <2>4
<1>4. CASE PROG = PEND
  <2>1. PROG >= PEND
    BY <1>1, <1>4
  <2>2. DOMAIN Lines = {}
    <3>1. R = {}
      BY <1>1, <1>2, <1>4
    <3> QED BY <3>1, StoredLines
  <2>3. Program!After(-1) = WORD
    <3>1. DOMAIN Lines \subseteq Int
      BY StoredLines
    <3>2. -1 \in Int
      OBVIOUS
    <3> QED BY <2>2, <3>1, <3>2, AfterIs
  <2> QED BY <2>1, <2>3
<1> QED BY <1>1, <1>3, <1>4

(* f visits the K records of R, each once and from the lowest on.          *)
Tour(R, f, K) ==
  /\ K \in Nat /\ f \in [1 .. K -> R]
  /\ \A i, j \in 1 .. K : i < j => f[i] < f[j]
  /\ \A q \in R : \E i \in 1 .. K : f[i] = q

(* LIST prints the records in the order in which they lie, and stops at    *)
(* the end.                                                                *)
LEMMA ListTours ==
  ASSUME NEW m, NEW pend, NEW R, Chain(m, pend, R)
  PROVE  \E f, K : /\ Tour(R, f, K)
                   /\ Listed(m, pend) = [i \in 1 .. K |-> <<LineAt(m, f[i]), TextAt(m, f[i])>>]
<1> DEFINE turn == [p \in Nat |-> IF p = pend THEN p ELSE p + LenAt(m, p)]
           S == R \cup {pend}
           g == [ix \in (1 .. Turns) \X S |-> turn[ix[2]]]
           Walk(f) == f = [i \in 0 .. Turns |-> IF i = 0 THEN PROG ELSE turn[f[i - 1]]]
           Lists(f) == [i \in 1 .. Cardinality({i \in 0 .. Turns : f[i] # pend}) |->
                          <<LineAt(m, f[i - 1]), TextAt(m, f[i - 1])>>]
<1>1. S \subseteq Nat /\ pend \in Nat /\ PROG \in S /\ pend \notin R
  BY Sizes DEF Chain
<1>2. (\A p \in R : turn[p] = p + LenAt(m, p)) /\ turn[pend] = pend
  BY <1>1
<1>3. \A p \in S : turn[p] \in S
  <2>1. \A p \in R : p + LenAt(m, p) \in S
    BY DEF Chain
  <2> QED BY <1>2, <2>1
<1> HIDE DEF turn
<1>4. \E f : Walk(f) /\ Listed(m, pend) = Lists(f)
  <2>1. g \in [(1 .. Turns) \X S -> S]
    BY <1>3
  <2>2. PICK f : Course(f, Turns, S, PROG, g)
    BY <1>1, <2>1, Sizes, Iterates
  <2>3. \A i \in 1 .. Turns : i - 1 \in 0 .. Turns
    BY Sizes
  <2>4. \A i \in 1 .. Turns : f[i] = turn[f[i - 1]]
    BY <2>2, <2>3 DEF Course
  <2>5. Walk(f)
    BY <2>2, <2>4, Sizes DEF Course
  <2>6. PICK w : w = CHOOSE x : Walk(x)
    OBVIOUS
  <2>7. Walk(w)
    <3> HIDE DEF Walk
    <3> QED BY <2>5, <2>6
  <2>8. Listed(m, pend) = Lists(w)
    BY <2>6 DEF Listed, turn
  <2> QED BY <2>7, <2>8
<1>5. PICK f : Walk(f) /\ Listed(m, pend) = Lists(f)
  BY <1>4
<1>6. f[0] = PROG /\ \A i \in 1 .. Turns : f[i] = turn[f[i - 1]]
  BY <1>5, Sizes
<1>7. \A i \in 0 .. Turns : f[i] \in S /\ (f[i] >= PROG + 4 * i \/ f[i] = pend)
  <2> DEFINE T == {i \in 0 .. Turns : f[i] \in S /\ (f[i] >= PROG + 4 * i \/ f[i] = pend)}
  <2>1. 0 \in T
    BY <1>1, <1>6, Sizes
  <2>2. ASSUME NEW i \in 1 .. Turns, i - 1 \in T PROVE i \in T
    <3>1. PICK x : x = f[i - 1]
      OBVIOUS
    <3>2. x \in S /\ (x >= PROG + 4 * (i - 1) \/ x = pend) /\ f[i] = turn[x] /\ i \in 0 .. Turns
      BY <1>6, <2>2, <3>1
    <3>3. CASE x = pend
      BY <1>2, <3>2, <3>3
    <3>4. CASE x \in R
      <4>1. x \in Int /\ LenAt(m, x) \in Int /\ 5 <= LenAt(m, x) /\ PROG \in Int /\ i \in Int /\ x # pend
        BY <1>1, <3>4, InRecord, Sizes
      <4>2. f[i] = x + LenAt(m, x) /\ f[i] \in S
        BY <1>2, <1>3, <3>2, <3>4
      <4>3. f[i] >= PROG + 4 * i
        BY <3>2, <4>1, <4>2
      <4> QED BY <3>2, <4>2, <4>3
    <3> QED BY <3>2, <3>3, <3>4
  <2> HIDE DEF T
  <2>3. 0 .. Turns \subseteq T
    BY <2>1, <2>2, Sizes, AllTurns
  <2> QED BY <2>3 DEF T
<1>8. f[Turns] = pend
  <2>1. PICK x : x = f[Turns]
    OBVIOUS
  <2>2. x \in S /\ (x >= PROG + 4 * Turns \/ x = pend)
    BY <1>7, <2>1, Sizes
  <2>3. ASSUME x \in R, x >= PROG + 4 * Turns PROVE FALSE
    <3>1. x \in Int /\ x + LenAt(m, x) <= pend /\ pend <= LIMIT /\ 5 <= LenAt(m, x) /\ LenAt(m, x) \in Int
          /\ pend \in Int
      BY <2>3, InRecord
    <3> QED BY <2>3, <3>1, Sizes
  <2> QED BY <2>1, <2>2, <2>3
<1> DEFINE E == {i \in 0 .. Turns : f[i] = pend}
<1>9. PICK K \in E : \A i \in E : K <= i
  <2>1. Turns \in E /\ E \subseteq Nat
    BY <1>8, Sizes
  <2> HIDE DEF E
  <2> QED BY <2>1, Least
<1>10. K \in Nat /\ K <= Turns /\ f[K] = pend /\ Turns \in Nat
  BY <1>9, Sizes
<1>11. \A i \in 0 .. Turns : f[i] # pend <=> i \in 0 .. K - 1
  <2> DEFINE T == {i \in 0 .. Turns : i >= K => f[i] = pend}
  <2>1. 0 \in T
    BY <1>10
  <2>2. ASSUME NEW i \in 1 .. Turns, i - 1 \in T PROVE i \in T
    <3>1. f[i] = turn[f[i - 1]] /\ (i - 1 >= K => f[i - 1] = pend) /\ i \in 0 .. Turns
      BY <1>6, <2>2
    <3>2. i = K \/ ~(i >= K) \/ i - 1 >= K
      BY <1>10
    <3> QED BY <1>2, <1>10, <3>1, <3>2
  <2> HIDE DEF T
  <2>3. 0 .. Turns \subseteq T
    BY <1>10, <2>1, <2>2, AllTurns
  <2>4. ASSUME NEW i \in 0 .. Turns PROVE f[i] # pend <=> i \in 0 .. K - 1
    <3>1. i >= K => f[i] = pend
      BY <2>3 DEF T
    <3>2. f[i] = pend => K <= i
      BY <1>9
    <3>3. i \in Int /\ K \in Int /\ 0 <= i
      BY <1>10
    <3>4. i \in 0 .. K - 1 <=> ~(i >= K)
      BY <3>3
    <3> QED BY <3>1, <3>2, <3>3, <3>4
  <2> QED BY <2>4
<1>12. ASSUME NEW i \in 0 .. K - 1
       PROVE  i \in 0 .. Turns /\ f[i] \in R /\ i + 1 \in 1 .. Turns /\ f[i + 1] = f[i] + LenAt(m, f[i])
  <2>1. i \in 0 .. Turns /\ i + 1 \in 1 .. Turns /\ (i + 1) - 1 = i
    BY <1>10
  <2>2. f[i] \in S /\ f[i] # pend
    BY <1>7, <1>11, <2>1
  <2>3. f[i + 1] = turn[f[(i + 1) - 1]]
    BY <1>6, <2>1
  <2> QED BY <1>2, <2>1, <2>2, <2>3
<1> DEFINE h == [i \in 1 .. K |-> f[i - 1]]
<1>13. \A i \in 1 .. K : i - 1 \in 0 .. K - 1 /\ h[i] = f[i - 1]
  BY <1>10
<1>14. h \in [1 .. K -> R]
  BY <1>12, <1>13
<1> HIDE DEF h
<1>15. ASSUME NEW i \in 1 .. K, NEW j \in 1 .. K, i < j PROVE h[i] < h[j]
  <2> DEFINE T == {b \in 0 .. Turns : b < K => \A a \in 0 .. b - 1 : f[a] < f[b]}
  <2>1. 0 \in T
    BY <1>10
  <2>2. ASSUME NEW b \in 1 .. Turns, b - 1 \in T PROVE b \in T
    <3>1. SUFFICES ASSUME b < K, NEW a \in 0 .. b - 1 PROVE f[a] < f[b]
      OBVIOUS
    <3>2. PICK c : c = b - 1
      OBVIOUS
    <3>3. c \in 0 .. K - 1 /\ a \in 0 .. K - 1 /\ c + 1 = b /\ a \in Int /\ c \in Int /\ c < K /\ a <= c
      BY <1>10, <3>1, <3>2
    <3>4. f[b] = f[c] + LenAt(m, f[c]) /\ f[c] \in R /\ f[a] \in R
      BY <1>12, <3>3
    <3>5. f[c] \in Int /\ f[a] \in Int /\ LenAt(m, f[c]) \in Int /\ 5 <= LenAt(m, f[c])
      BY <3>4, InRecord
    <3>6. f[c] < f[b]
      BY <3>4, <3>5
    <3>7. a = c \/ f[a] < f[c]
      <4>1. c \in T
        BY <2>2, <3>2
      <4>2. a # c => a \in 0 .. c - 1
        BY <3>3
      <4> QED BY <3>3, <4>1, <4>2
    <3> QED BY <3>4, <3>5, <3>6, <3>7
  <2> HIDE DEF T
  <2>3. 0 .. Turns \subseteq T
    BY <1>10, <2>1, <2>2, AllTurns
  <2>4. j - 1 \in 0 .. Turns /\ j - 1 < K /\ i - 1 \in 0 .. (j - 1) - 1
    BY <1>10, <1>15
  <2>5. f[i - 1] < f[j - 1]
    BY <2>3, <2>4 DEF T
  <2> QED BY <1>13, <2>5
<1>16. ASSUME NEW q \in R PROVE \E i \in 1 .. K : h[i] = q
  <2> SUFFICES ASSUME ~(\E i \in 1 .. K : h[i] = q) PROVE FALSE
    OBVIOUS
  <2> DEFINE G == {r \in R : ~(\E i \in 1 .. K : h[i] = r)}
  <2>1. G \subseteq Nat /\ q \in G
    BY <1>1
  <2>2. PICK r \in G : \A x \in G : r <= x
    <3> HIDE DEF G
    <3> QED BY <2>1, Least
  <2>3. r \in R /\ r \in Int /\ r # pend
    BY <1>1, <2>2
  <2>4. CASE r = PROG
    <3>1. K # 0
      BY <1>6, <1>10, <2>3, <2>4
    <3>2. 1 \in 1 .. K /\ 1 - 1 = 0
      BY <1>10, <3>1
    <3>3. h[1] = PROG
      BY <1>6, <1>13, <3>2
    <3> QED BY <2>2, <2>4, <3>2, <3>3
  <2>5. CASE r # PROG
    <3>1. PICK x \in R : x < r /\ x + LenAt(m, x) = r
      BY <2>3, <2>5, Predecessor
    <3>2. x \in Int
      BY <3>1, InRecord
    <3>3. x \notin G
      BY <2>2, <2>3, <3>1, <3>2
    <3>4. PICK i \in 1 .. K : h[i] = x
      BY <3>1, <3>3
    <3>5. PICK c : c = i - 1
      OBVIOUS
    <3>6. c \in 0 .. K - 1 /\ c + 1 = i /\ f[c] = x
      BY <1>10, <1>13, <3>4, <3>5
    <3>7. f[i] = r /\ i \in 0 .. Turns
      <4>1. f[c + 1] = f[c] + LenAt(m, f[c]) /\ c + 1 \in 1 .. Turns
        BY <1>12, <3>6
      <4> QED BY <3>1, <3>6, <4>1
    <3>8. i \in 0 .. K - 1
      BY <1>11, <2>3, <3>7
    <3>9. i + 1 \in 1 .. K /\ (i + 1) - 1 = i
      BY <1>10, <3>8
    <3>10. h[i + 1] = r
      BY <1>13, <3>7, <3>9
    <3> QED BY <2>2, <3>9, <3>10
  <2> QED BY <2>4, <2>5
<1>17. Cardinality({i \in 0 .. Turns : f[i] # pend}) = K
  <2>1. {i \in 0 .. Turns : f[i] # pend} = 0 .. K - 1
    BY <1>11, <1>12
  <2>2. Cardinality(0 .. K - 1) = K
    <3>1. 0 \in Int /\ K - 1 \in Int /\ (IF 0 > K - 1 THEN 0 ELSE (K - 1) - 0 + 1) = K
      BY <1>10
    <3>2. Cardinality(0 .. K - 1) = IF 0 > K - 1 THEN 0 ELSE (K - 1) - 0 + 1
      BY <3>1, FS_Interval
    <3> QED BY <3>1, <3>2
  <2> QED BY <2>1, <2>2
<1>18. Listed(m, pend) = [i \in 1 .. K |-> <<LineAt(m, h[i]), TextAt(m, h[i])>>]
  <2>1. Listed(m, pend) = [i \in 1 .. K |-> <<LineAt(m, f[i - 1]), TextAt(m, f[i - 1])>>]
    BY <1>5, <1>17
  <2> QED BY <1>13, <2>1
<1>19. Tour(R, h, K)
  BY <1>10, <1>14, <1>15, <1>16 DEF Tour
<1> QED BY <1>18, <1>19

(* That is the program in the order of its lines.                          *)
LEMMA ListedIs ==
  ASSUME NEW R, Chain(mem, PEND, R)
  PROVE  Listed(mem, PEND) = Program!Listing
<1> DEFINE D == DOMAIN Lines
           upto(n) == {k \in D : k <= n}
           nth(i) == CHOOSE n \in D : Cardinality(upto(n)) = i
<1>1. PICK f, K : /\ Tour(R, f, K)
                  /\ Listed(mem, PEND) = [i \in 1 .. K |-> <<LineAt(mem, f[i]), TextAt(mem, f[i])>>]
  BY ListTours
<1>2. D = {LineAt(mem, q) : q \in R} /\ \A q \in R : Lines[LineAt(mem, q)] = TextAt(mem, q)
  BY LinesTell DEF Lines
<1>3. K \in Nat /\ \A i \in 1 .. K : f[i] \in R
  BY <1>1 DEF Tour
<1> DEFINE ln == [i \in 1 .. K |-> LineAt(mem, f[i])]
<1>4. \A i \in 1 .. K : ln[i] \in D /\ ln[i] \in Int /\ ln[i] = LineAt(mem, f[i])
  <2> SUFFICES ASSUME NEW i \in 1 .. K PROVE ln[i] \in D /\ ln[i] \in Int /\ ln[i] = LineAt(mem, f[i])
    OBVIOUS
  <2>1. ln[i] = LineAt(mem, f[i]) /\ f[i] \in R
    BY <1>3
  <2>2. LineAt(mem, f[i]) \in Int
    BY <2>1, InRecord, WordsAre
  <2>3. LineAt(mem, f[i]) \in D
    BY <1>2, <2>1
  <2> QED BY <2>1, <2>2, <2>3
<1>5. \A i, j \in 1 .. K : i < j => ln[i] < ln[j]
  <2> SUFFICES ASSUME NEW i \in 1 .. K, NEW j \in 1 .. K, i < j PROVE ln[i] < ln[j]
    OBVIOUS
  <2>1. f[i] < f[j] /\ f[i] \in R /\ f[j] \in R
    BY <1>1, <1>3 DEF Tour
  <2>2. LineAt(mem, f[i]) < LineAt(mem, f[j])
    BY <2>1, LineOnce
  <2> HIDE DEF ln
  <2> QED BY <1>4, <2>2
<1>6. \A n \in D : \E i \in 1 .. K : ln[i] = n
  <2> SUFFICES ASSUME NEW n \in D PROVE \E i \in 1 .. K : ln[i] = n
    OBVIOUS
  <2>1. PICK q \in R : n = LineAt(mem, q)
    BY <1>2
  <2>2. PICK i \in 1 .. K : f[i] = q
    BY <1>1 DEF Tour
  <2>3. ln[i] = n
    BY <2>1, <2>2
  <2> QED BY <2>3
<1> HIDE DEF D, ln
<1>7. \A i, j \in 1 .. K : ln[i] <= ln[j] => i <= j
  <2> SUFFICES ASSUME NEW i \in 1 .. K, NEW j \in 1 .. K, ln[i] <= ln[j], ~(i <= j) PROVE FALSE
    OBVIOUS
  <2>1. i \in Int /\ j \in Int
    BY <1>3
  <2>2. ln[j] < ln[i]
    BY <1>5, <2>1
  <2> QED BY <1>4, <2>2
<1>8. ASSUME NEW j \in 1 .. K PROVE Cardinality(upto(ln[j])) = j
  <2> DEFINE c == [i \in 1 .. j |-> ln[i]]
  <2>1. j \in Nat /\ \A i \in 1 .. j : i \in 1 .. K /\ i \in Int
    BY <1>3
  <2>2. ASSUME NEW i \in 1 .. j PROVE c[i] = ln[i] /\ c[i] \in upto(ln[j])
    <3>1. i \in 1 .. K /\ (i = j \/ i < j)
      BY <2>1
    <3>2. ln[i] <= ln[j]
      BY <1>4, <1>5, <3>1
    <3> QED BY <1>4, <3>1, <3>2
  <2>3. c \in [1 .. j -> upto(ln[j])]
    <3> HIDE DEF upto
    <3> QED BY <2>2
  <2>4. ASSUME NEW i \in 1 .. j, NEW k \in 1 .. j, c[i] = c[k] PROVE i = k
    <3>1. ln[i] = ln[k] /\ i \in 1 .. K /\ k \in 1 .. K /\ i \in Int /\ k \in Int
      BY <2>1, <2>2, <2>4
    <3>2. ln[i] <= ln[k] /\ ln[k] <= ln[i]
      BY <1>4, <3>1
    <3>3. i <= k /\ k <= i
      BY <1>7, <3>1, <3>2
    <3> QED BY <3>1, <3>3
  <2>5. ASSUME NEW n \in upto(ln[j]) PROVE \E i \in 1 .. j : c[i] = n
    <3>1. n \in D /\ n <= ln[j]
      OBVIOUS
    <3>2. PICK i \in 1 .. K : ln[i] = n
      BY <1>6, <3>1
    <3>3. i <= j
      BY <1>7, <3>1, <3>2
    <3>4. i \in 1 .. j
      BY <1>3, <3>3
    <3> QED BY <2>2, <3>2, <3>4
  <2> HIDE DEF c, upto
  <2> QED BY <2>1, <2>3, <2>4, <2>5, Counted
<1>9. Cardinality(D) = K
  <2>1. ln \in [1 .. K -> D]
    BY <1>4 DEF ln
  <2>2. ASSUME NEW i \in 1 .. K, NEW j \in 1 .. K, ln[i] = ln[j] PROVE i = j
    <3>1. ln[i] <= ln[j] /\ ln[j] <= ln[i]
      BY <1>4, <2>2
    <3>2. i <= j /\ j <= i /\ i \in Int /\ j \in Int
      BY <1>3, <1>7, <3>1
    <3> QED BY <3>2
  <2> QED BY <1>3, <1>6, <2>1, <2>2, Counted
<1>10. ASSUME NEW i \in 1 .. K PROVE nth(i) = ln[i]
  <2> HIDE DEF upto
  <2>1. ln[i] \in D /\ Cardinality(upto(ln[i])) = i
    BY <1>4, <1>8
  <2>2. nth(i) \in D /\ Cardinality(upto(nth(i))) = i
    BY <2>1
  <2>3. PICK j \in 1 .. K : ln[j] = nth(i)
    <3> HIDE DEF nth
    <3> QED BY <1>6, <2>2
  <2>4. j = i
    <3> HIDE DEF nth
    <3>1. Cardinality(upto(ln[j])) = j
      BY <1>8
    <3> QED BY <2>2, <2>3, <3>1
  <2> HIDE DEF nth
  <2> QED BY <2>3, <2>4
<1>11. Program!Listing = [i \in 1 .. Cardinality(D) |-> <<nth(i), Lines[nth(i)]>>]
  BY DEF Program!Listing, D, Program!Cardinality, Cardinality
<1> HIDE DEF nth
<1>12. \A i \in 1 .. K : nth(i) = LineAt(mem, f[i]) /\ Lines[nth(i)] = TextAt(mem, f[i])
  BY <1>2, <1>3, <1>4, <1>10
<1>13. Program!Listing = [i \in 1 .. K |-> <<LineAt(mem, f[i]), TextAt(mem, f[i])>>]
  BY <1>9, <1>11, <1>12
<1> QED BY <1>1, <1>13

-----------------------------------------------------------------------------
(* The stack of the evaluator. *)

Labels == {"EVAL_EXPR", "compare", "close", "ev_additive", "ev_loop", "ev_term", "et_loop",
           "ev_unary", "ev_primary", "negate"} \cup Operators

Stops == Labels \cup {"done"}

(* An operator that waits for its right side keeps an entry of the value   *)
(* stack, a parenthesis that waits to be closed is counted by PDEPTH.      *)
Keeps(l) == IF l \in Operators THEN 1 ELSE 0
Nests(l) == IF l = "close" THEN 1 ELSE 0

(* The operators that may wait between a parenthesis and a routine.        *)
Waiting(l) ==
  IF l \in {"EVAL_EXPR", "compare", "close"} THEN 0
  ELSE IF l \in {"ev_additive", "ev_loop"} \cup Comparisons THEN 1
  ELSE IF l \in {"ev_term", "et_loop", "+", "-"} THEN 2 ELSE 3

Fits(l, h, d) == l \in Labels /\ h + Keeps(l) <= 3 * (d + Nests(l)) + Waiting(l)

Piled == Seq(Stops) \X Nat \X Nat

Closed(P) ==
  /\ <<<<"done">>, 0, 0>> \in P
  /\ \A r \in Seq(Stops), h \in Nat, d \in Nat, l \in Labels :
       <<r, h, d>> \in P /\ Fits(l, h, d) => <<<<l>> \o r, h + Keeps(l), d + Nests(l)>> \in P

(* The stacks of return addresses the parse can make, each with the        *)
(* entries it keeps on the value stack and the parentheses it has open.    *)
Piles == {t \in Piled : \A P \in SUBSET Piled : Closed(P) => t \in P}

(* A sequence of one.                                                      *)
LEMMA Single ==
  ASSUME NEW S, NEW a \in S
  PROVE  <<a>> \in Seq(S) /\ Len(<<a>>) = 1 /\ <<a>>[1] = a
OBVIOUS

(* The stack of a parse that has come to its end.                          *)
LEMMA AtTheEnd == <<"done">> \in Seq(Stops) /\ <<"done">> # <<>>
<1>1. "done" \in Stops
  BY DEF Stops
<1>2. <<"done">> \in Seq(Stops)
  BY <1>1, Single
<1> QED BY <1>2

(* A return address in front of others comes off again.                    *)
LEMMA FrontOf ==
  ASSUME NEW a \in Stops, NEW r \in Seq(Stops)
  PROVE  /\ <<a>> \o r \in Seq(Stops) /\ <<a>> \o r # <<>>
         /\ Head(<<a>> \o r) = a /\ Tail(<<a>> \o r) = r
<1> DEFINE f == <<a>>
           s == f \o r
<1>1. f \in Seq(Stops) /\ Len(f) = 1 /\ f[1] = a
  BY Single
<1>2. Len(r) \in Nat
  BY LenProperties
<1> HIDE DEF f
<1>3. /\ s \in Seq(Stops) /\ Len(s) = 1 + Len(r)
      /\ \A i \in 1 .. 1 + Len(r) : s[i] = IF i <= 1 THEN f[i] ELSE r[i - 1]
  <2>1. /\ s \in Seq(Stops) /\ Len(s) = Len(f) + Len(r)
        /\ \A i \in 1 .. Len(f) + Len(r) : s[i] = IF i <= Len(f) THEN f[i] ELSE r[i - Len(f)]
    BY <1>1, ConcatProperties
  <2> QED BY <1>1, <2>1
<1> HIDE DEF s
<1>4. s # <<>>
  BY <1>2, <1>3
<1>5. Head(s) = a
  <2>1. Head(s) = s[1]
    BY <1>3, <1>4
  <2>2. 1 \in 1 .. 1 + Len(r) /\ 1 <= 1
    BY <1>2
  <2> QED BY <1>1, <1>3, <2>1, <2>2
<1>6. Tail(s) = r
  <2>1. /\ Tail(s) \in Seq(Stops) /\ Len(Tail(s)) = Len(s) - 1
        /\ \A i \in 1 .. Len(Tail(s)) : Tail(s)[i] = s[i + 1]
    BY <1>3, <1>4, HeadTailProperties
  <2>2. Len(Tail(s)) = Len(r)
    BY <1>2, <1>3, <2>1
  <2>3. ASSUME NEW i \in 1 .. Len(r) PROVE Tail(s)[i] = r[i]
    <3>1. i + 1 \in 1 .. 1 + Len(r) /\ ~(i + 1 <= 1) /\ (i + 1) - 1 = i
      BY <1>2
    <3>2. s[i + 1] = r[i]
      BY <1>3, <3>1
    <3> QED BY <2>1, <2>2, <3>2
  <2> QED BY <2>1, <2>2, <2>3, SeqEqual
<1> QED BY <1>3, <1>4, <1>5, <1>6 DEF s, f

(* What is there is its first and the rest.                                *)
LEMMA FirstAndRest ==
  ASSUME NEW r \in Seq(Stops), r # <<>>
  PROVE  Head(r) \in Stops /\ Tail(r) \in Seq(Stops) /\ r = <<Head(r)>> \o Tail(r)
<1> DEFINE f == <<Head(r)>>
           g == Tail(r)
           s == f \o g
<1>1. /\ Head(r) \in Stops /\ g \in Seq(Stops) /\ Len(g) = Len(r) - 1
      /\ \A i \in 1 .. Len(g) : g[i] = r[i + 1]
  BY HeadTailProperties
<1>2. f \in Seq(Stops) /\ Len(f) = 1 /\ f[1] = r[1]
  <2>1. Head(r) = r[1]
    OBVIOUS
  <2> QED BY <1>1, <2>1, Single
<1>3. Len(r) \in Nat /\ Len(r) >= 1
  <2>1. Len(r) \in Nat /\ Len(r) # 0
    BY EmptySeq
  <2> QED BY <2>1
<1> HIDE DEF f, g
<1>4. /\ s \in Seq(Stops) /\ Len(s) = Len(f) + Len(g)
      /\ \A i \in 1 .. Len(f) + Len(g) : s[i] = IF i <= Len(f) THEN f[i] ELSE g[i - Len(f)]
  <2>1. f \in Seq(Stops) /\ g \in Seq(Stops)
    BY <1>1, <1>2
  <2> QED BY <2>1, ConcatProperties
<1>5. Len(s) = Len(r)
  BY <1>1, <1>2, <1>3, <1>4
<1>6. ASSUME NEW i \in 1 .. Len(s) PROVE s[i] = r[i]
  <2>1. i \in 1 .. Len(f) + Len(g) /\ i \in Int /\ 1 <= i /\ i <= Len(r)
    BY <1>3, <1>4, <1>5
  <2>2. s[i] = IF i <= Len(f) THEN f[i] ELSE g[i - Len(f)]
    BY <1>4, <2>1
  <2>3. CASE i = 1
    BY <1>2, <2>2, <2>3
  <2>4. CASE i # 1
    <3>1. ~(i <= 1) /\ i - 1 \in 1 .. Len(g) /\ (i - 1) + 1 = i
      BY <1>1, <1>3, <2>1, <2>4
    <3> QED BY <1>1, <1>2, <2>2, <3>1
  <2> QED BY <2>3, <2>4
<1> HIDE DEF s
<1>7. s = r
  BY <1>4, <1>5, <1>6, SeqEqual
<1> QED BY <1>1, <1>7 DEF s, f, g

(* Every routine is somewhere the parse may be; the end is not a routine.  *)
LEMMA LabelsAre == Labels \subseteq Stops /\ "done" \notin Labels
<1>1. "done" \notin Comparisons
  BY DEF Comparisons
<1>2. "done" \notin Operators
  BY <1>1 DEF Operators
<1>3. "done" \notin Labels
  BY <1>2 DEF Labels
<1> QED BY <1>3 DEF Stops

(* The counts are numbers.                                                 *)
LEMMA Counts == \A l : Keeps(l) \in {0, 1} /\ Nests(l) \in {0, 1} /\ Waiting(l) \in 0 .. 3
BY DEF Keeps, Nests, Waiting

(* The stacks are closed under a call that has room.                       *)
LEMMA PilesClosed == Closed(Piles)
<1>1. <<<<"done">>, 0, 0>> \in Piled
  BY AtTheEnd DEF Piled
<1>2. <<<<"done">>, 0, 0>> \in Piles
  BY <1>1 DEF Piles, Closed
<1>3. ASSUME NEW r \in Seq(Stops), NEW h \in Nat, NEW d \in Nat, NEW l \in Labels,
             <<r, h, d>> \in Piles, Fits(l, h, d)
      PROVE  <<<<l>> \o r, h + Keeps(l), d + Nests(l)>> \in Piles
  <2> DEFINE t == <<<<l>> \o r, h + Keeps(l), d + Nests(l)>>
  <2>1. t \in Piled
    <3>1. <<l>> \o r \in Seq(Stops)
      BY LabelsAre, FrontOf
    <3>2. h + Keeps(l) \in Nat /\ d + Nests(l) \in Nat
      BY Counts
    <3> QED BY <3>1, <3>2 DEF Piled
  <2>2. ASSUME NEW P \in SUBSET Piled, Closed(P) PROVE t \in P
    <3>1. <<r, h, d>> \in P
      BY <1>3, <2>2 DEF Piles
    <3> QED BY <1>3, <2>2, <3>1 DEF Closed
  <2> QED BY <2>1, <2>2 DEF Piles
<1> QED BY <1>2, <1>3 DEF Closed

(* Calling a routine, or waiting in one.                                   *)
LEMMA Push ==
  ASSUME NEW r \in Seq(Stops), NEW h \in Nat, NEW d \in Nat, <<r, h, d>> \in Piles,
         NEW l, Fits(l, h, d)
  PROVE  <<<<l>> \o r, h + Keeps(l), d + Nests(l)>> \in Piles
BY PilesClosed DEF Closed, Fits

LEMMA BackAgain ==
  ASSUME NEW x \in Nat, NEW y \in Int
  PROVE  (x + y) - y = x
OBVIOUS

(* Leaving it.                                                             *)
LEMMA Pop ==
  ASSUME NEW a \in Stops, NEW r \in Seq(Stops), NEW h, NEW d, <<<<a>> \o r, h, d>> \in Piles
  PROVE  /\ h \in Nat /\ d \in Nat
         /\ \/ a = "done" /\ r = <<>> /\ h = 0 /\ d = 0
            \/ /\ a \in Labels /\ <<r, h - Keeps(a), d - Nests(a)>> \in Piles
               /\ h - Keeps(a) \in Nat /\ d - Nests(a) \in Nat /\ h <= 3 * d + Waiting(a)
<1> DEFINE Made(t) == \E q \in Seq(Stops), i \in Nat, j \in Nat, l \in Labels :
                        /\ <<q, i, j>> \in Piles /\ Fits(l, i, j)
                        /\ t = <<<<l>> \o q, i + Keeps(l), j + Nests(l)>>
           P == {t \in Piles : t = <<<<"done">>, 0, 0>> \/ Made(t)}
           t0 == <<<<a>> \o r, h, d>>
<1>1. P \in SUBSET Piled /\ Piles \subseteq Piled
  BY DEF Piles
<1>2. Closed(P)
  <2>1. <<<<"done">>, 0, 0>> \in P
    BY PilesClosed DEF Closed
  <2>2. ASSUME NEW q \in Seq(Stops), NEW i \in Nat, NEW j \in Nat, NEW l \in Labels,
               <<q, i, j>> \in P, Fits(l, i, j)
        PROVE  <<<<l>> \o q, i + Keeps(l), j + Nests(l)>> \in P
    <3>1. <<q, i, j>> \in Piles
      BY <2>2
    <3>2. <<<<l>> \o q, i + Keeps(l), j + Nests(l)>> \in Piles
      BY <2>2, <3>1, PilesClosed DEF Closed
    <3>3. Made(<<<<l>> \o q, i + Keeps(l), j + Nests(l)>>)
      BY <2>2, <3>1
    <3> QED BY <3>2, <3>3
  <2> HIDE DEF P
  <2> QED BY <2>1, <2>2 DEF Closed
<1>3. t0 \in P
  <2> HIDE DEF P
  <2> QED BY <1>1, <1>2 DEF Piles
<1>4. h \in Nat /\ d \in Nat
  BY <1>1, <1>3 DEF Piled
<1>5. CASE t0 = <<<<"done">>, 0, 0>>
  <2>1. <<a>> \o r = <<"done">> /\ h = 0 /\ d = 0
    BY <1>5
  <2>2. Head(<<"done">>) = "done" /\ Tail(<<"done">>) = <<>>
    OBVIOUS
  <2>3. Head(<<a>> \o r) = a /\ Tail(<<a>> \o r) = r
    BY FrontOf
  <2> QED BY <1>4, <2>1, <2>2, <2>3
<1>6. CASE Made(t0)
  <2>1. PICK q \in Seq(Stops), i \in Nat, j \in Nat, l \in Labels :
          /\ <<q, i, j>> \in Piles /\ Fits(l, i, j)
          /\ t0 = <<<<l>> \o q, i + Keeps(l), j + Nests(l)>>
    BY <1>6
  <2>2. <<a>> \o r = <<l>> \o q /\ h = i + Keeps(l) /\ d = j + Nests(l)
    BY <2>1
  <2>3. Head(<<a>> \o r) = a /\ Tail(<<a>> \o r) = r
    BY FrontOf
  <2>4. Head(<<l>> \o q) = l /\ Tail(<<l>> \o q) = q
    BY LabelsAre, FrontOf
  <2>5. a = l /\ r = q
    BY <2>2, <2>3, <2>4
  <2>6. Keeps(l) \in Int /\ Nests(l) \in Int /\ Waiting(l) \in Int
    BY Counts
  <2>7. h - Keeps(l) = i /\ d - Nests(l) = j
    <3>1. (i + Keeps(l)) - Keeps(l) = i /\ (j + Nests(l)) - Nests(l) = j
      BY <2>6, BackAgain
    <3> QED BY <2>2, <3>1
  <2>8. h <= 3 * d + Waiting(l)
    BY <2>1, <2>2 DEF Fits
  <2> QED BY <1>4, <2>1, <2>5, <2>7, <2>8
<1> QED BY <1>3, <1>5, <1>6

(* There is always somewhere to return to.                                 *)
LEMMA NeverEmpty ==
  ASSUME NEW r, NEW h, NEW d, <<r, h, d>> \in Piles
  PROVE  r \in Seq(Stops) /\ r # <<>>
<1> DEFINE P == {t \in Piled : t[1] # <<>>}
<1>1. P \in SUBSET Piled
  OBVIOUS
<1>2. Closed(P)
  <2>1. <<<<"done">>, 0, 0>> \in P
    BY AtTheEnd DEF Piled
  <2>2. ASSUME NEW q \in Seq(Stops), NEW i \in Nat, NEW j \in Nat, NEW l \in Labels
        PROVE  <<<<l>> \o q, i + Keeps(l), j + Nests(l)>> \in P
    <3>1. <<l>> \o q \in Seq(Stops) /\ <<l>> \o q # <<>>
      BY LabelsAre, FrontOf
    <3>2. i + Keeps(l) \in Nat /\ j + Nests(l) \in Nat
      BY Counts
    <3> QED BY <3>1, <3>2 DEF Piled
  <2> HIDE DEF P
  <2> QED BY <2>1, <2>2 DEF Closed
<1>3. <<r, h, d>> \in P
  <2> HIDE DEF P
  <2> QED BY <1>1, <1>2 DEF Piles
<1> QED BY <1>3 DEF Piled

-----------------------------------------------------------------------------
(* Its arithmetic. *)

(* What arithmetic leaves in a word.                                       *)
LEMMA Modulo == \A x \in Int : x % WORD \in Words
<1> SUFFICES ASSUME NEW x \in Int PROVE x % WORD \in Words
  OBVIOUS
<1>1. x % 65536 \in Int /\ 0 <= x % 65536 /\ x % 65536 < 65536
  OBVIOUS
<1>2. x % WORD \in Int /\ 0 <= x % WORD /\ x % WORD <= 65535
  BY <1>1 DEF WORD
<1> QED BY <1>2, WordsAre

(* Words are numbers.                                                      *)
LEMMA WordsAreInt == WORD \in Int /\ Words \subseteq Int /\ 0 \in Words /\ WORD - 1 \in Words
<1>1. WORD \in Int /\ WORD - 1 = 65535
  BY DEF WORD
<1>2. WORD - 1 \in Words
  BY <1>1, WordsAre
<1> QED BY <1>1, <1>2, WordsAre

(* A word negated is a word.                                               *)
LEMMA NegIsWord == \A a \in Words : Neg(a) \in Words
BY WordsAreInt, Modulo DEF Neg

(* So is its magnitude, which is not zero when the word is not.            *)
LEMMA AbsIsWord == \A a \in Words : Abs(a) \in Words /\ (a # 0 => Abs(a) # 0)
<1> SUFFICES ASSUME NEW a \in Words PROVE Abs(a) \in Words /\ (a # 0 => Abs(a) # 0)
  OBVIOUS
<1>1. Abs(a) \in Words
  BY NegIsWord DEF Abs
<1>2. ASSUME a # 0 PROVE Neg(a) # 0
  <2>1. a \in Int /\ 0 < a /\ a <= 65535
    BY <1>2, WordsAre
  <2>2. (65536 - a) % 65536 = 65536 - a
    BY <2>1
  <2> QED BY <2>1, <2>2 DEF Neg, WORD
<1> QED BY <1>1, <1>2 DEF Abs

(* A quotient is at most what is divided.                                  *)
LEMMA Quotient ==
  ASSUME NEW a \in Nat, NEW b \in Nat, b # 0
  PROVE  a \div b \in Nat /\ a \div b <= a
OBVIOUS

(* The quotient of two words, and that of their magnitudes.                *)
LEMMA DivIsWord ==
  ASSUME NEW a \in Words, NEW b \in Words, b # 0
  PROVE  Div(a, b) \in Words /\ Abs(a) \div Abs(b) \in Words
<1> DEFINE q == Abs(a) \div Abs(b)
<1>1. /\ Abs(a) \in Words /\ Abs(b) \in Words /\ Abs(b) # 0
  BY AbsIsWord
<1>2. Abs(a) \in Nat /\ Abs(b) \in Nat /\ Abs(a) <= 65535
  BY <1>1, WordsAre
<1>3. q \in Nat /\ q <= Abs(a)
  BY <1>1, <1>2, Quotient
<1>4. q \in Words
  BY <1>2, <1>3, WordsAre
<1>5. Neg(q) \in Words
  BY <1>4, NegIsWord
<1>6. Div(a, b) = IF Minus(a) # Minus(b) THEN Neg(q) ELSE q
  BY DEF Div
<1> QED BY <1>4, <1>5, <1>6

(* The product of two words.                                               *)
LEMMA MulIsWord ==
  ASSUME NEW a \in Words, NEW b \in Words
  PROVE  Mul(a, b) \in Words
<1> DEFINE u == (a * (b \div 256)) % WORD
<1>1. a \in Int /\ b \in Int
  BY WordsAreInt
<1>2. b \div 256 \in Int /\ b % 256 \in Int
  BY <1>1
<1>3. a * (b \div 256) \in Int /\ a * (b % 256) \in Int
  BY <1>1, <1>2
<1>4. u \in Words
  BY <1>3, Modulo
<1>5. u \in Int
  BY <1>4, WordsAreInt
<1> HIDE DEF u
<1>6. u * 256 + a * (b % 256) \in Int
  BY <1>3, <1>5
<1>7. (u * 256 + a * (b % 256)) % WORD \in Words
  BY <1>6, Modulo
<1> QED BY <1>7 DEF Mul, u

(* A truth value is a word.                                                *)
LEMMA ComparedIsWord ==
  ASSUME NEW op, NEW a, NEW b
  PROVE  Compared(op, a, b) \in Words
BY WordsAreInt DEF Compared, Truth

(* The words the evaluator computes in, and the room above the value stack *)
(* that its bound on parentheses leaves.                                   *)
LEMMA CellsAre ==
  /\ AR \in Cell /\ AR2 \in Cell /\ AR4 \in Cell
  /\ \A k \in Nat : k <= 3 * DEPTH => k \in Cell
<1>1. ENTRIES \in Nat /\ DEPTH \in Nat
  BY ExpressionAssumption
<1> DEFINE top == IF AR4 > 3 * DEPTH THEN AR4 ELSE 3 * DEPTH
<1>2. AR \in Nat /\ AR2 \in Nat /\ AR4 \in Nat /\ AR <= AR4 /\ AR2 <= AR4
  BY <1>1 DEF AR, AR2, AR4
<1>3. top \in Nat /\ AR4 <= top /\ 3 * DEPTH <= top
  BY <1>1, <1>2
<1>4. Cell = 0 .. top
  BY DEF Cell
<1> HIDE DEF top
<1>5. AR \in Cell /\ AR2 \in Cell /\ AR4 \in Cell
  BY <1>2, <1>3, <1>4
<1>6. \A k \in Nat : k <= 3 * DEPTH => k \in Cell
  BY <1>1, <1>3, <1>4
<1> QED BY <1>5, <1>6

-----------------------------------------------------------------------------
(* The steps of the parse. *)

(* Where the parse stands, its entries and its parentheses belong          *)
(* together; the characters and the cells have their types.                *)
ParseHolds ==
  /\ text \in Seq(STRING) /\ cells \in [Cell -> Words]
  /\ at \in Stops /\ returns \in Seq(Stops)
  /\ ESTKP \in Nat /\ PDEPTH \in Nat /\ PDEPTH < DEPTH
  /\ <<<<at>> \o returns, ESTKP, PDEPTH>> \in Piles

Plain(l) == l \in Labels /\ Keeps(l) = 0 /\ Nests(l) = 0

(* Arithmetic of the room a level has.                                     *)
LEMMA RoomFor ==
  ASSUME NEW h \in Int, NEW d \in Int, NEW w \in Int, NEW k \in Int, NEW n \in Int, NEW v \in Int,
         h <= 3 * d + w, w + k <= 3 * n + v
  PROVE  h + k <= 3 * (d + n) + v
OBVIOUS

(* jsr: the routine it goes to is nested in the one it comes back to.      *)
LEMMA Calls ==
  ASSUME NEW a, Plain(a), NEW r \in Seq(Stops), NEW h \in Nat, NEW d \in Nat,
         <<<<a>> \o r, h, d>> \in Piles,
         NEW b \in Labels, NEW l, Plain(l),
         Waiting(a) + Keeps(b) <= 3 * Nests(b) + Waiting(b),
         Waiting(a) + Keeps(b) <= 3 * Nests(b) + Waiting(l)
  PROVE  /\ <<b>> \o r \in Seq(Stops)
         /\ <<<<l>> \o (<<b>> \o r), h + Keeps(b), d + Nests(b)>> \in Piles
<1>1. a \in Stops /\ a # "done" /\ b \in Stops /\ l \in Stops
  BY LabelsAre DEF Plain
<1>2. <<r, h - Keeps(a), d - Nests(a)>> \in Piles /\ h <= 3 * d + Waiting(a)
  BY <1>1, Pop
<1>3. <<r, h, d>> \in Piles
  <2>1. h - 0 = h /\ d - 0 = d
    OBVIOUS
  <2> QED BY <1>2, <2>1 DEF Plain
<1>4. /\ Keeps(b) \in Int /\ Nests(b) \in Int /\ Waiting(b) \in Int /\ Waiting(a) \in Int /\ Waiting(l) \in Int
      /\ h + Keeps(b) \in Nat /\ d + Nests(b) \in Nat
  BY Counts
<1>5. Fits(b, h, d)
  <2>1. h + Keeps(b) <= 3 * (d + Nests(b)) + Waiting(b)
    <3> DEFINE w == Waiting(a)
               k == Keeps(b)
               n == Nests(b)
               v == Waiting(b)
    <3>1. w \in Int /\ k \in Int /\ n \in Int /\ v \in Int /\ h \in Int /\ d \in Int
      BY <1>4
    <3>2. h <= 3 * d + w /\ w + k <= 3 * n + v
      BY <1>2
    <3> HIDE DEF w, k, n, v
    <3>3. h + k <= 3 * (d + n) + v
      BY <3>1, <3>2, RoomFor
    <3> QED BY <3>3 DEF k, n, v
  <2> QED BY <2>1 DEF Fits
<1>6. <<<<b>> \o r, h + Keeps(b), d + Nests(b)>> \in Piles
  BY <1>3, <1>5, Push
<1>7. <<b>> \o r \in Seq(Stops)
  BY <1>1, FrontOf
<1> DEFINE h2 == h + Keeps(b)
           d2 == d + Nests(b)
<1>8. Fits(l, h2, d2) /\ h2 + Keeps(l) = h2 /\ d2 + Nests(l) = d2
  <2>1. h2 <= 3 * d2 + Waiting(l)
    <3> DEFINE w == Waiting(a)
               k == Keeps(b)
               n == Nests(b)
               v == Waiting(l)
    <3>1. w \in Int /\ k \in Int /\ n \in Int /\ v \in Int /\ h \in Int /\ d \in Int
      BY <1>4
    <3>2. h <= 3 * d + w /\ w + k <= 3 * n + v
      BY <1>2
    <3> HIDE DEF w, k, n, v
    <3>3. h + k <= 3 * (d + n) + v
      BY <3>1, <3>2, RoomFor
    <3> QED BY <3>3 DEF k, n, v
  <2>2. h2 \in Nat /\ d2 \in Nat
    BY <1>4
  <2> HIDE DEF h2, d2
  <2>3. h2 + 0 = h2 /\ d2 + 0 = d2
    BY <2>2
  <2> QED BY <2>1, <2>3 DEF Fits, Plain
<1>9. <<r, h, d>> \in Piles /\ h2 \in Nat /\ d2 \in Nat /\ <<<<b>> \o r, h2, d2>> \in Piles
  BY <1>3, <1>4, <1>6
<1> HIDE DEF h2, d2
<1>10. <<<<l>> \o (<<b>> \o r), h2, d2>> \in Piles
  <2>1. <<<<l>> \o (<<b>> \o r), h2 + Keeps(l), d2 + Nests(l)>> \in Piles
    BY <1>7, <1>8, <1>9, Push
  <2> QED BY <1>8, <2>1
<1> QED BY <1>7, <1>10 DEF h2, d2

(* jmp, and the end of an operator, which takes its entry along.           *)
LEMMA Jumps ==
  ASSUME NEW a \in Labels, NEW r \in Seq(Stops), NEW h \in Nat, NEW d \in Nat,
         <<<<a>> \o r, h, d>> \in Piles, Nests(a) = 0,
         NEW l, Plain(l), Waiting(a) <= Waiting(l) + Keeps(a)
  PROVE  h - Keeps(a) \in Nat /\ <<<<l>> \o r, h - Keeps(a), d>> \in Piles
<1>1. a \in Stops /\ a # "done"
  BY LabelsAre
<1>2. /\ <<r, h - Keeps(a), d - Nests(a)>> \in Piles /\ h <= 3 * d + Waiting(a)
      /\ h - Keeps(a) \in Nat
  BY <1>1, Pop
<1> DEFINE h2 == h - Keeps(a)
<1>3. h2 \in Nat /\ d - 0 = d /\ d + 0 = d /\ h2 + 0 = h2
  BY <1>2
<1>4. h2 <= 3 * d + Waiting(l)
  <2>1. Waiting(a) \in Int /\ Waiting(l) \in Int /\ Keeps(a) \in Int
    BY Counts
  <2> QED BY <1>2, <2>1
<1>5. <<r, h2, d>> \in Piles
  BY <1>2, <1>3
<1> HIDE DEF h2
<1>6. Fits(l, h2, d)
  BY <1>3, <1>4 DEF Fits, Plain
<1>7. <<<<l>> \o r, h2 + Keeps(l), d + Nests(l)>> \in Piles
  BY <1>3, <1>5, <1>6, Push
<1> QED BY <1>3, <1>7 DEF Plain, h2

(* rts *)
LEMMA Returns ==
  ASSUME NEW a \in Labels, NEW r \in Seq(Stops), NEW h \in Nat, NEW d \in Nat,
         <<<<a>> \o r, h, d>> \in Piles
  PROVE  /\ h - Keeps(a) \in Nat /\ d - Nests(a) \in Nat
         /\ Head(r) \in Stops /\ Tail(r) \in Seq(Stops)
         /\ <<<<Head(r)>> \o Tail(r), h - Keeps(a), d - Nests(a)>> \in Piles
<1>1. a \in Stops /\ a # "done"
  BY LabelsAre
<1>2. <<r, h - Keeps(a), d - Nests(a)>> \in Piles /\ h - Keeps(a) \in Nat /\ d - Nests(a) \in Nat
  BY <1>1, Pop
<1>3. r # <<>>
  BY <1>2, NeverEmpty
<1>4. Head(r) \in Stops /\ Tail(r) \in Seq(Stops) /\ r = <<Head(r)>> \o Tail(r)
  BY <1>3, FirstAndRest
<1> QED BY <1>2, <1>4

(* The rest of the characters are characters.                              *)
LEMMA Skipped ==
  ASSUME NEW s \in Seq(STRING), NEW n \in Nat
  PROVE  SubSeq(s, n + 1, Len(s)) \in Seq(STRING)
<1>1. Len(s) \in Nat /\ n + 1 \in Int
  BY LenProperties
<1>2. \A i \in n + 1 .. Len(s) : s[i] \in STRING
  <2>1. \A i \in n + 1 .. Len(s) : i \in 1 .. Len(s)
    BY <1>1
  <2> QED BY <2>1, ElementOfSeq
<1> QED BY <1>1, <1>2, SubSeqProperties

(* The routines: which of them keep something, and in what order they nest. *)
LEMMA Routines ==
  /\ \A l \in {"EVAL_EXPR", "compare", "ev_additive", "ev_loop", "ev_term", "et_loop",
               "ev_unary", "ev_primary", "negate"} : Plain(l)
  /\ \A l \in Operators : l \in Labels /\ Keeps(l) = 1 /\ Nests(l) = 0
  /\ "close" \in Labels /\ Keeps("close") = 0 /\ Nests("close") = 1
<1>1. \A l \in {"EVAL_EXPR", "compare", "ev_additive", "ev_loop", "ev_term", "et_loop",
                "ev_unary", "ev_primary", "negate", "close"} : l \notin Operators
  BY DEF Operators, Comparisons
<1>2. \A l \in Operators : l # "close"
  BY <1>1
<1> QED BY <1>1, <1>2 DEF Plain, Labels, Keeps, Nests

(* How many operators may wait before each routine.                        *)
LEMMA Ranks ==
  /\ Waiting("EVAL_EXPR") = 0 /\ Waiting("compare") = 0 /\ Waiting("close") = 0
  /\ Waiting("ev_additive") = 1 /\ Waiting("ev_loop") = 1 /\ \A o \in Comparisons : Waiting(o) = 1
  /\ Waiting("ev_term") = 2 /\ Waiting("et_loop") = 2 /\ Waiting("+") = 2 /\ Waiting("-") = 2
  /\ Waiting("ev_unary") = 3 /\ Waiting("ev_primary") = 3 /\ Waiting("negate") = 3
  /\ Waiting("*") = 3 /\ Waiting("/") = 3
<1>1. \A o \in Comparisons : o \notin {"EVAL_EXPR", "compare", "close"}
  BY DEF Comparisons
<1>2. \A o \in Comparisons : Waiting(o) = 1
  BY <1>1 DEF Waiting
<1>3. \A l \in {"EVAL_EXPR", "compare", "close", "ev_additive", "ev_loop", "ev_term", "et_loop", "+", "-",
                "ev_unary", "ev_primary", "negate", "*", "/"} : l \notin Comparisons
  BY DEF Comparisons
<1> QED BY <1>2, <1>3 DEF Waiting

(* Going down a level of the grammar.                                      *)
LEMMA DescendHolds ==
  ASSUME ParseHolds, Descend PROVE ParseHolds'
<1>1. text' = text /\ cells' = cells /\ ESTKP' = ESTKP /\ PDEPTH' = PDEPTH
  BY DEF Descend
<1>2. ASSUME NEW a, NEW l, NEW b, at = a, Jsr(l, b), Plain(a), Plain(l), Plain(b),
             Waiting(a) <= Waiting(b), Waiting(a) <= Waiting(l)
      PROVE  ParseHolds'
  <2>1. at' = l /\ returns' = <<b>> \o returns
    BY <1>2 DEF Jsr
  <2>2. <<<<a>> \o returns, ESTKP, PDEPTH>> \in Piles /\ returns \in Seq(Stops) /\ ESTKP \in Nat /\ PDEPTH \in Nat
    BY <1>2 DEF ParseHolds
  <2>3. /\ b \in Labels /\ Waiting(a) + Keeps(b) <= 3 * Nests(b) + Waiting(b)
        /\ Waiting(a) + Keeps(b) <= 3 * Nests(b) + Waiting(l)
    <3>1. Waiting(a) \in Int /\ Waiting(b) \in Int /\ Waiting(l) \in Int
      BY Counts
    <3>2. Waiting(a) + 0 <= 3 * 0 + Waiting(b) /\ Waiting(a) + 0 <= 3 * 0 + Waiting(l)
      BY <1>2, <3>1
    <3> QED BY <1>2, <3>2 DEF Plain
  <2>4. /\ <<b>> \o returns \in Seq(Stops)
        /\ <<<<l>> \o (<<b>> \o returns), ESTKP + Keeps(b), PDEPTH + Nests(b)>> \in Piles
    BY <1>2, <2>2, <2>3, Calls
  <2>5. ESTKP + Keeps(b) = ESTKP /\ PDEPTH + Nests(b) = PDEPTH
    BY <1>2, <2>2 DEF Plain
  <2>6. l \in Stops
    BY <1>2, LabelsAre DEF Plain
  <2> QED BY <1>1, <2>1, <2>4, <2>5, <2>6 DEF ParseHolds
<1>3. CASE at = "EVAL_EXPR" /\ Jsr("ev_additive", "compare")
  BY <1>2, <1>3, Routines, Ranks
<1>4. CASE at = "ev_additive" /\ Jsr("ev_term", "ev_loop")
  BY <1>2, <1>4, Routines, Ranks
<1>5. CASE at = "ev_term" /\ Jsr("ev_unary", "et_loop")
  BY <1>2, <1>5, Routines, Ranks
<1> QED BY <1>3, <1>4, <1>5 DEF Descend

(* The operator a level knows, and what its entry has room for.            *)
LEMMA OperatorsHere ==
  ASSUME OperatorHere # ""
  PROVE  /\ at = "ev_loop" => OperatorHere \in {"+", "-"}
         /\ at = "et_loop" => OperatorHere \in {"*", "/"}
         /\ at = "compare" => OperatorHere \in Comparisons
<1>1. at = "ev_loop" => OperatorHere \in {"+", "-"}
  BY DEF OperatorHere
<1>2. at = "et_loop" => OperatorHere \in {"*", "/"}
  BY DEF OperatorHere
<1>3. at = "compare" => OperatorHere \in Comparisons
  BY DEF OperatorHere, Comparisons
<1> QED BY <1>1, <1>2, <1>3

(* What a level does about its operator, or when there is none.            *)
LEMMA LevelHolds ==
  ASSUME ParseHolds, Level PROVE ParseHolds'
<1>1. PDEPTH' = PDEPTH /\ at \in {"ev_loop", "et_loop", "compare"}
  BY DEF Level, Operand
<1>2. <<<<at>> \o returns, ESTKP, PDEPTH>> \in Piles /\ returns \in Seq(Stops) /\ ESTKP \in Nat /\ PDEPTH \in Nat
  BY DEF ParseHolds
<1>3. Plain(at)
  BY <1>1, Routines
<1>4. CASE OperatorHere = ""
  <2>1. at' = Head(returns) /\ returns' = Tail(returns) /\ text' = text /\ cells' = cells /\ ESTKP' = ESTKP
    BY <1>4 DEF Level, Rts
  <2>2. /\ Head(returns) \in Stops /\ Tail(returns) \in Seq(Stops)
        /\ <<<<Head(returns)>> \o Tail(returns), ESTKP - Keeps(at), PDEPTH - Nests(at)>> \in Piles
    BY <1>2, <1>3, Returns DEF Plain
  <2>3. ESTKP - Keeps(at) = ESTKP /\ PDEPTH - Nests(at) = PDEPTH
    BY <1>2, <1>3 DEF Plain
  <2> QED BY <1>1, <2>1, <2>2, <2>3 DEF ParseHolds
<1>5. CASE OperatorHere # ""
  <2> DEFINE o == OperatorHere
             l == Operand[at]
  <2>1. /\ ev_push /\ at' = l /\ returns' = <<o>> \o returns
        /\ text' = SubSeq(text, (IF o \in {"<>", "<=", ">="} THEN 2 ELSE 1) + 1, Len(text))
    BY <1>5 DEF Level, Jsr, Skip
  <2>2. text' \in Seq(STRING)
    <3> DEFINE n == IF o \in {"<>", "<=", ">="} THEN 2 ELSE 1
    <3>1. n \in Nat /\ text \in Seq(STRING) /\ text' = SubSeq(text, n + 1, Len(text))
      BY <2>1 DEF ParseHolds
    <3> HIDE DEF n
    <3> QED BY <3>1, Skipped
  <2>3. cells' \in [Cell -> Words] /\ ESTKP' = ESTKP + 1
    BY <2>1, CellsAre DEF ev_push, ParseHolds
  <2>4. o \in Operators /\ Plain(l) /\ Waiting(at) + 1 <= Waiting(o) /\ Waiting(at) + 1 <= Waiting(l)
    <3>1. CASE at = "ev_loop"
      <4>1. o \in {"+", "-"} /\ l = "ev_term"
        BY <1>5, <3>1, OperatorsHere DEF Operand
      <4>2. o \in Operators
        BY <4>1 DEF Operators
      <4> QED BY <3>1, <4>1, <4>2, Routines, Ranks
    <3>2. CASE at = "et_loop"
      <4>1. o \in {"*", "/"} /\ l = "ev_unary"
        BY <1>5, <3>2, OperatorsHere DEF Operand
      <4>2. o \in Operators
        BY <4>1 DEF Operators
      <4> QED BY <3>2, <4>1, <4>2, Routines, Ranks
    <3>3. CASE at = "compare"
      <4>1. o \in Comparisons /\ l = "ev_additive"
        BY <1>5, <3>3, OperatorsHere DEF Operand
      <4>2. o \in Operators
        BY <4>1 DEF Operators
      <4> QED BY <3>3, <4>1, <4>2, Routines, Ranks
    <3> QED BY <1>1, <3>1, <3>2, <3>3
  <2> HIDE DEF o, l
  <2>5. o \in Labels /\ Keeps(o) = 1 /\ Nests(o) = 0
    BY <2>4, Routines
  <2>6. /\ Waiting(at) + Keeps(o) <= 3 * Nests(o) + Waiting(o)
        /\ Waiting(at) + Keeps(o) <= 3 * Nests(o) + Waiting(l)
    <3>1. Waiting(at) \in Int /\ Waiting(o) \in Int /\ Waiting(l) \in Int
      BY Counts
    <3> QED BY <2>4, <2>5, <3>1
  <2>7. /\ <<o>> \o returns \in Seq(Stops)
        /\ <<<<l>> \o (<<o>> \o returns), ESTKP + Keeps(o), PDEPTH + Nests(o)>> \in Piles
    BY <1>2, <1>3, <2>4, <2>5, <2>6, Calls
  <2>8. ESTKP + Keeps(o) = ESTKP' /\ PDEPTH + Nests(o) = PDEPTH' /\ ESTKP' \in Nat /\ l \in Stops
    BY <1>1, <1>2, <2>3, <2>4, <2>5, LabelsAre DEF Plain
  <2>9. at' = l /\ returns' = <<o>> \o returns
    BY <2>1
  <2>10. PDEPTH' \in Nat /\ PDEPTH' < DEPTH
    BY <1>1 DEF ParseHolds
  <2> QED BY <2>2, <2>3, <2>7, <2>8, <2>9, <2>10 DEF ParseHolds
<1> QED BY <1>4, <1>5

(* An operator finds its left operand on the value stack, inside the words *)
(* of the evaluator, and takes it off.                                     *)
LEMMA CombineHolds ==
  ASSUME ParseHolds, Combine PROVE ParseHolds'
<1>1. text' = text /\ PDEPTH' = PDEPTH /\ at \in Operators /\ ESTKP' = ESTKP - 1
  BY DEF Combine
<1>2. <<<<at>> \o returns, ESTKP, PDEPTH>> \in Piles /\ returns \in Seq(Stops) /\ ESTKP \in Nat /\ PDEPTH \in Nat
  BY DEF ParseHolds
<1>3. at \in Labels /\ Keeps(at) = 1 /\ Nests(at) = 0
  BY <1>1, Routines
<1>4. ESTKP - 1 \in Nat /\ ESTKP <= 3 * PDEPTH + Waiting(at)
  <2>1. at # "done"
    BY <1>3, LabelsAre
  <2>2. at \in Stops
    BY DEF ParseHolds
  <2> QED BY <1>2, <1>3, <2>1, <2>2, Pop
<1>5. ESTKP - 1 \in Cell
  <2>1. PDEPTH + 1 <= DEPTH /\ DEPTH \in Nat
    BY <1>2, ExpressionAssumption DEF ParseHolds
  <2>2. Waiting(at) \in 0 .. 3
    BY Counts
  <2>3. ESTKP - 1 <= 3 * DEPTH
    BY <1>2, <1>4, <2>1, <2>2
  <2> QED BY <1>4, <2>3, CellsAre
<1> DEFINE l == Left
           r == cells[AR]
           With(res, a2, a4) == [cells EXCEPT ![AR2] = a2, ![AR4] = a4, ![AR] = res]
<1>6. l \in Words /\ r \in Words /\ cells[AR4] \in Words /\ cells \in [Cell -> Words]
  BY <1>5, CellsAre DEF Left, ParseHolds
<1>7. ASSUME NEW x \in Words, NEW y \in Words, NEW z \in Words PROVE With(x, y, z) \in [Cell -> Words]
  BY <1>6, <1>7
<1>8. /\ (l + r) % WORD \in Words /\ (l + Neg(r)) % WORD \in Words /\ Mul(l, r) \in Words /\ 0 \in Words
      /\ (r # 0 => Div(l, r) \in Words /\ Abs(l) \div Abs(r) \in Words)
      /\ Compared(at, l, r) \in Words
  <2> HIDE DEF l, r
  <2>1. l \in Int /\ r \in Int /\ Neg(r) \in Int /\ 0 \in Words
    BY <1>6, NegIsWord, WordsAreInt
  <2>2. (l + r) % WORD \in Words /\ (l + Neg(r)) % WORD \in Words
    BY <2>1, Modulo
  <2>3. Mul(l, r) \in Words
    BY <1>6, MulIsWord
  <2>4. r # 0 => Div(l, r) \in Words /\ Abs(l) \div Abs(r) \in Words
    BY <1>6, DivIsWord
  <2>5. Compared(at, l, r) \in Words
    BY ComparedIsWord
  <2> QED BY <2>1, <2>2, <2>3, <2>4, <2>5
<1>9. cells' \in [Cell -> Words]
  <2>1. cells' = CASE at = "+" -> With((l + r) % WORD, l, cells[AR4])
                   [] at = "-" -> With((l + Neg(r)) % WORD, l, cells[AR4])
                   [] at = "*" -> With(Mul(l, r), 0, Mul(l, r))
                   [] at = "/" /\ r = 0 -> With(0, l, cells[AR4])
                   [] at = "/" /\ r # 0 -> With(Div(l, r), 0, Abs(l) \div Abs(r))
                   [] OTHER -> With(Compared(at, l, r), l, cells[AR4])
    BY DEF Combine
  <2> HIDE DEF With, l, r
  <2>2. CASE at = "+"
    BY <1>6, <1>7, <1>8, <2>1, <2>2
  <2>3. CASE at = "-"
    BY <1>6, <1>7, <1>8, <2>1, <2>3
  <2>4. CASE at = "*"
    BY <1>6, <1>7, <1>8, <2>1, <2>4
  <2>5. CASE at = "/" /\ r = 0
    BY <1>6, <1>7, <1>8, <2>1, <2>5
  <2>6. CASE at = "/" /\ r # 0
    BY <1>6, <1>7, <1>8, <2>1, <2>6
  <2>7. CASE at \notin {"+", "-", "*", "/"}
    BY <1>6, <1>7, <1>8, <2>1, <2>7
  <2> QED BY <2>2, <2>3, <2>4, <2>5, <2>6, <2>7
<1>10. PDEPTH' \in Nat /\ PDEPTH' < DEPTH /\ ESTKP' \in Nat /\ text' \in Seq(STRING)
  BY <1>1, <1>4 DEF ParseHolds
<1>11. ASSUME NEW b, at' = b, returns' = returns, Plain(b), Waiting(at) <= Waiting(b) + 1
       PROVE  ParseHolds'
  <2>1. <<<<b>> \o returns, ESTKP - Keeps(at), PDEPTH>> \in Piles
    BY <1>2, <1>3, <1>11, Jumps
  <2>2. b \in Stops
    BY <1>11, LabelsAre DEF Plain
  <2>3. <<<<at'>> \o returns', ESTKP', PDEPTH'>> \in Piles
    BY <1>1, <1>3, <1>11, <2>1
  <2>4. at' \in Stops /\ returns' \in Seq(Stops)
    BY <1>2, <1>11, <2>2
  <2> QED BY <1>9, <1>10, <2>3, <2>4 DEF ParseHolds
<1>12. CASE at \in {"+", "-"} /\ at' = "ev_loop" /\ UNCHANGED returns
  BY <1>11, <1>12, Routines, Ranks
<1>13. CASE at \in {"*", "/"} /\ at' = "et_loop" /\ UNCHANGED returns
  BY <1>11, <1>13, Routines, Ranks
<1>14. CASE at \in Comparisons /\ Rts
  <2>1. at' = Head(returns) /\ returns' = Tail(returns)
    BY <1>14 DEF Rts
  <2>2. /\ Head(returns) \in Stops /\ Tail(returns) \in Seq(Stops)
        /\ <<<<Head(returns)>> \o Tail(returns), ESTKP - Keeps(at), PDEPTH - Nests(at)>> \in Piles
    BY <1>2, <1>3, Returns
  <2>3. ESTKP - Keeps(at) = ESTKP' /\ PDEPTH - Nests(at) = PDEPTH'
    BY <1>1, <1>2, <1>3
  <2> QED BY <1>9, <1>10, <2>1, <2>2, <2>3 DEF ParseHolds
<1> QED BY <1>12, <1>13, <1>14 DEF Combine

(* A sign, or none.                                                        *)
LEMMA UnaryHolds ==
  ASSUME ParseHolds, ev_unary PROVE ParseHolds'
<1>1. cells' = cells /\ ESTKP' = ESTKP /\ PDEPTH' = PDEPTH /\ at = "ev_unary"
  BY DEF ev_unary
<1>2. <<<<at>> \o returns, ESTKP, PDEPTH>> \in Piles /\ returns \in Seq(Stops) /\ ESTKP \in Nat /\ PDEPTH \in Nat
      /\ text \in Seq(STRING)
  BY DEF ParseHolds
<1>3. Plain("ev_unary") /\ Plain("ev_primary") /\ Plain("negate") /\ "ev_unary" \in Labels /\ "negate" \in Labels
      /\ "ev_primary" \in Stops /\ Keeps("ev_unary") = 0 /\ Nests("ev_unary") = 0
      /\ Keeps("negate") = 0 /\ Nests("negate") = 0
  BY Routines, LabelsAre DEF Plain
<1>4. CASE Skip(1) /\ Jsr("ev_primary", "negate")
  <2>1. at' = "ev_primary" /\ returns' = <<"negate">> \o returns /\ text' = SubSeq(text, 1 + 1, Len(text))
    BY <1>4 DEF Skip, Jsr
  <2>2. text' \in Seq(STRING)
    BY <1>2, <2>1, Skipped
  <2>3. /\ Waiting("ev_unary") + Keeps("negate") <= 3 * Nests("negate") + Waiting("negate")
        /\ Waiting("ev_unary") + Keeps("negate") <= 3 * Nests("negate") + Waiting("ev_primary")
    BY <1>3, Ranks
  <2>4. /\ <<"negate">> \o returns \in Seq(Stops)
        /\ <<<<"ev_primary">> \o (<<"negate">> \o returns), ESTKP + Keeps("negate"), PDEPTH + Nests("negate")>> \in Piles
    BY <1>1, <1>2, <1>3, <2>3, Calls
  <2>5. ESTKP + Keeps("negate") = ESTKP /\ PDEPTH + Nests("negate") = PDEPTH
    BY <1>2, <1>3
  <2> QED BY <1>1, <1>3, <2>1, <2>2, <2>4, <2>5 DEF ParseHolds
<1>5. CASE at' = "ev_primary" /\ UNCHANGED <<text, returns>>
  <2>1. Waiting("ev_unary") <= Waiting("ev_primary") + Keeps("ev_unary")
    BY <1>3, Ranks
  <2>2. <<<<"ev_primary">> \o returns, ESTKP - Keeps("ev_unary"), PDEPTH>> \in Piles
    BY <1>1, <1>2, <1>3, <2>1, Jumps
  <2>3. ESTKP - Keeps("ev_unary") = ESTKP
    BY <1>2, <1>3
  <2> QED BY <1>1, <1>3, <1>5, <2>2, <2>3 DEF ParseHolds
<1> QED BY <1>4, <1>5 DEF ev_unary

(* Returning from a routine that keeps nothing.                            *)
LEMMA PlainReturn ==
  ASSUME ParseHolds, Rts, Plain(at), ESTKP' = ESTKP, PDEPTH' = PDEPTH,
         text' \in Seq(STRING), cells' \in [Cell -> Words]
  PROVE  ParseHolds'
<1>1. at' = Head(returns) /\ returns' = Tail(returns)
  BY DEF Rts
<1>2. <<<<at>> \o returns, ESTKP, PDEPTH>> \in Piles /\ returns \in Seq(Stops) /\ ESTKP \in Nat /\ PDEPTH \in Nat
      /\ PDEPTH < DEPTH
  BY DEF ParseHolds
<1>3. /\ Head(returns) \in Stops /\ Tail(returns) \in Seq(Stops)
      /\ <<<<Head(returns)>> \o Tail(returns), ESTKP - Keeps(at), PDEPTH - Nests(at)>> \in Piles
  BY <1>2, Returns DEF Plain
<1>4. ESTKP - Keeps(at) = ESTKP /\ PDEPTH - Nests(at) = PDEPTH
  BY <1>2 DEF Plain
<1>5. <<<<at'>> \o returns', ESTKP', PDEPTH'>> \in Piles
  BY <1>1, <1>3, <1>4
<1> QED BY <1>1, <1>2, <1>3, <1>5 DEF ParseHolds

(* The sign is applied.                                                    *)
LEMMA NegateHolds ==
  ASSUME ParseHolds, Negate PROVE ParseHolds'
<1>1. at = "negate" /\ Rts /\ text' = text /\ ESTKP' = ESTKP /\ PDEPTH' = PDEPTH
      /\ cells' = [cells EXCEPT ![AR] = Neg(cells[AR])]
  BY DEF Negate
<1>2. cells' \in [Cell -> Words]
  BY <1>1, CellsAre, NegIsWord DEF ParseHolds
<1>3. Plain(at)
  BY <1>1, Routines
<1>4. text' \in Seq(STRING)
  BY <1>1 DEF ParseHolds
<1> QED BY <1>1, <1>2, <1>3, <1>4, PlainReturn

(* A parenthesis that closes was counted when it opened.                   *)
LEMMA CloseHolds ==
  ASSUME ParseHolds, Close PROVE ParseHolds'
<1>1. at = "close" /\ at' = Head(returns) /\ returns' = Tail(returns) /\ PDEPTH' = PDEPTH - 1
      /\ cells' = cells /\ ESTKP' = ESTKP
  BY DEF Close, Rts
<1>2. <<<<at>> \o returns, ESTKP, PDEPTH>> \in Piles /\ returns \in Seq(Stops) /\ ESTKP \in Nat /\ PDEPTH \in Nat
      /\ text \in Seq(STRING) /\ PDEPTH < DEPTH
  BY DEF ParseHolds
<1>3. "close" \in Labels /\ Keeps("close") = 0 /\ Nests("close") = 1
  BY Routines
<1>4. /\ Head(returns) \in Stops /\ Tail(returns) \in Seq(Stops)
      /\ PDEPTH - Nests("close") \in Nat
      /\ <<<<Head(returns)>> \o Tail(returns), ESTKP - Keeps("close"), PDEPTH - Nests("close")>> \in Piles
  BY <1>1, <1>2, <1>3, Returns
<1>5. ESTKP - Keeps("close") = ESTKP' /\ PDEPTH - Nests("close") = PDEPTH'
  BY <1>1, <1>2, <1>3
<1>6. text' \in Seq(STRING)
  <2>1. CASE Skip(1)
    <3>1. text' = SubSeq(text, 1 + 1, Len(text))
      BY <2>1 DEF Skip
    <3> QED BY <1>2, <3>1, Skipped
  <2>2. CASE UNCHANGED text
    BY <1>2, <2>2
  <2> QED BY <2>1, <2>2 DEF Close
<1>7. PDEPTH' \in Nat /\ PDEPTH' < DEPTH
  <2>1. DEPTH \in Nat
    BY ExpressionAssumption
  <2> QED BY <1>1, <1>2, <1>4, <1>5, <2>1
<1>8. <<<<at'>> \o returns', ESTKP', PDEPTH'>> \in Piles
  BY <1>1, <1>4, <1>5
<1> QED BY <1>1, <1>4, <1>6, <1>7, <1>8 DEF ParseHolds

(* Where digits end.                                                       *)
LEMMA Numerals ==
  ASSUME NEW s \in Seq(STRING), s # <<>>, IsDigit(Head(s))
  PROVE  \E k \in 1 .. Len(s) : /\ \A i \in 1 .. k : IsDigit(s[i])
                                /\ k < Len(s) => ~IsDigit(s[k + 1])
<1> DEFINE K == {k \in 1 .. Len(s) : k = Len(s) \/ ~IsDigit(s[k + 1])}
<1>1. Len(s) \in Nat /\ Len(s) >= 1
  <2>1. Len(s) \in Nat /\ Len(s) # 0
    BY EmptySeq
  <2> QED BY <2>1
<1>2. K \subseteq Nat /\ Len(s) \in K
  <2>1. 1 .. Len(s) \subseteq Nat /\ Len(s) \in 1 .. Len(s)
    BY <1>1
  <2> QED BY <2>1
<1>3. PICK k \in K : \A j \in K : k <= j
  <2> HIDE DEF K
  <2>1. K # {}
    BY <1>2
  <2> QED BY <1>2, <2>1, Least
<1>4. k \in 1 .. Len(s) /\ (k = Len(s) \/ ~IsDigit(s[k + 1]))
  BY <1>3
<1>5. ASSUME NEW i \in 1 .. k PROVE IsDigit(s[i])
  <2>1. i \in Int /\ 1 <= i /\ i <= k /\ k <= Len(s)
    BY <1>1, <1>4
  <2>2. CASE i = 1
    <3>1. Head(s) = s[1]
      OBVIOUS
    <3> QED BY <2>2, <3>1
  <2>3. CASE i # 1
    <3>1. i - 1 \in 1 .. Len(s) /\ ~(k <= i - 1) /\ (i - 1) + 1 = i
      BY <1>1, <1>4, <2>1, <2>3
    <3>2. i - 1 \notin K
      BY <1>3, <3>1
    <3>3. IsDigit(s[(i - 1) + 1])
      BY <3>1, <3>2
    <3> QED BY <3>1, <3>3
  <2> QED BY <2>2, <2>3
<1>6. k < Len(s) => ~IsDigit(s[k + 1])
  BY <1>1, <1>4
<1> QED BY <1>4, <1>5, <1>6

(* A digit is a number.                                                    *)
LEMMA DigitIs ==
  ASSUME NEW c, IsDigit(c)
  PROVE  Digit(c) \in Int
<1>1. \E d \in 1 .. 10 : Digits[d] = c
  BY DEF IsDigit
<1> DEFINE e == CHOOSE d \in 1 .. 10 : Digits[d] = c
<1>2. e \in 1 .. 10
  BY <1>1
<1>3. Digit(c) = e - 1
  BY DEF Digit
<1> HIDE DEF e
<1> QED BY <1>2, <1>3

(* A number is read into words, digit after digit.                         *)
LEMMA DecimalHolds ==
  ASSUME text \in Seq(STRING), text # <<>>, IsDigit(Head(text)), cells \in [Cell -> Words], PARSE_DEC
  PROVE  text' \in Seq(STRING) /\ cells' \in [Cell -> Words]
<1> DEFINE S == [Cell -> Words]
           n == CHOOSE k \in 1 .. Len(text) :
                  /\ \A i \in 1 .. k : IsDigit(text[i])
                  /\ k < Len(text) => ~IsDigit(text[k + 1])
           decimal(d) == [c \in S |-> [c EXCEPT ![AR2] = c[AR], ![AR4] = (2 * c[AR]) % WORD,
                                                ![AR] = (10 * c[AR] + Digit(d)) % WORD]]
           base == [cells EXCEPT ![AR] = 0]
           g == [ix \in (1 .. n) \X S |-> decimal(text[ix[1]])[ix[2]]]
           Reads(f) == f = [i \in 0 .. n |-> IF i = 0 THEN base ELSE decimal(text[i])[f[i - 1]]]
<1>1. n \in 1 .. Len(text) /\ \A i \in 1 .. n : IsDigit(text[i])
  BY Numerals
<1>2. n \in Nat
  <2> HIDE DEF n
  <2>1. Len(text) \in Nat
    BY LenProperties
  <2> QED BY <1>1, <2>1
<1> HIDE DEF n
<1>3. base \in S
  BY CellsAre, WordsAreInt
<1>4. ASSUME NEW i \in 1 .. n, NEW c \in S PROVE decimal(text[i])[c] \in S
  <2>1. Digit(text[i]) \in Int /\ c[AR] \in Words /\ c[AR] \in Int
    BY <1>1, DigitIs, CellsAre, WordsAreInt
  <2>2. (2 * c[AR]) % WORD \in Words
    <3>1. 2 * c[AR] \in Int
      BY <2>1
    <3> QED BY <3>1, Modulo
  <2>3. (10 * c[AR] + Digit(text[i])) % WORD \in Words
    <3>1. 10 * c[AR] + Digit(text[i]) \in Int
      BY <2>1
    <3> QED BY <3>1, Modulo
  <2>4. decimal(text[i])[c] = [c EXCEPT ![AR2] = c[AR], ![AR4] = (2 * c[AR]) % WORD,
                                        ![AR] = (10 * c[AR] + Digit(text[i])) % WORD]
    OBVIOUS
  <2> HIDE DEF decimal
  <2> QED BY <2>1, <2>2, <2>3, <2>4
<1> HIDE DEF decimal, base, S
<1>5. \E f : Reads(f) /\ f[n] \in S /\ cells' = f[n]
  <2>1. g \in [(1 .. n) \X S -> S]
    BY <1>4
  <2>2. PICK f : Course(f, n, S, base, g)
    BY <1>2, <1>3, <2>1, Iterates
  <2>3. \A i \in 1 .. n : i - 1 \in 0 .. n
    BY <1>2
  <2>4. \A i \in 1 .. n : f[i] = decimal(text[i])[f[i - 1]]
    BY <2>2, <2>3 DEF Course
  <2>5. f \in [0 .. n -> S] /\ f[0] = base
    BY <2>2 DEF Course
  <2>6. Reads(f)
    <3>1. \A i \in 0 .. n : i # 0 => i \in 1 .. n
      BY <1>2
    <3> QED BY <2>4, <2>5, <3>1
  <2>7. \E h : Reads(h) /\ cells' = h[n]
    BY <2>6 DEF PARSE_DEC, n, decimal, base, S
  <2>8. PICK h : Reads(h) /\ cells' = h[n]
    BY <2>7
  <2>9. h[0] = base /\ \A i \in 1 .. n : h[i] = decimal(text[i])[h[i - 1]]
    <3>1. \A i \in 0 .. n : h[i] = IF i = 0 THEN base ELSE decimal(text[i])[h[i - 1]]
      BY <2>8
    <3>2. 0 \in 0 .. n /\ \A i \in 1 .. n : i \in 0 .. n /\ i # 0
      BY <1>2
    <3> QED BY <3>1, <3>2
  <2> DEFINE T == {i \in 0 .. n : h[i] \in S}
  <2>10. 0 \in T
    BY <1>2, <1>3, <2>9
  <2>11. \A i \in 1 .. n : i - 1 \in T => i \in T
    <3>1. \A i \in 1 .. n : i \in 0 .. n
      BY <1>2
    <3> QED BY <1>4, <2>9, <3>1
  <2>12. n \in T
    <3> HIDE DEF T
    <3>1. 0 .. n \subseteq T
      BY <1>2, <2>10, <2>11, AllTurns
    <3> QED BY <1>2, <3>1
  <2> QED BY <2>8, <2>12
<1>6. cells' \in [Cell -> Words]
  BY <1>5 DEF S
<1>7. text' \in Seq(STRING)
  <2>1. text' = SubSeq(text, n + 1, Len(text))
    BY DEF PARSE_DEC, Skip, n
  <2> QED BY <1>2, <2>1, Skipped
<1> QED BY <1>6, <1>7

(* A primary: only a parenthesis opens a level, and only one that may.     *)
LEMMA PrimaryHolds ==
  ASSUME ParseHolds, var \in [Letters -> Words], ev_primary(var)
  PROVE  ParseHolds'
<1>1. at = "ev_primary" /\ ESTKP' = ESTKP
  BY DEF ev_primary
<1>2. <<<<at>> \o returns, ESTKP, PDEPTH>> \in Piles /\ returns \in Seq(Stops) /\ ESTKP \in Nat /\ PDEPTH \in Nat
      /\ text \in Seq(STRING) /\ cells \in [Cell -> Words]
  BY DEF ParseHolds
<1>3. Plain(at)
  BY <1>1, Routines
<1>4. ASSUME Peek = "(", PDEPTH + 1 < DEPTH, Skip(1), PDEPTH' = PDEPTH + 1, Jsr("EVAL_EXPR", "close"),
             UNCHANGED cells
      PROVE  ParseHolds'
  <2>1. at' = "EVAL_EXPR" /\ returns' = <<"close">> \o returns /\ text' = SubSeq(text, 1 + 1, Len(text))
        /\ cells' = cells
    BY <1>4 DEF Skip, Jsr
  <2>2. text' \in Seq(STRING)
    BY <1>2, <2>1, Skipped
  <2>3. Plain("EVAL_EXPR") /\ "EVAL_EXPR" \in Stops /\ "close" \in Labels /\ Keeps("close") = 0 /\ Nests("close") = 1
    BY Routines, LabelsAre DEF Plain
  <2>4. /\ Waiting(at) + Keeps("close") <= 3 * Nests("close") + Waiting("close")
        /\ Waiting(at) + Keeps("close") <= 3 * Nests("close") + Waiting("EVAL_EXPR")
    BY <1>1, <2>3, Ranks
  <2>5. /\ <<"close">> \o returns \in Seq(Stops)
        /\ <<<<"EVAL_EXPR">> \o (<<"close">> \o returns), ESTKP + Keeps("close"), PDEPTH + Nests("close")>> \in Piles
    BY <1>2, <1>3, <2>3, <2>4, Calls
  <2>6. ESTKP + Keeps("close") = ESTKP' /\ PDEPTH + Nests("close") = PDEPTH' /\ PDEPTH' \in Nat /\ PDEPTH' < DEPTH
    BY <1>1, <1>2, <1>4, <2>3
  <2> QED BY <1>1, <1>2, <2>1, <2>2, <2>3, <2>5, <2>6 DEF ParseHolds
<1>5. ASSUME Rts, PDEPTH' = PDEPTH, text' \in Seq(STRING), cells' \in [Cell -> Words] PROVE ParseHolds'
  BY <1>1, <1>3, <1>5, PlainReturn
<1>6. ASSUME text' = <<>>, cells' = [cells EXCEPT ![AR] = 0], Rts, UNCHANGED PDEPTH PROVE ParseHolds'
  <2>1. text' \in Seq(STRING) /\ cells' \in [Cell -> Words]
    BY <1>2, <1>6, CellsAre, WordsAreInt
  <2> QED BY <1>5, <1>6, <2>1
<1>7. ASSUME IsDigit(Peek), PARSE_DEC, Rts, UNCHANGED PDEPTH PROVE ParseHolds'
  <2>1. ~IsDigit("")
    BY DEF IsDigit, Digits
  <2>2. text # <<>> /\ IsDigit(Head(text))
    BY <1>7, <2>1 DEF Peek
  <2>3. text' \in Seq(STRING) /\ cells' \in [Cell -> Words]
    BY <1>2, <1>7, <2>2, DecimalHolds
  <2> QED BY <1>5, <1>7, <2>3
<1>8. ASSUME Peek \in Letters, Skip(1), cells' = [cells EXCEPT ![AR] = var[Peek]], Rts, UNCHANGED PDEPTH
      PROVE  ParseHolds'
  <2>1. text' = SubSeq(text, 1 + 1, Len(text))
    BY <1>8 DEF Skip
  <2>2. text' \in Seq(STRING)
    BY <1>2, <2>1, Skipped
  <2>3. cells' \in [Cell -> Words]
    BY <1>2, <1>8, CellsAre
  <2> QED BY <1>5, <1>8, <2>2, <2>3
<1>9. ASSUME cells' = [cells EXCEPT ![AR] = 0], Rts, UNCHANGED <<text, PDEPTH>> PROVE ParseHolds'
  <2>1. text' \in Seq(STRING) /\ cells' \in [Cell -> Words]
    BY <1>2, <1>9, CellsAre, WordsAreInt
  <2> QED BY <1>5, <1>9, <2>1
<1> QED BY <1>4, <1>6, <1>7, <1>8, <1>9 DEF ev_primary

(* A step of the parse, whichever it is.                                   *)
LEMMA EvalStepHolds ==
  ASSUME ParseHolds, var \in [Letters -> Words], EvalStep(var)
  PROVE  ParseHolds'
BY DescendHolds, LevelHolds, CombineHolds, UnaryHolds, NegateHolds, PrimaryHolds, CloseHolds DEF EvalStep

(* A parse begins with nothing on the value stack, and ends so.            *)
LEMMA StartHolds ==
  ASSUME NEW s \in Seq(STRING), Start(s), ESTKP = 0
  PROVE  ParseHolds'
<1>1. text' = s /\ PDEPTH' = 0 /\ at' = "EVAL_EXPR" /\ returns' = <<"done">> /\ cells' = Clear /\ ESTKP' = 0
  BY DEF Start
<1>2. cells' \in [Cell -> Words]
  BY <1>1, WordsAreInt DEF Clear
<1>3. Plain("EVAL_EXPR") /\ "EVAL_EXPR" \in Stops /\ Waiting("EVAL_EXPR") = 0
  BY Routines, LabelsAre, Ranks DEF Plain
<1>4. <<<<"done">>, 0, 0>> \in Piles /\ <<"done">> \in Seq(Stops)
  BY PilesClosed, AtTheEnd DEF Closed
<1>5. Fits("EVAL_EXPR", 0, 0) /\ Keeps("EVAL_EXPR") = 0 /\ Nests("EVAL_EXPR") = 0
  BY <1>3 DEF Fits, Plain
<1>6. <<<<"EVAL_EXPR">> \o <<"done">>, 0 + Keeps("EVAL_EXPR"), 0 + Nests("EVAL_EXPR")>> \in Piles
  BY <1>4, <1>5, Push
<1>7. <<<<"EVAL_EXPR">> \o <<"done">>, 0, 0>> \in Piles
  BY <1>5, <1>6
<1>8. 0 \in Nat /\ 0 < DEPTH
  BY ExpressionAssumption
<1> QED BY <1>1, <1>2, <1>3, <1>4, <1>7, <1>8 DEF ParseHolds

(* At the end of an expression nothing is left on either stack.            *)
LEMMA DoneHolds ==
  ASSUME ParseHolds, at = "done"
  PROVE  ESTKP = 0 /\ PDEPTH = 0 /\ returns = <<>>
<1>1. at \in Stops /\ at \notin Labels
  BY LabelsAre DEF Stops
<1>2. <<<<at>> \o returns, ESTKP, PDEPTH>> \in Piles /\ returns \in Seq(Stops)
  BY DEF ParseHolds
<1>3. ASSUME NEW a \in Stops, a \notin Labels, <<<<a>> \o returns, ESTKP, PDEPTH>> \in Piles
      PROVE  ESTKP = 0 /\ PDEPTH = 0 /\ returns = <<>>
  <2>1. \/ a = "done" /\ returns = <<>> /\ ESTKP = 0 /\ PDEPTH = 0
        \/ a \in Labels
    BY <1>2, <1>3, Pop, Zenon
  <2> QED BY <1>3, <2>1
<1> QED BY <1>1, <1>2, <1>3

(* Three entries for every level that is open.                             *)
LEMMA LevelsHold ==
  ASSUME ParseHolds PROVE ESTKP <= 3 * (PDEPTH + 1)
<1>1. /\ at \in Stops /\ returns \in Seq(Stops) /\ ESTKP \in Nat /\ PDEPTH \in Nat
      /\ <<<<at>> \o returns, ESTKP, PDEPTH>> \in Piles
  BY DEF ParseHolds
<1>2. ESTKP = 0 \/ ESTKP <= 3 * PDEPTH + Waiting(at)
  BY <1>1, Pop
<1> DEFINE w == Waiting(at)
<1>3. w \in 0 .. 3
  BY Counts
<1> HIDE DEF w
<1>4. ESTKP = 0 \/ ESTKP <= 3 * PDEPTH + w
  BY <1>2 DEF w
<1> QED BY <1>1, <1>3, <1>4

-----------------------------------------------------------------------------
(* The return addresses of EXEC_STMT. *)

(* The prompt is at the bottom, and the loop everywhere above it.          *)
CallsFit(c) ==
  /\ c \in Seq({"REPL", "executed"})
  /\ \A i \in 1 .. Len(c) : c[i] = "REPL" <=> i = Len(c)

(* From the prompt.                                                        *)
LEMMA CalledFromPrompt == CallsFit(<<>>) /\ CallsFit(<<"REPL">>) /\ <<"REPL">> # <<>> /\ <<"REPL">> \o <<>> = <<"REPL">>
<1>1. <<"REPL">> \in Seq({"REPL", "executed"}) /\ Len(<<"REPL">>) = 1 /\ <<"REPL">>[1] = "REPL"
  BY Single
<1>2. CallsFit(<<"REPL">>)
  BY <1>1 DEF CallsFit
<1>3. CallsFit(<<>>)
  BY DEF CallsFit
<1> QED BY <1>2, <1>3

(* From the loop.                                                          *)
LEMMA CalledFromLoop ==
  ASSUME NEW c, CallsFit(c), c # <<>>
  PROVE  LET d == <<"executed">> \o c IN CallsFit(d) /\ d # <<>> /\ Head(d) = "executed"
<1> DEFINE f == <<"executed">>
           d == f \o c
           S == {"REPL", "executed"}
<1>1. f \in Seq(S) /\ Len(f) = 1 /\ f[1] = "executed"
  BY Single
<1>2. c \in Seq(S) /\ Len(c) \in Nat /\ Len(c) # 0
  BY EmptySeq, LenProperties DEF CallsFit
<1> HIDE DEF f
<1>3. /\ d \in Seq(S) /\ Len(d) = 1 + Len(c)
      /\ \A i \in 1 .. 1 + Len(c) : d[i] = IF i <= 1 THEN f[i] ELSE c[i - 1]
  <2>1. /\ d \in Seq(S) /\ Len(d) = Len(f) + Len(c)
        /\ \A i \in 1 .. Len(f) + Len(c) : d[i] = IF i <= Len(f) THEN f[i] ELSE c[i - Len(f)]
    BY <1>1, <1>2, ConcatProperties
  <2> HIDE DEF d
  <2> QED BY <1>1, <2>1
<1>4. ASSUME NEW i \in 1 .. Len(d) PROVE d[i] = "REPL" <=> i = Len(d)
  <2>1. CASE i = 1
    BY <1>1, <1>2, <1>3, <2>1
  <2>2. CASE i # 1
    <3>1. PICK j : j = i - 1
      OBVIOUS
    <3>2. j \in 1 .. Len(c) /\ d[i] = c[j] /\ (i = Len(d) <=> j = Len(c))
      BY <1>2, <1>3, <2>2, <3>1
    <3> QED BY <3>2 DEF CallsFit
  <2> QED BY <2>1, <2>2
<1>5. d # <<>> /\ Head(d) = "executed"
  <2>1. d[1] = "executed"
    BY <1>1, <1>2, <1>3
  <2>2. Len(d) # 0
    BY <1>2, <1>3
  <2>3. d # <<>>
    BY <2>2, EmptySeq
  <2>4. Head(d) = d[1]
    BY <1>3, <2>3, HeadTailProperties
  <2> QED BY <2>1, <2>3, <2>4
<1>6. CallsFit(d)
  <2> HIDE DEF d
  <2> QED BY <1>3, <1>4 DEF CallsFit
<1> QED BY <1>5, <1>6 DEF f

(* rts                                                                     *)
LEMMA CallReturns ==
  ASSUME NEW c, CallsFit(c), c # <<>>
  PROVE  Head(c) \in {"REPL", "executed"} /\ CallsFit(Tail(c)) /\ (Head(c) = "REPL" <=> Tail(c) = <<>>)
<1> DEFINE S == {"REPL", "executed"}
           g == Tail(c)
<1>1. c \in Seq(S) /\ Len(c) \in Nat /\ Len(c) # 0
  BY EmptySeq, LenProperties DEF CallsFit
<1>2. /\ Head(c) \in S /\ g \in Seq(S) /\ Len(g) = Len(c) - 1 /\ \A i \in 1 .. Len(g) : g[i] = c[i + 1]
  BY <1>1, HeadTailProperties
<1>3. Head(c) = c[1]
  BY <1>1
<1> HIDE DEF g
<1>4. ASSUME NEW i \in 1 .. Len(g) PROVE g[i] = "REPL" <=> i = Len(g)
  <2>1. PICK j : j = i + 1
    OBVIOUS
  <2>2. j \in 1 .. Len(c) /\ g[i] = c[j] /\ (i = Len(g) <=> j = Len(c))
    BY <1>1, <1>2, <2>1
  <2> QED BY <2>2 DEF CallsFit
<1>5. CallsFit(g)
  BY <1>2, <1>4 DEF CallsFit
<1>6. Head(c) = "REPL" <=> Len(g) = 0
  BY <1>1, <1>2, <1>3 DEF CallsFit
<1>7. Len(g) = 0 <=> g = <<>>
  BY <1>2, EmptySeq
<1> QED BY <1>2, <1>5, <1>6, <1>7 DEF g

-----------------------------------------------------------------------------
(* The interpreter: its inductive invariant. *)

OnRecord == EPTR \in Starts(mem, PEND)

(* The store, whatever has been entered, deleted or run.                   *)
StoreHolds == Whole(mem, PEND) /\ EPTR \in Nat

Flags == /\ RUNNING \in {0, 1} /\ GOFLAG \in {0, 1} /\ pending \in BOOLEAN
         /\ var \in [Letters -> Words]

CallsHold ==
  /\ pc \in {"REPL", "EXEC_STMT", "eval", "input", "run_loop", "executed"}
  /\ CallsFit(calls) /\ (pc = "REPL" <=> calls = <<>>)

(* Only the statement that was found in the store runs with RUNNING set;   *)
(* after it, the pointer is at a record, unless the statement was NEW.     *)
AfterStatement == OnRecord \/ (GOFLAG = 0 /\ PEND = PROG /\ EPTR \in PROG .. LIMIT - 3)

Stands ==
  /\ pc = "REPL" => RUNNING = 0
  /\ pc = "run_loop" => RUNNING = 1 /\ (OnRecord \/ EPTR >= PEND)
  /\ RUNNING = 1 /\ pc \in {"EXEC_STMT", "eval", "input"} =>
       Head(calls) = "executed" /\ GOFLAG = 0 /\ OnRecord
  /\ RUNNING = 1 /\ pc = "executed" => AfterStatement

StmtHolds ==
  /\ IsStatement(stmt)
  /\ pc = "input" => stmt.do = "INPUT"
  /\ pc # "eval" => at = "done"

IInv == StoreHolds /\ ParseHolds /\ Flags /\ CallsHold /\ Stands /\ StmtHolds

(* At a record there is a statement to fetch, and another record or the    *)
(* end behind it.                                                          *)
LEMMA AtRecord ==
  ASSUME Whole(mem, PEND), OnRecord
  PROVE  /\ EPTR \in PROG .. LIMIT - 3 /\ EPTR < PEND /\ mem[EPTR + 3] \in Octet
         /\ EPTR + LenAt(mem, EPTR) \in Starts(mem, PEND) \cup {PEND}
<1>1. PICK R : Chain(mem, PEND, R)
  BY DEF Whole
<1>2. Starts(mem, PEND) = R
  BY <1>1, StartsAre
<1>3. EPTR \in R
  BY <1>2 DEF OnRecord
<1>4. /\ EPTR \in Int /\ EPTR >= PROG /\ PEND \in Nat /\ EPTR + LenAt(mem, EPTR) <= PEND /\ PEND <= LIMIT
      /\ LenAt(mem, EPTR) \in Int /\ 5 <= LenAt(mem, EPTR) /\ EPTR < PEND
      /\ EPTR + LenAt(mem, EPTR) \in R \cup {PEND}
  BY <1>1, <1>3, InRecord
<1>5. EPTR \in PROG .. LIMIT - 3 /\ EPTR + 3 \in PROG .. LIMIT - 1
  BY <1>4, Sizes
<1>6. mem[EPTR + 3] \in Octet
  BY <1>1, <1>5 DEF Chain
<1> QED BY <1>2, <1>4, <1>5, <1>6

(* The end, where it is a number, and the first record or the end at PROG. *)
LEMMA TheEnd ==
  ASSUME Whole(mem, PEND)
  PROVE  PEND \in PROG .. LIMIT /\ PEND \in Int /\ PROG \in Starts(mem, PEND) \cup {PEND}
<1>1. PICK R : Chain(mem, PEND, R)
  BY DEF Whole
<1>2. Starts(mem, PEND) = R
  BY <1>1, StartsAre
<1> QED BY <1>1, <1>2, Sizes DEF Chain

(* Nothing is stored.                                                      *)
LEMMA NothingStored ==
  ASSUME NEW m \in [PROG .. LIMIT - 1 -> Octet]
  PROVE  Whole(m, PROG)
<1>1. PROG \in PROG .. LIMIT
  BY Sizes
<1>2. Chain(m, PROG, {})
  BY <1>1 DEF Chain
<1> QED BY <1>2 DEF Whole

(* The bytes of a whole store.                                             *)
LEMMA StoredBytes ==
  ASSUME NEW m, NEW pend, Whole(m, pend)
  PROVE  m \in [PROG .. LIMIT - 1 -> Octet]
BY DEF Whole, Chain

(* It holds at the start.                                                  *)
LEMMA InitHolds ==
  ASSUME Init PROVE IInv
<1>1. StoreHolds
  <2>1. mem \in [PROG .. LIMIT - 1 -> Octet] /\ PEND = PROG /\ EPTR = PROG
    <3>1. 0 \in Octet
      BY DEF Octet
    <3> QED BY <3>1 DEF Init, StoreInit
  <2> QED BY <2>1, NothingStored, Sizes DEF StoreHolds
<1>2. ParseHolds
  <2>1. /\ text = <<>> /\ cells = Clear /\ ESTKP = 0 /\ PDEPTH = 0 /\ at = "done" /\ returns = <<>>
    BY DEF Init, EvaluatorInit
  <2>2. cells \in [Cell -> Words]
    BY <2>1, WordsAreInt DEF Clear
  <2>3. "done" \in Stops /\ <<"done">> \in Seq(Stops)
    BY AtTheEnd DEF Stops
  <2>4. <<"done">> \o <<>> = <<"done">>
    BY <2>3, ConcatEmptySeq
  <2>5. <<<<"done">> \o <<>>, 0, 0>> \in Piles
    BY <2>4, PilesClosed DEF Closed
  <2>6. 0 < DEPTH
    BY ExpressionAssumption
  <2>7. text \in Seq(STRING) /\ returns \in Seq(Stops)
    BY <2>1
  <2> QED BY <2>1, <2>2, <2>3, <2>5, <2>6, <2>7 DEF ParseHolds
<1>3. Flags
  BY WordsAreInt DEF Init, Flags
<1>4. CallsHold
  BY CalledFromPrompt DEF Init, CallsHold
<1>5. Stands
  BY DEF Init, Stands
<1>6. StmtHolds
  BY DEF Init, StmtHolds, EvaluatorInit, IsStatement, Nothing, Evaluates
<1> QED BY <1>1, <1>2, <1>3, <1>4, <1>5, <1>6 DEF IInv

(* The evaluator waits.                                                    *)
LEMMA ParseRests ==
  ASSUME ParseHolds, UNCHANGED evaluator PROVE ParseHolds'
BY DEF ParseHolds, evaluator

(* What is left of the last expression is not looked at again.             *)
LEMMA Forgotten ==
  ASSUME ParseHolds, at = "done", Forget PROVE ParseHolds' /\ at' = "done"
<1>1. text' = <<>> /\ cells' = Clear /\ ESTKP' = ESTKP /\ PDEPTH' = PDEPTH /\ at' = at /\ returns' = returns
  BY DEF Forget
<1>2. cells' \in [Cell -> Words] /\ text' \in Seq(STRING)
  BY <1>1, WordsAreInt DEF Clear
<1> QED BY <1>1, <1>2 DEF ParseHolds

(* rts out of EXEC_STMT, whatever the statement has done to the store and  *)
(* to the flags.                                                           *)
LEMMA LeavesStatement ==
  ASSUME IInv, pc \in {"EXEC_STMT", "eval", "input"}, Back,
         StoreHolds', ParseHolds', Flags', at' = "done",
         RUNNING' = 1 => RUNNING = 1 /\ AfterStatement'
  PROVE  IInv'
<1>1. pc' = Head(calls) /\ calls' = Tail(calls) /\ stmt' = Nothing
  BY DEF Back
<1>2. CallsFit(calls) /\ calls # <<>>
  BY DEF IInv, CallsHold
<1>3. Head(calls) \in {"REPL", "executed"} /\ CallsFit(Tail(calls)) /\ (Head(calls) = "REPL" <=> Tail(calls) = <<>>)
  BY <1>2, CallReturns
<1>4. CallsHold'
  BY <1>1, <1>3 DEF CallsHold
<1>5. pc' = "REPL" => RUNNING' = 0
  <2>1. RUNNING' \in {0, 1}
    BY DEF Flags
  <2>2. RUNNING = 1 => Head(calls) = "executed"
    BY DEF IInv, Stands
  <2> QED BY <1>1, <2>1, <2>2
<1>6. Stands'
  BY <1>1, <1>3, <1>5 DEF Stands
<1>7. StmtHolds'
  BY <1>1, <1>3 DEF StmtHolds, IsStatement, Nothing, Evaluates
<1> QED BY <1>4, <1>6, <1>7 DEF IInv

(* rts out of the loop of a program that has stopped.                      *)
LEMMA LeavesLoop ==
  ASSUME IInv, pc \in {"run_loop", "executed"}, run_done,
         StoreHolds', Flags', UNCHANGED evaluator
  PROVE  IInv'
<1>1. pc' = Head(calls) /\ calls' = Tail(calls) /\ stmt' = Nothing /\ RUNNING' = 0
  BY DEF run_done, Back
<1>2. CallsFit(calls) /\ calls # <<>>
  BY DEF IInv, CallsHold
<1>3. Head(calls) \in {"REPL", "executed"} /\ CallsFit(Tail(calls)) /\ (Head(calls) = "REPL" <=> Tail(calls) = <<>>)
  BY <1>2, CallReturns
<1>4. CallsHold'
  BY <1>1, <1>3 DEF CallsHold
<1>5. Stands'
  BY <1>1, <1>3 DEF Stands
<1>6. StmtHolds'
  BY <1>1, <1>3 DEF StmtHolds, IsStatement, Nothing, Evaluates, IInv, evaluator
<1>7. ParseHolds'
  BY ParseRests DEF IInv
<1> QED BY <1>4, <1>5, <1>6, <1>7 DEF IInv

(* The loop fetches a statement.                                           *)
LEMMA Fetches ==
  ASSUME IInv, pc = "run_loop", ~past_end,
         GOFLAG' = 0, stmt' = Table[mem[EPTR + 3]], pc' = "EXEC_STMT", calls' = <<"executed">> \o calls,
         UNCHANGED <<RUNNING, pending, store, evaluator, var>>
  PROVE  IInv'
<1>1. UNCHANGED <<mem, PEND, EPTR>> /\ at' = at
  BY DEF store, evaluator
<1>2. Whole(mem, PEND) /\ EPTR \in Nat
  BY DEF IInv, StoreHolds
<1>3. OnRecord
  <2>1. EPTR < PEND
    BY <1>2, TheEnd DEF past_end
  <2>2. PEND \in Int
    BY <1>2, TheEnd
  <2>3. OnRecord \/ EPTR >= PEND
    BY DEF IInv, Stands
  <2> QED BY <1>2, <2>1, <2>2, <2>3
<1>4. mem[EPTR + 3] \in Octet
  BY <1>2, <1>3, AtRecord
<1>5. IsStatement(stmt')
  BY <1>4, BasicAssumption DEF Octet
<1>6. CallsFit(calls') /\ calls' # <<>> /\ Head(calls') = "executed"
  <2>1. CallsFit(calls) /\ calls # <<>>
    BY DEF IInv, CallsHold
  <2> QED BY <2>1, CalledFromLoop
<1>7. OnRecord'
  BY <1>1, <1>3 DEF OnRecord
<1>8. StoreHolds'
  BY <1>1, <1>2 DEF StoreHolds
<1>9. ParseHolds'
  BY ParseRests DEF IInv
<1>10. Flags'
  BY DEF IInv, Flags
<1>11. CallsHold'
  BY <1>6 DEF CallsHold
<1>12. Stands'
  BY <1>6, <1>7 DEF Stands
<1>13. StmtHolds'
  BY <1>1, <1>5 DEF StmtHolds, IInv
<1> QED BY <1>8, <1>9, <1>10, <1>11, <1>12, <1>13 DEF IInv

(* A record lies where it lay when nothing is stored.                      *)
LEMMA StoreRests ==
  ASSUME StoreHolds, UNCHANGED store
  PROVE  StoreHolds' /\ (OnRecord' <=> OnRecord) /\ (AfterStatement /\ GOFLAG' = GOFLAG => AfterStatement')
<1>1. mem' = mem /\ PEND' = PEND /\ EPTR' = EPTR
  BY DEF store
<1>2. StoreHolds'
  BY <1>1 DEF StoreHolds
<1>3. OnRecord' <=> OnRecord
  BY <1>1 DEF OnRecord
<1> QED BY <1>1, <1>2, <1>3 DEF AfterStatement

(* A statement of the running program stands at its record.                *)
LEMMA Within ==
  ASSUME IInv, pc \in {"EXEC_STMT", "eval", "input"}
  PROVE  RUNNING = 1 => OnRecord /\ GOFLAG = 0 /\ AfterStatement
BY DEF IInv, Stands, AfterStatement

(* A statement that touches neither the store nor the flags returns.       *)
LEMMA PlainStatement ==
  ASSUME IInv, pc \in {"EXEC_STMT", "eval", "input"}, Back, UNCHANGED <<store, GOFLAG, pending>>,
         RUNNING' \in {RUNNING, 0}, var' \in [Letters -> Words], ParseHolds', at' = "done"
  PROVE  IInv'
<1>1. StoreHolds' /\ (OnRecord' <=> OnRecord) /\ (AfterStatement => AfterStatement')
  BY StoreRests DEF IInv
<1>2. Flags'
  BY DEF IInv, Flags
<1>3. RUNNING' = 1 => RUNNING = 1 /\ AfterStatement'
  BY <1>1, Within
<1> QED BY <1>1, <1>2, <1>3, LeavesStatement

(* Ctrl-C only leaves its mark.                                            *)
LEMMA CtrlCHolds ==
  ASSUME IInv, CtrlC PROVE IInv'
<1>1. pending' = TRUE /\ UNCHANGED <<mem, PEND, EPTR, store, evaluator, RUNNING, GOFLAG, pc, calls, stmt, var>>
      /\ at' = at
  BY DEF CtrlC, store, evaluator, flow
<1>2. StoreHolds' /\ (OnRecord' <=> OnRecord) /\ (AfterStatement => AfterStatement')
  BY <1>1, StoreRests DEF IInv
<1>3. ParseHolds'
  BY <1>1, ParseRests DEF IInv
<1>4. Flags'
  BY <1>1 DEF IInv, Flags
<1>5. CallsHold'
  BY <1>1 DEF IInv, CallsHold
<1>6. Stands'
  BY <1>1, <1>2 DEF IInv, Stands
<1>7. StmtHolds'
  BY <1>1 DEF IInv, StmtHolds
<1> QED BY <1>2, <1>3, <1>4, <1>5, <1>6, <1>7 DEF IInv

(* A line is entered; no program runs.                                     *)
LEMMA EnterLineHolds ==
  ASSUME IInv, NEW n \in Numbers, NEW t \in Texts, EnterLine(n, t) PROVE IInv'
<1>1. /\ pc = "REPL" /\ UNCHANGED <<evaluator, RUNNING, GOFLAG, pc, calls, stmt, var, pending>> /\ at' = at
      /\ mem' = Edited(mem, PEND, n, t).mem /\ PEND' = Edited(mem, PEND, n, t).pend
      /\ EPTR' = Edited(mem, PEND, n, t).at
  BY DEF EnterLine, STORE_LINE, evaluator, flow
<1>2. n \in Words /\ t \in Seq(1 .. 255)
  BY BasicAssumption
<1>3. StoreHolds'
  <2>1. Whole(mem, PEND)
    BY DEF IInv, StoreHolds
  <2>2. Whole(Edited(mem, PEND, n, t).mem, Edited(mem, PEND, n, t).pend) /\ Edited(mem, PEND, n, t).at \in Nat
    BY <1>2, <2>1, EditedKeeps
  <2> QED BY <1>1, <2>2 DEF StoreHolds
<1>4. ParseHolds'
  BY <1>1, ParseRests DEF IInv
<1>5. Flags'
  BY <1>1 DEF IInv, Flags
<1>6. CallsHold'
  BY <1>1 DEF IInv, CallsHold
<1>7. Stands'
  BY <1>1 DEF IInv, Stands
<1>8. StmtHolds'
  BY <1>1 DEF IInv, StmtHolds
<1> QED BY <1>3, <1>4, <1>5, <1>6, <1>7, <1>8 DEF IInv

(* A statement is typed at the prompt.                                     *)
LEMMA EnterStatementHolds ==
  ASSUME IInv, NEW s \in Typed, EnterStatement(s) PROVE IInv'
<1>1. /\ pc = "REPL" /\ RUNNING' = 0 /\ stmt' = s /\ pc' = "EXEC_STMT" /\ calls' = <<"REPL">> \o calls
      /\ UNCHANGED <<store, evaluator, GOFLAG, var, pending>> /\ at' = at
  BY DEF EnterStatement, evaluator
<1>2. StoreHolds'
  BY <1>1, StoreRests DEF IInv
<1>3. ParseHolds'
  BY <1>1, ParseRests DEF IInv
<1>4. Flags'
  BY <1>1 DEF IInv, Flags
<1>5. CallsHold'
  <2>1. calls = <<>>
    BY <1>1 DEF IInv, CallsHold
  <2> QED BY <1>1, <2>1, CalledFromPrompt DEF CallsHold
<1>6. Stands'
  BY <1>1 DEF Stands
<1>7. StmtHolds'
  BY <1>1, BasicAssumption DEF IInv, StmtHolds
<1> QED BY <1>2, <1>3, <1>4, <1>5, <1>6, <1>7 DEF IInv

(* INPUT gets its number.                                                  *)
LEMMA EnterNumberHolds ==
  ASSUME IInv, NEW w \in Inputs, EnterNumber(w) PROVE IInv'
<1>1. /\ pc = "input" /\ Back /\ var' = [var EXCEPT ![stmt.v] = w]
      /\ UNCHANGED <<store, evaluator, RUNNING, GOFLAG, pending>> /\ at' = at
  BY DEF EnterNumber, evaluator
<1>2. stmt.v \in Letters /\ w \in Words /\ at = "done"
  BY <1>1, BasicAssumption DEF IInv, StmtHolds, IsStatement
<1>3. var' \in [Letters -> Words]
  BY <1>1, <1>2 DEF IInv, Flags
<1>4. ParseHolds'
  BY <1>1, ParseRests DEF IInv
<1> QED BY <1>1, <1>2, <1>3, <1>4, PlainStatement

(* The loop stops at the end or at a break, or fetches a statement.        *)
LEMMA RunLoopHolds ==
  ASSUME IInv, run_loop PROVE IInv'
<1>1. pc = "run_loop" /\ UNCHANGED <<store, evaluator, var>>
  BY DEF run_loop
<1>2. StoreHolds'
  BY <1>1, StoreRests DEF IInv
<1>3. CASE past_end /\ run_done /\ UNCHANGED <<GOFLAG, pending, said>>
  <2>1. Flags'
    BY <1>1, <1>3 DEF IInv, Flags, run_done
  <2> QED BY <1>1, <1>2, <1>3, <2>1, LeavesLoop
<1>4. CASE ~past_end /\ pending /\ pending' = FALSE /\ run_done /\ UNCHANGED GOFLAG
  <2>1. Flags'
    BY <1>1, <1>4 DEF IInv, Flags, run_done
  <2> QED BY <1>1, <1>2, <1>4, <2>1, LeavesLoop
<1>5. CASE /\ ~past_end /\ ~pending
           /\ GOFLAG' = 0 /\ stmt' = Table[mem[EPTR + 3]]
           /\ pc' = "EXEC_STMT" /\ calls' = <<"executed">> \o calls
           /\ UNCHANGED <<RUNNING, pending, said>>
  BY <1>1, <1>5, Fetches
<1> QED BY <1>3, <1>4, <1>5 DEF run_loop

(* After a statement the loop goes on with the next record, or stays where *)
(* a jump has put it; after NEW it finds itself behind the end.            *)
LEMMA ExecutedHolds ==
  ASSUME IInv, Executed PROVE IInv'
<1>1. pc = "executed" /\ UNCHANGED <<mem, PEND, evaluator, var, pending>>
  BY DEF Executed, outer
<1>2. Whole(mem, PEND) /\ EPTR \in Nat
  BY DEF IInv, StoreHolds
<1>3. CASE RUNNING = 0 /\ run_done /\ UNCHANGED <<EPTR, GOFLAG>>
  <2>1. Flags'
    BY <1>1, <1>3 DEF IInv, Flags, run_done
  <2>2. StoreHolds'
    BY <1>1, <1>2, <1>3 DEF StoreHolds
  <2> QED BY <1>1, <1>3, <2>1, <2>2, LeavesLoop
<1>4. CASE /\ RUNNING = 1 /\ pc' = "run_loop"
           /\ EPTR' = IF GOFLAG = 1 THEN EPTR ELSE EPTR + LenAt(mem, EPTR)
           /\ UNCHANGED <<RUNNING, GOFLAG, calls, stmt>>
  <2>1. AfterStatement
    BY <1>1, <1>4 DEF IInv, Stands
  <2>2. PEND \in Int /\ PROG \in Nat /\ LIMIT \in Nat
    BY <1>2, TheEnd, Sizes
  <2>3. EPTR' \in Nat /\ (EPTR' \in Starts(mem, PEND) \/ EPTR' >= PEND)
    <3>1. CASE OnRecord
      <4>1. EPTR + LenAt(mem, EPTR) \in Starts(mem, PEND) \cup {PEND}
        BY <1>2, <3>1, AtRecord
      <4>2. EPTR \in Starts(mem, PEND)
        BY <3>1 DEF OnRecord
      <4>3. EPTR' \in Starts(mem, PEND) \cup {PEND}
        BY <1>4, <4>1, <4>2
      <4>4. Starts(mem, PEND) \subseteq Nat /\ PEND \in Nat
        <5>1. PICK R : Chain(mem, PEND, R)
          BY <1>2 DEF Whole
        <5>2. Starts(mem, PEND) = R
          BY <5>1, StartsAre
        <5>3. \A p \in R : p \in Nat
          BY <5>1, InRecord
        <5>4. PEND \in Nat
          BY <1>2, <2>2, TheEnd
        <5> QED BY <5>2, <5>3, <5>4
      <4> QED BY <2>2, <4>3, <4>4
    <3>2. CASE GOFLAG = 0 /\ PEND = PROG /\ EPTR \in PROG .. LIMIT - 3
      <4>1. EPTR + 2 \in PROG .. LIMIT - 1
        BY <2>2, <3>2
      <4>2. mem \in [PROG .. LIMIT - 1 -> Octet]
        BY <1>2, StoredBytes
      <4>3. LenAt(mem, EPTR) \in Octet
        BY <4>1, <4>2 DEF LenAt
      <4>4. PICK len : len = LenAt(mem, EPTR) /\ len \in Octet
        BY <4>3
      <4>5. len \in Int /\ 0 <= len
        BY <4>4, OctetsAre
      <4>6. EPTR' = EPTR + len
        BY <1>4, <3>2, <4>4
      <4>7. EPTR + len \in Nat /\ EPTR + len >= PEND
        BY <2>2, <3>2, <4>5
      <4> QED BY <4>6, <4>7
    <3> QED BY <2>1, <3>1, <3>2 DEF AfterStatement
  <2>4. StoreHolds' /\ (OnRecord' \/ EPTR' >= PEND')
    BY <1>1, <1>2, <2>3 DEF StoreHolds, OnRecord
  <2>5. ParseHolds' /\ at' = at
    BY <1>1, ParseRests DEF IInv, evaluator
  <2>6. Flags'
    BY <1>1, <1>4 DEF IInv, Flags
  <2>7. CallsHold'
    BY <1>1, <1>4 DEF IInv, CallsHold
  <2>8. Stands'
    BY <1>4, <2>4 DEF Stands
  <2>9. StmtHolds'
    BY <1>1, <1>4, <2>5 DEF IInv, StmtHolds
  <2> QED BY <2>4, <2>5, <2>6, <2>7, <2>8, <2>9 DEF IInv
<1> QED BY <1>3, <1>4 DEF Executed

(* The statements begin where no expression is being evaluated.            *)
LEMMA AtStatement ==
  ASSUME IInv, pc = "EXEC_STMT"
  PROVE  at = "done" /\ pc \in {"EXEC_STMT", "eval", "input"} /\ StoreHolds /\ ParseHolds /\ Flags
BY DEF IInv, StmtHolds

(* RUN starts at the first record.                                         *)
LEMMA RunHolds ==
  ASSUME IInv, cmd_RUN PROVE IInv'
<1>1. /\ pc = "EXEC_STMT" /\ pending' = FALSE /\ EPTR' = PROG /\ RUNNING' = 1 /\ pc' = "run_loop"
      /\ UNCHANGED <<mem, PEND, evaluator, GOFLAG, calls, stmt, var>> /\ at' = at
  BY DEF cmd_RUN, Executes, evaluator
<1>2. StoreHolds' /\ (OnRecord' \/ EPTR' >= PEND')
  <2>1. Whole(mem, PEND)
    BY DEF IInv, StoreHolds
  <2>2. PROG \in Starts(mem, PEND) \cup {PEND} /\ PROG \in Nat
    BY <2>1, TheEnd, Sizes
  <2> QED BY <1>1, <2>1, <2>2 DEF StoreHolds, OnRecord
<1>3. ParseHolds'
  BY <1>1, ParseRests DEF IInv
<1>4. Flags'
  BY <1>1 DEF IInv, Flags
<1>5. CallsHold'
  BY <1>1 DEF IInv, CallsHold
<1>6. Stands'
  BY <1>1, <1>2 DEF Stands
<1>7. StmtHolds'
  BY <1>1, AtStatement DEF IInv, StmtHolds
<1> QED BY <1>2, <1>3, <1>4, <1>5, <1>6, <1>7 DEF IInv

(* NEW in a program leaves the pointer where no record is any more.        *)
LEMMA NewHolds ==
  ASSUME IInv, cmd_NEW PROVE IInv'
<1>1. /\ pc = "EXEC_STMT" /\ PEND' = PROG /\ Back
      /\ UNCHANGED <<mem, EPTR, evaluator, RUNNING, GOFLAG, var, pending>> /\ at' = at
  BY DEF cmd_NEW, Executes, evaluator, outer
<1>2. Whole(mem, PEND) /\ EPTR \in Nat /\ at = "done" /\ pc \in {"EXEC_STMT", "eval", "input"}
  BY <1>1, AtStatement DEF StoreHolds
<1>3. StoreHolds'
  BY <1>1, <1>2, StoredBytes, NothingStored DEF StoreHolds
<1>4. ParseHolds' /\ at' = "done"
  BY <1>1, <1>2, ParseRests DEF IInv
<1>5. Flags'
  BY <1>1 DEF IInv, Flags
<1>6. RUNNING' = 1 => RUNNING = 1 /\ AfterStatement'
  <2>1. RUNNING = 1 => EPTR \in PROG .. LIMIT - 3 /\ GOFLAG = 0
    BY <1>2, Within, AtRecord
  <2> QED BY <1>1, <2>1 DEF AfterStatement
<1> QED BY <1>1, <1>2, <1>3, <1>4, <1>5, <1>6, LeavesStatement

(* A statement that prints, or stops the program, and returns.             *)
LEMMA SimpleHolds ==
  ASSUME IInv, pc = "EXEC_STMT", Back, UNCHANGED <<store, evaluator, GOFLAG, var, pending>>,
         RUNNING' \in {RUNNING, 0}
  PROVE  IInv'
<1>1. at = "done" /\ pc \in {"EXEC_STMT", "eval", "input"} /\ ParseHolds /\ Flags
  BY AtStatement
<1>2. ParseHolds' /\ at' = "done"
  BY <1>1, ParseRests DEF evaluator
<1>3. var' \in [Letters -> Words]
  BY <1>1 DEF Flags
<1> QED BY <1>1, <1>2, <1>3, PlainStatement

(* A jump stands at the record it has found, or stops the program.         *)
LEMMA JumpHolds ==
  ASSUME IInv, pc \in {"EXEC_STMT", "eval", "input"}, NEW n \in Words, do_GOTO(n),
         ParseHolds', at' = "done"
  PROVE  IInv'
<1> DEFINE p == FIND_LINE(mem, PEND, n)
<1>1. EPTR' = p /\ Back /\ UNCHANGED <<mem, PEND, var, pending>>
  BY DEF do_GOTO
<1>2. PICK R : Chain(mem, PEND, R)
  BY DEF IInv, StoreHolds, Whole
<1>3. Starts(mem, PEND) = R
  BY <1>2, StartsAre
<1>4. p \in R \cup {PEND}
  BY <1>2, FindsPlace
<1>5. p \in Nat
  <2>1. \A q \in R : q \in Nat
    BY <1>2, InRecord
  <2>2. PEND \in Nat
    BY <1>2, Sizes DEF Chain
  <2> HIDE DEF p
  <2> QED BY <1>4, <2>1, <2>2
<1>6. StoreHolds'
  BY <1>1, <1>5 DEF IInv, StoreHolds
<1>7. CASE Found(mem, PEND, n)
  <2>1. GOFLAG' = 1 /\ RUNNING' = RUNNING
    BY <1>7 DEF do_GOTO
  <2>2. p < PEND
    BY <1>7 DEF Found
  <2>3. PEND \in Int
    BY <1>2, Sizes DEF Chain
  <2>4. p \in R
    BY <1>4, <1>5, <2>2, <2>3
  <2>5. OnRecord'
    BY <1>1, <1>3, <2>4 DEF OnRecord
  <2>6. Flags'
    BY <1>1, <2>1 DEF IInv, Flags
  <2>7. RUNNING' = 1 => RUNNING = 1 /\ AfterStatement'
    BY <2>1, <2>5 DEF AfterStatement
  <2> QED BY <1>1, <1>6, <2>6, <2>7, LeavesStatement
<1>8. CASE ~Found(mem, PEND, n)
  <2>1. RUNNING' = 0 /\ GOFLAG' = GOFLAG
    BY <1>8 DEF do_GOTO
  <2>2. Flags'
    BY <1>1, <2>1 DEF IInv, Flags
  <2> QED BY <1>1, <1>6, <2>1, <2>2, LeavesStatement
<1> QED BY <1>7, <1>8

(* GOTO.                                                                   *)
LEMMA GotoHolds ==
  ASSUME IInv, cmd_GOTO PROVE IInv'
<1>1. pc = "EXEC_STMT" /\ stmt.do = "GOTO" /\ do_GOTO(stmt.line) /\ UNCHANGED evaluator
  BY DEF cmd_GOTO, Executes
<1>2. stmt.line \in Words
  BY <1>1 DEF IInv, StmtHolds, IsStatement
<1>3. ParseHolds' /\ at' = "done"
  BY <1>1, AtStatement, ParseRests DEF evaluator
<1> QED BY <1>1, <1>2, <1>3, JumpHolds

(* Where the statement that is being executed goes on.                     *)
LEMMA GoesOn ==
  ASSUME IInv, pc = "EXEC_STMT", pc' \in {"eval", "input"},
         UNCHANGED <<store, RUNNING, GOFLAG, calls, stmt, outer>>,
         ParseHolds', pc' = "input" => stmt.do = "INPUT" /\ at' = "done"
  PROVE  IInv'
<1>1. UNCHANGED <<var, pending>>
  BY DEF outer
<1>2. StoreHolds' /\ (OnRecord' <=> OnRecord)
  BY StoreRests DEF IInv
<1>3. Flags'
  BY <1>1 DEF IInv, Flags
<1>4. CallsHold'
  BY DEF IInv, CallsHold
<1>5. Stands'
  BY <1>2 DEF IInv, Stands
<1>6. StmtHolds'
  BY DEF IInv, StmtHolds
<1> QED BY <1>2, <1>3, <1>4, <1>5, <1>6 DEF IInv

(* INPUT waits.                                                            *)
LEMMA InputHolds ==
  ASSUME IInv, cmd_INPUT PROVE IInv'
<1>1. /\ pc = "EXEC_STMT" /\ stmt.do = "INPUT" /\ pc' = "input"
      /\ UNCHANGED <<store, evaluator, RUNNING, GOFLAG, calls, stmt, outer>> /\ at' = at
  BY DEF cmd_INPUT, Executes, evaluator
<1>2. ParseHolds' /\ at' = "done"
  BY <1>1, AtStatement, ParseRests
<1> QED BY <1>1, <1>2, GoesOn

(* An expression begins.                                                   *)
LEMMA EvaluateHolds ==
  ASSUME IInv, Evaluate PROVE IInv'
<1>1. /\ pc = "EXEC_STMT" /\ stmt.do \in Evaluates /\ Start(stmt.text) /\ pc' = "eval"
      /\ UNCHANGED <<store, RUNNING, GOFLAG, calls, stmt, outer>>
  BY DEF Evaluate, Executes
<1>2. stmt.text \in Seq(STRING)
  BY <1>1 DEF IInv, StmtHolds, IsStatement
<1>3. ESTKP = 0
  BY <1>1, AtStatement, DoneHolds
<1>4. ParseHolds'
  BY <1>1, <1>2, <1>3, StartHolds
<1> QED BY <1>1, <1>4, GoesOn

(* A step of the evaluator.                                                *)
LEMMA EvaluatingHolds ==
  ASSUME IInv, Evaluating PROVE IInv'
<1>1. pc = "eval" /\ EvalStep(var) /\ UNCHANGED <<store, RUNNING, GOFLAG, pc, calls, stmt, var, pending>>
  BY DEF Evaluating, flow, outer
<1>2. ParseHolds'
  BY <1>1, EvalStepHolds DEF IInv, Flags
<1>3. StoreHolds' /\ (OnRecord' <=> OnRecord)
  BY <1>1, StoreRests DEF IInv
<1>4. Flags'
  BY <1>1 DEF IInv, Flags
<1>5. CallsHold'
  BY <1>1 DEF IInv, CallsHold
<1>6. Stands'
  BY <1>1, <1>3 DEF IInv, Stands
<1>7. StmtHolds'
  BY <1>1 DEF IInv, StmtHolds
<1> QED BY <1>2, <1>3, <1>4, <1>5, <1>6, <1>7 DEF IInv

(* A value that was found is used, and forgotten.                          *)
LEMMA ValueUsed ==
  ASSUME IInv, Evaluated, Forget
  PROVE  /\ pc \in {"EXEC_STMT", "eval", "input"} /\ ParseHolds' /\ at' = "done" /\ cells[AR] \in Words
<1>1. pc = "eval" /\ at = "done" /\ ParseHolds
  BY DEF Evaluated, IInv
<1>2. ParseHolds' /\ at' = "done"
  BY <1>1, Forgotten
<1>3. cells[AR] \in Words
  BY <1>1, CellsAre DEF ParseHolds
<1> QED BY <1>1, <1>2, <1>3

(* PRINT.                                                                  *)
LEMMA PrintHolds ==
  ASSUME IInv, cmd_PRINT PROVE IInv'
<1>1. Evaluated /\ Back /\ Forget /\ UNCHANGED <<store, RUNNING, GOFLAG, var, pending>>
  BY DEF cmd_PRINT
<1>2. var' \in [Letters -> Words]
  BY <1>1 DEF IInv, Flags
<1> QED BY <1>1, <1>2, ValueUsed, PlainStatement

(* LET.                                                                    *)
LEMMA LetHolds ==
  ASSUME IInv, do_LET PROVE IInv'
<1>1. /\ Evaluated /\ stmt.do = "LET" /\ Back /\ Forget /\ var' = [var EXCEPT ![stmt.v] = cells[AR]]
      /\ UNCHANGED <<store, RUNNING, GOFLAG, pending>>
  BY DEF do_LET
<1>2. stmt.v \in Letters
  BY <1>1 DEF IInv, StmtHolds, IsStatement
<1>3. var' \in [Letters -> Words]
  BY <1>1, <1>2, ValueUsed DEF IInv, Flags
<1> QED BY <1>1, <1>3, ValueUsed, PlainStatement

(* IF, taken or not.                                                       *)
LEMMA IfHolds ==
  ASSUME IInv, cmd_IF PROVE IInv'
<1>1. Evaluated /\ stmt.do = "IF" /\ Forget
  BY DEF cmd_IF
<1>2. CASE do_GOTO(stmt.line)
  <2>1. stmt.line \in Words
    BY <1>1 DEF IInv, StmtHolds, IsStatement
  <2> QED BY <1>1, <1>2, <2>1, ValueUsed, JumpHolds
<1>3. CASE Back /\ UNCHANGED <<store, RUNNING, GOFLAG, outer>>
  <2>1. UNCHANGED <<var, pending>>
    BY <1>3 DEF outer
  <2>2. var' \in [Letters -> Words]
    BY <2>1 DEF IInv, Flags
  <2> QED BY <1>1, <1>3, <2>1, <2>2, ValueUsed, PlainStatement
<1> QED BY <1>2, <1>3 DEF cmd_IF

(* A statement, whichever it is.                                           *)
LEMMA StatementHolds ==
  ASSUME IInv, Statement PROVE IInv'
<1>1. CASE cmd_RUN
  BY <1>1, RunHolds
<1>2. CASE cmd_NEW
  BY <1>2, NewHolds
<1>3. CASE cmd_END
  BY <1>3, SimpleHolds DEF cmd_END, Executes, outer
<1>4. CASE cmd_LIST
  BY <1>4, SimpleHolds DEF cmd_LIST, Executes
<1>5. CASE cmd_GOTO
  BY <1>5, GotoHolds
<1>6. CASE cmd_INPUT
  BY <1>6, InputHolds
<1>7. CASE es_err
  BY <1>7, SimpleHolds DEF es_err, Executes
<1>8. CASE Rem
  BY <1>8, SimpleHolds DEF Rem, Executes, outer
<1>9. CASE Evaluate
  BY <1>9, EvaluateHolds
<1>10. CASE Evaluating
  BY <1>10, EvaluatingHolds
<1>11. CASE cmd_PRINT
  BY <1>11, PrintHolds
<1>12. CASE do_LET
  BY <1>12, LetHolds
<1>13. CASE cmd_IF
  BY <1>13, IfHolds
<1> QED BY <1>1, <1>2, <1>3, <1>4, <1>5, <1>6, <1>7, <1>8, <1>9, <1>10, <1>11, <1>12, <1>13 DEF Statement

(* A stutter.                                                              *)
LEMMA NothingHappens ==
  ASSUME IInv, UNCHANGED vars PROVE IInv'
<1>1. /\ UNCHANGED <<mem, PEND, EPTR, store, evaluator, RUNNING, GOFLAG, pc, calls, stmt, var, pending>>
      /\ at' = at
  BY DEF vars, store, evaluator
<1>2. StoreHolds' /\ (OnRecord' <=> OnRecord) /\ (AfterStatement => AfterStatement')
  BY <1>1, StoreRests DEF IInv
<1>3. ParseHolds'
  BY <1>1, ParseRests DEF IInv
<1>4. Flags'
  BY <1>1 DEF IInv, Flags
<1>5. CallsHold'
  BY <1>1 DEF IInv, CallsHold
<1>6. Stands'
  BY <1>1, <1>2 DEF IInv, Stands
<1>7. StmtHolds'
  BY <1>1 DEF IInv, StmtHolds
<1> QED BY <1>2, <1>3, <1>4, <1>5, <1>6, <1>7 DEF IInv

(* Every step of the interpreter and every input of the user keeps it.     *)
THEOREM Invariance == Spec => []IInv
<1>1. IInv /\ [Next]_vars => IInv'
  <2> SUFFICES ASSUME IInv, [Next]_vars PROVE IInv'
    OBVIOUS
  <2>1. CASE Interpreter
    BY <2>1, RunLoopHolds, ExecutedHolds, StatementHolds DEF Interpreter
  <2>2. CASE User
    BY <2>2, CtrlCHolds, EnterLineHolds, EnterStatementHolds, EnterNumberHolds DEF User
  <2>3. CASE UNCHANGED vars
    BY <2>3, NothingHappens
  <2> QED BY <2>1, <2>2, <2>3 DEF Next
<1> QED BY <1>1, InitHolds, PTL DEF Spec

-----------------------------------------------------------------------------
(* The theorems. *)

(* The store and its pointers, the variables, the cells of the evaluator,  *)
(* the flags and the return addresses keep their types, in any session.    *)
THEOREM TypeCorrect == Spec => []TypeOK
<1>1. IInv => TypeOK
  <2> SUFFICES ASSUME IInv PROVE TypeOK
    OBVIOUS
  <2>1. mem \in [PROG .. LIMIT - 1 -> 0 .. 255]
    <3>1. mem \in [PROG .. LIMIT - 1 -> Octet]
      BY StoredBytes DEF IInv, StoreHolds
    <3> QED BY <3>1 DEF Octet
  <2>2. PEND \in PROG .. LIMIT /\ EPTR \in Nat
    BY TheEnd DEF IInv, StoreHolds
  <2>3. cells \in [Cell -> Words] /\ ESTKP \in Nat /\ PDEPTH \in 0 .. DEPTH - 1
    <3>1. cells \in [Cell -> Words] /\ ESTKP \in Nat /\ PDEPTH \in Nat /\ PDEPTH < DEPTH
      BY DEF IInv, ParseHolds
    <3> QED BY <3>1, ExpressionAssumption
  <2>4. /\ RUNNING \in {0, 1} /\ GOFLAG \in {0, 1} /\ var \in [Letters -> Words] /\ pending \in BOOLEAN
        /\ pc = "REPL" <=> calls = <<>>
    BY DEF IInv, Flags, CallsHold
  <2> QED BY <2>1, <2>2, <2>3, <2>4 DEF TypeOK
<1> QED BY <1>1, Invariance, PTL

(* After any editing the store is sorted records that end at PEND, and a   *)
(* program that runs stands at one of them: the loop, a jump and LIST read *)
(* no byte that is not a program's.                                        *)
THEOREM RecordsAlwaysHold == Spec => []RecordsHold
<1>1. IInv => RecordsHold
  <2> SUFFICES ASSUME IInv PROVE RecordsHold
    OBVIOUS
  <2>1. Whole(mem, PEND) /\ EPTR \in Nat
    BY DEF IInv, StoreHolds
  <2>2. StoreSound
    BY <2>1, WholeIsSound
  <2>3. ASSUME RUNNING = 1, ~past_end PROVE EPTR \in Starts(mem, PEND)
    <3>1. PEND \in Int /\ PROG \in Nat /\ LIMIT \in Nat /\ ~(EPTR >= PEND)
      BY <2>1, <2>3, TheEnd, Sizes DEF past_end
    <3>2. pc \in {"EXEC_STMT", "eval", "input", "run_loop", "executed"}
      BY <2>3 DEF IInv, CallsHold, Stands
    <3>3. CASE pc = "executed"
      <4>1. AfterStatement
        BY <2>3, <3>3 DEF IInv, Stands
      <4>2. EPTR \in PROG .. LIMIT - 3 => EPTR >= PROG
        BY <3>1
      <4> QED BY <3>1, <4>1, <4>2 DEF AfterStatement, OnRecord
    <3>4. CASE pc # "executed"
      BY <2>3, <3>1, <3>2, <3>4 DEF IInv, Stands, OnRecord
    <3> QED BY <3>3, <3>4
  <2> QED BY <2>2, <2>3 DEF RecordsHold
<1> QED BY <1>1, Invariance, PTL

(* The bound on parentheses is one on the value stack, which has no check  *)
(* of its own: no expression has more than three operators waiting for     *)
(* each level, whatever its length and whatever was evaluated before.      *)
THEOREM WaitingIsBounded == Spec => []ThreeForEachLevel
<1>1. IInv => ThreeForEachLevel
  <2> SUFFICES ASSUME IInv PROVE ThreeForEachLevel
    OBVIOUS
  <2>1. ESTKP <= 3 * (PDEPTH + 1)
    BY LevelsHold DEF IInv
  <2> QED BY <2>1 DEF ThreeForEachLevel
<1> QED BY <1>1, Invariance, PTL

(* Whatever the expression, the evaluator comes back with the value stack  *)
(* empty and every parenthesis closed: the next one begins at the bottom.  *)
THEOREM EvaluationsEnd == Spec => [](Evaluated => ESTKP = 0 /\ PDEPTH = 0)
<1>1. IInv => (Evaluated => ESTKP = 0 /\ PDEPTH = 0)
  BY DoneHolds DEF IInv, Evaluated
<1> QED BY <1>1, Invariance, PTL

-----------------------------------------------------------------------------
(* The sorted program. *)

(* The lines other than n leave room for t, and the lines with t as line n. *)
HasRoom(n, t)  == /\ Len(t) < TooLong
                  /\ Program!Used(Program!Without(n)) + Program!Takes(t) <= LIMIT - PROG
WithLine(n, t) == [k \in DOMAIN Lines \cup {n} |-> IF k = n THEN t ELSE Lines[k]]

(* e stands for the lines with t entered as line n. *)
Edits(n, t, e) ==
  /\ e.fits <=> t = <<>> \/ HasRoom(n, t)
  /\ t # <<>> /\ HasRoom(n, t) => LinesOf(e.mem, e.pend) = WithLine(n, t)
  /\ t = <<>> \/ ~HasRoom(n, t) => LinesOf(e.mem, e.pend) = Program!Without(n)

(* What editing does to the bytes, it does to the lines: the old line goes, *)
(* and the new one comes when there is one and it fits.                    *)
LEMMA EditedMeans ==
  ASSUME Whole(mem, PEND), NEW n \in Words, NEW t \in Seq(1 .. 255), NEW e, e = Edited(mem, PEND, n, t)
  PROVE  Edits(n, t, e)
<1> DEFINE fits == HasRoom(n, t)
           W == Program!Without(n)
           V == WithLine(n, t)
<1>1. PICK R : Chain(mem, PEND, R)
  BY DEF Whole
<1>2. PICK k, last, Q : /\ Chain(k, last, Q) /\ Content(k, Q) = Others(Content(mem, R), n)
                        /\ Enters(k, last, Q, n, t, e)
  BY <1>1, EditedIs
<1>3. Content(mem, R) = {<<x, Lines[x]>> : x \in DOMAIN Lines}
  <2>1. Tells(LinesOf(mem, PEND), Content(mem, R))
    BY <1>1, LinesTell
  <2>2. Tells(Lines, Content(mem, R))
    BY <2>1 DEF Lines
  <2> QED BY <2>2 DEF Tells
<1>4. W = [x \in DOMAIN Lines \ {n} |-> Lines[x]]
  BY DEF Program!Without
<1>5. Tells(W, Content(k, Q))
  <2>1. Others(Content(mem, R), n) = {<<x, Lines[x]>> : x \in DOMAIN Lines \ {n}}
    BY <1>3 DEF Others
  <2>2. DOMAIN W = DOMAIN Lines \ {n} /\ W = [x \in DOMAIN W |-> W[x]]
    BY <1>4
  <2>3. \A x \in DOMAIN W : W[x] = Lines[x]
    BY <1>4
  <2> HIDE DEF W
  <2>4. {<<x, Lines[x]>> : x \in DOMAIN W} = {<<x, W[x]>> : x \in DOMAIN W}
    BY <2>3
  <2> QED BY <1>2, <2>1, <2>2, <2>4 DEF Tells
<1>6. LinesOf(k, last) = W
  BY <1>2, <1>5, LinesTell, TellOne
<1>7. Program!Used(W) = last - PROG
  BY <1>2, <1>5, UsedIs
<1>8. fits <=> Fitting(last, t)
  <2>1. last \in Int /\ PROG \in Int /\ LIMIT \in Int
    BY <1>2, Sizes DEF Chain
  <2>2. Program!Takes(t) = Len(t) + 4 /\ Len(t) \in Nat
    BY LenProperties DEF Program!Takes
  <2> DEFINE l == Len(t)
  <2>3. l \in Int
    BY <2>2
  <2> HIDE DEF l
  <2>4. (last - PROG) + (l + 4) <= LIMIT - PROG <=> last + (l + 4) <= LIMIT
    BY <2>1, <2>3
  <2>5. fits <=> Len(t) < TooLong /\ (last - PROG) + (l + 4) <= LIMIT - PROG
    BY <1>7, <2>2 DEF l, HasRoom
  <2> QED BY <2>4, <2>5 DEF Fitting, l
<1> HIDE DEF fits, W
<1>9. e.fits <=> t = <<>> \/ fits
  BY <1>2, <1>8 DEF Enters
<1>10. ASSUME t # <<>>, fits PROVE LinesOf(e.mem, e.pend) = V
  <2>1. PICK P : Chain(e.mem, e.pend, P) /\ Content(e.mem, P) = Content(k, Q) \cup {<<n, t>>}
    BY <1>2, <1>8, <1>10 DEF Enters
  <2>2. Tells(V, Content(e.mem, P))
    <3>1. DOMAIN V = DOMAIN Lines \cup {n} /\ V = [x \in DOMAIN V |-> V[x]]
      BY DEF WithLine
    <3>2. V[n] = t /\ \A x \in DOMAIN Lines : x # n => V[x] = Lines[x]
      BY DEF WithLine
    <3> HIDE DEF V
    <3>3. Content(e.mem, P) = {<<x, Lines[x]>> : x \in DOMAIN Lines \ {n}} \cup {<<n, t>>}
      BY <1>2, <1>3, <2>1 DEF Others
    <3>4. Content(e.mem, P) = {<<x, V[x]>> : x \in DOMAIN V}
      BY <3>1, <3>2, <3>3
    <3> QED BY <3>1, <3>4 DEF Tells
  <2> HIDE DEF V
  <2> QED BY <2>1, <2>2, LinesTell, TellOne
<1>11. ASSUME t = <<>> \/ ~fits PROVE LinesOf(e.mem, e.pend) = W
  <2>1. e.mem = k /\ e.pend = last
    BY <1>2, <1>8, <1>11 DEF Enters
  <2> QED BY <1>6, <2>1
<1> QED BY <1>9, <1>10, <1>11 DEF fits, W, Edits

(* A step of the sorted program, or none.                                  *)
Follow == Program!Next \/ UNCHANGED <<Lines, AtLine, Unbegun, said>>

(* It stops, complaining or not.                                           *)
LEMMA MayStop ==
  ASSUME AtLine # -1, AtLine' = -1, Unbegun' = FALSE, Lines' = Lines, said' \in {said} \cup Program!Complaints
  PROVE  Follow
<1>1. Program!Stop
  BY DEF Program!Stop, Program!NoLine
<1> QED BY <1>1 DEF Follow, Program!Next

(* It jumps to a line it has.                                              *)
LEMMA MayJump ==
  ASSUME AtLine # -1, ~Unbegun, AtLine' \in DOMAIN Lines, Unbegun' = TRUE, UNCHANGED <<Lines, said>>
  PROVE  Follow
<1>1. Program!Jump
  BY DEF Program!Jump, Program!NoLine
<1> QED BY <1>1 DEF Follow, Program!Next

(* A statement prints.                                                     *)
LEMMA MaySay ==
  ASSUME AtLine # -1 => ~Unbegun, UNCHANGED <<Lines, AtLine, Unbegun>>,
         \/ AtLine = -1 /\ (said' = Program!Quiet \/ said' \in Program!Complaints)
         \/ said' = [what |-> "LIST", lines |-> Program!Listing]
         \/ said' \in [what : {"PRINT"}, value : Program!Words]
  PROVE  Follow
<1>1. Program!Say
  BY DEF Program!Say, Program!NoLine
<1> QED BY <1>1 DEF Follow, Program!Next

(* Where no program runs, and where one does.                              *)
LEMMA Standing ==
  ASSUME IInv
  PROVE  /\ RUNNING = 0 => AtLine = -1 /\ Unbegun = FALSE
         /\ RUNNING = 1 => AtLine # -1
         /\ RUNNING = 1 /\ OnRecord => AtLine = LineAt(mem, EPTR) /\ AtLine \in DOMAIN Lines
<1>1. PICK R : Chain(mem, PEND, R) /\ Starts(mem, PEND) = R
  BY StartsAre DEF IInv, StoreHolds, Whole
<1>2. \A q \in R : /\ LineAt(mem, q) \in DOMAIN Lines /\ LineAt(mem, q) # -1 /\ ~(q >= PEND)
  <2>1. DOMAIN Lines = {LineAt(mem, q) : q \in R}
    BY <1>1, StoredLines
  <2>2. \A q \in R : LineAt(mem, q) \in Int /\ LineAt(mem, q) >= 0 /\ q \in Int /\ q < PEND /\ PEND \in Int
    BY <1>1, InRecord, WordsAre
  <2> QED BY <2>1, <2>2
<1>3. ASSUME RUNNING = 0 PROVE AtLine = -1 /\ Unbegun = FALSE
  BY <1>3 DEF AtLine, Unbegun
<1>4. ASSUME RUNNING = 1, OnRecord PROVE AtLine = LineAt(mem, EPTR) /\ AtLine \in DOMAIN Lines
  BY <1>1, <1>2, <1>4 DEF AtLine, past_end, OnRecord
<1>5. ASSUME RUNNING = 1 PROVE AtLine # -1
  <2>1. CASE past_end
    <3>1. AtLine = WORD
      BY <1>5, <2>1 DEF AtLine
    <3> QED BY <3>1 DEF WORD
  <2>2. CASE ~past_end
    <3>1. EPTR \in Nat /\ PEND \in Nat /\ ~(EPTR >= PEND)
      BY <2>2, TheEnd, Sizes DEF past_end, IInv, StoreHolds
    <3>2. pc \in {"EXEC_STMT", "eval", "input", "run_loop", "executed"}
      BY <1>5 DEF IInv, CallsHold, Stands
    <3>3. CASE pc = "executed"
      <4>1. AfterStatement
        BY <1>5, <3>3 DEF IInv, Stands
      <4>2. EPTR \in PROG .. LIMIT - 3 => EPTR >= PROG
        BY Sizes
      <4>3. OnRecord
        BY <3>1, <4>1, <4>2 DEF AfterStatement
      <4> QED BY <1>1, <1>2, <1>4, <1>5, <4>3 DEF OnRecord
    <3>4. CASE pc # "executed"
      <4>1. OnRecord
        BY <1>5, <3>1, <3>2, <3>4 DEF IInv, Stands
      <4> QED BY <1>1, <1>2, <1>4, <1>5, <4>1 DEF OnRecord
    <3> QED BY <3>3, <3>4
  <2> QED BY <2>1, <2>2
<1> QED BY <1>3, <1>4, <1>5

(* No store is written and no pointer moves.                               *)
LEMMA LinesStay ==
  ASSUME UNCHANGED <<mem, PEND>> PROVE Lines' = Lines
BY DEF Lines

(* A statement returns or goes on, and leaves program and flags alone.     *)
LEMMA StatementRests ==
  ASSUME IInv, pc \in {"EXEC_STMT", "eval", "input"},
         pc' \in {"EXEC_STMT", "eval", "input"} \/ pc' = Head(calls),
         UNCHANGED <<mem, PEND, EPTR, RUNNING, GOFLAG>>
  PROVE  /\ UNCHANGED <<Lines, AtLine, Unbegun>> /\ Unbegun = FALSE
         /\ RUNNING = 1 => AtLine # -1 /\ AtLine \in DOMAIN Lines
         /\ RUNNING = 0 => AtLine = -1
<1>1. Lines' = Lines
  BY LinesStay
<1>2. AtLine' = AtLine
  BY DEF AtLine, past_end
<1>3. RUNNING \in {0, 1}
  BY DEF IInv, Flags
<1>4. Unbegun = FALSE /\ Unbegun' = FALSE
  <2>1. CASE RUNNING = 0
    BY <2>1 DEF Unbegun
  <2>2. CASE RUNNING = 1
    <3>1. Head(calls) = "executed" /\ GOFLAG = 0
      BY <2>2 DEF IInv, Stands
    <3>2. pc # "run_loop" /\ pc' # "run_loop"
      BY <3>1
    <3> QED BY <3>1, <3>2 DEF Unbegun
  <2> QED BY <1>3, <2>1, <2>2
<1>5. RUNNING = 1 => OnRecord
  BY Within
<1> QED BY <1>1, <1>2, <1>4, <1>5, Standing

(* A statement that says nothing of the program.                           *)
LEMMA StatementKeeps ==
  ASSUME IInv, pc \in {"EXEC_STMT", "eval", "input"},
         pc' \in {"EXEC_STMT", "eval", "input"} \/ pc' = Head(calls),
         UNCHANGED <<mem, PEND, EPTR, RUNNING, GOFLAG, said>>
  PROVE  Follow
<1>1. UNCHANGED <<Lines, AtLine, Unbegun>>
  BY StatementRests
<1> QED BY <1>1 DEF Follow

(* A statement that stops the program, or complains at the prompt.         *)
LEMMA StatementStops ==
  ASSUME IInv, RUNNING' = 0, UNCHANGED <<mem, PEND>>, said' \in {said} \cup Program!Complaints
  PROVE  Follow
<1>1. Lines' = Lines /\ AtLine' = -1 /\ Unbegun' = FALSE
  <2>1. Lines' = Lines
    BY LinesStay
  <2>2. AtLine' = -1 /\ Unbegun' = FALSE
    BY DEF AtLine, Unbegun
  <2> QED BY <2>1, <2>2
<1>2. RUNNING \in {0, 1}
  BY DEF IInv, Flags
<1>3. CASE RUNNING = 1
  <2>1. AtLine # -1
    BY <1>3, Standing
  <2> QED BY <1>1, <2>1, MayStop
<1>4. CASE RUNNING = 0
  <2>1. AtLine = -1 /\ Unbegun = FALSE
    BY <1>4, Standing
  <2>2. UNCHANGED <<Lines, AtLine, Unbegun>>
    BY <1>1, <2>1
  <2>3. CASE said' = said
    BY <2>2, <2>3 DEF Follow
  <2>4. CASE said' \in Program!Complaints
    BY <2>1, <2>2, <2>4, MaySay
  <2> QED BY <2>3, <2>4
<1> QED BY <1>2, <1>3, <1>4

(* A jump to a line that is there, or a complaint.                         *)
LEMMA JumpKeeps ==
  ASSUME IInv, pc \in {"EXEC_STMT", "eval", "input"}, NEW n \in Words, do_GOTO(n)
  PROVE  Follow
<1> DEFINE p == FIND_LINE(mem, PEND, n)
<1>1. EPTR' = p /\ pc' = Head(calls) /\ UNCHANGED <<mem, PEND>>
  BY DEF do_GOTO, Back
<1>2. RUNNING \in {0, 1}
  BY DEF IInv, Flags
<1>3. CASE Found(mem, PEND, n)
  <2>1. GOFLAG' = 1 /\ RUNNING' = RUNNING /\ said' = said
    BY <1>3 DEF do_GOTO
  <2>2. Lines' = Lines
    BY <1>1, LinesStay
  <2>3. CASE RUNNING = 0
    <3>1. AtLine' = -1 /\ Unbegun' = FALSE
      BY <2>1, <2>3 DEF AtLine, Unbegun
    <3>2. AtLine = -1 /\ Unbegun = FALSE
      BY <2>3, Standing
    <3> QED BY <2>1, <2>2, <3>1, <3>2 DEF Follow
  <2>4. CASE RUNNING = 1
    <3>1. PICK R : Chain(mem, PEND, R)
      BY DEF IInv, StoreHolds, Whole
    <3>2. p \in R \cup {PEND} /\ PEND \in Nat /\ DOMAIN Lines = {LineAt(mem, q) : q \in R}
      <4>1. DOMAIN Lines = {LineAt(mem, q) : q \in R}
        BY <3>1, StoredLines
      <4>2. PEND \in Nat
        BY <3>1, Sizes DEF Chain
      <4>3. p \in R \cup {PEND}
        BY <3>1, FindsPlace
      <4> QED BY <4>1, <4>2, <4>3
    <3>3. p < PEND
      BY <1>3 DEF Found
    <3> HIDE DEF p
    <3>4. p \in R /\ p \in Int
      BY <3>1, <3>2, <3>3, InRecord
    <3>5. ~(p >= PEND)
      BY <3>2, <3>3, <3>4
    <3>6. AtLine' = LineAt(mem, p)
      BY <1>1, <2>1, <2>4, <3>5 DEF AtLine, past_end
    <3>7. Unbegun' = TRUE
      BY <2>1, <2>4 DEF Unbegun
    <3>8. AtLine # -1
      BY <2>4, Standing
    <3>9. Unbegun = FALSE
      <4>1. GOFLAG = 0 /\ pc # "run_loop"
        BY <2>4, Within
      <4> QED BY <4>1 DEF Unbegun
    <3>10. LineAt(mem, p) \in DOMAIN Lines
      BY <3>2, <3>4
    <3> QED BY <2>1, <2>2, <3>6, <3>7, <3>8, <3>9, <3>10, MayJump
  <2> QED BY <1>2, <2>3, <2>4
<1>4. CASE ~Found(mem, PEND, n)
  <2>1. RUNNING' = 0 /\ said' = [what |-> "NO SUCH LINE"]
    BY <1>4 DEF do_GOTO
  <2>2. said' \in Program!Complaints
    BY <2>1 DEF Program!Complaints
  <2> QED BY <1>1, <2>1, <2>2, StatementStops
<1> QED BY <1>3, <1>4

(* A line entered into the store is entered into the program, or refused.  *)
LEMMA EnterLineKeeps ==
  ASSUME IInv, NEW n \in Numbers, NEW t \in Texts, EnterLine(n, t) PROVE Follow
<1> DEFINE e == Edited(mem, PEND, n, t)
           fits == HasRoom(n, t)
<1>1. /\ pc = "REPL" /\ mem' = e.mem /\ PEND' = e.pend /\ RUNNING' = RUNNING
      /\ said' = IF e.fits THEN Quiet ELSE [what |-> "PROGRAM TOO BIG"]
  BY DEF EnterLine, STORE_LINE, flow
<1>2. n \in Words /\ t \in Seq(1 .. 255)
  BY BasicAssumption
<1>3. Whole(mem, PEND) /\ RUNNING = 0
  BY <1>1 DEF IInv, StoreHolds, Stands
<1>4. AtLine = -1 /\ Unbegun = FALSE /\ AtLine' = -1 /\ Unbegun' = FALSE
  <2>1. AtLine' = -1 /\ Unbegun' = FALSE
    <3>1. RUNNING' = 0
      BY <1>1, <1>3
    <3> QED BY <3>1 DEF AtLine, Unbegun
  <2> QED BY <1>3, <2>1, Standing
<1>5. Lines' = LinesOf(e.mem, e.pend)
  BY <1>1 DEF Lines
<1> HIDE DEF e
<1>6. Edits(n, t, e)
  <2>1. e = Edited(mem, PEND, n, t)
    BY DEF e
  <2> QED BY <1>2, <1>3, <2>1, EditedMeans
<1>7. said' = IF t = <<>> \/ fits THEN Program!Quiet ELSE [what |-> "PROGRAM TOO BIG"]
  BY <1>1, <1>6 DEF Quiet, Program!Quiet, Edits
<1>8. IF t # <<>> /\ fits
      THEN Lines' = WithLine(n, t) /\ said' = Program!Quiet
      ELSE Lines' = Program!Without(n) /\ said' = IF t = <<>> THEN Program!Quiet ELSE [what |-> "PROGRAM TOO BIG"]
  BY <1>5, <1>6, <1>7 DEF Edits
<1>9. Program!Enter(n, t)
  BY <1>4, <1>8 DEF Program!Enter, Program!NoLine, HasRoom, WithLine
<1> QED BY <1>9 DEF Follow, Program!Next

(* A statement is typed at the prompt.                                     *)
LEMMA EnterStatementKeeps ==
  ASSUME IInv, NEW s \in Typed, EnterStatement(s) PROVE Follow
<1>1. pc = "REPL" /\ RUNNING' = 0 /\ UNCHANGED <<mem, PEND>> /\ said' = Quiet
  BY DEF EnterStatement, store
<1>2. RUNNING = 0
  BY <1>1 DEF IInv, Stands
<1>3. AtLine' = -1 /\ Unbegun' = FALSE /\ Lines' = Lines
  BY <1>1, LinesStay DEF AtLine, Unbegun
<1>4. AtLine = -1 /\ Unbegun = FALSE
  BY <1>2, Standing
<1>5. said' = Program!Quiet
  BY <1>1 DEF Quiet, Program!Quiet
<1> QED BY <1>3, <1>4, <1>5, MaySay

(* The loop stops behind the last line, breaks, or begins the line it is   *)
(* at.                                                                     *)
LEMMA RunLoopKeeps ==
  ASSUME IInv, run_loop PROVE Follow
<1>1. pc = "run_loop" /\ UNCHANGED <<mem, PEND, EPTR>>
  BY DEF run_loop, store
<1>2. RUNNING = 1 /\ (OnRecord \/ EPTR >= PEND)
  BY <1>1 DEF IInv, Stands
<1>3. Lines' = Lines /\ Unbegun = TRUE /\ AtLine # -1
  BY <1>1, <1>2, LinesStay, Standing DEF Unbegun
<1>4. CASE past_end /\ run_done /\ UNCHANGED <<GOFLAG, pending, said>>
  BY <1>1, <1>4, StatementStops DEF run_done
<1>5. CASE /\ ~past_end /\ pending
           /\ pending' = FALSE /\ run_done
           /\ said' = [what |-> "BREAK IN", line |-> LineAt(mem, EPTR)]
           /\ UNCHANGED GOFLAG
  <2>1. OnRecord
    BY <1>2, <1>5 DEF past_end
  <2>2. AtLine = LineAt(mem, EPTR) /\ AtLine \in DOMAIN Lines
    BY <1>2, <2>1, Standing
  <2>3. AtLine' = -1 /\ Unbegun' = FALSE
    <3>1. RUNNING' = 0
      BY <1>5 DEF run_done
    <3> QED BY <3>1 DEF AtLine, Unbegun
  <2>4. said' = [what |-> "BREAK IN", line |-> AtLine]
    BY <1>5, <2>2
  <2>5. Program!Break
    BY <1>3, <2>2, <2>3, <2>4 DEF Program!Break, Program!NoLine
  <2> QED BY <2>5 DEF Follow, Program!Next
<1>6. CASE /\ ~past_end /\ ~pending
           /\ GOFLAG' = 0 /\ stmt' = Table[mem[EPTR + 3]]
           /\ pc' = "EXEC_STMT" /\ calls' = <<"executed">> \o calls
           /\ UNCHANGED <<RUNNING, pending, said>>
  <2>1. OnRecord
    BY <1>2, <1>6 DEF past_end
  <2>2. AtLine \in DOMAIN Lines
    BY <1>2, <2>1, Standing
  <2>3. AtLine' = AtLine /\ Unbegun' = FALSE
    BY <1>1, <1>6 DEF AtLine, past_end, Unbegun
  <2>4. Program!Begin
    BY <1>3, <1>6, <2>2, <2>3 DEF Program!Begin
  <2> QED BY <2>4 DEF Follow, Program!Next
<1> QED BY <1>4, <1>5, <1>6 DEF run_loop

(* After a statement the next line comes up, unless there was a jump.      *)
LEMMA ExecutedKeeps ==
  ASSUME IInv, Executed PROVE Follow
<1>1. pc = "executed" /\ UNCHANGED <<mem, PEND, said>>
  BY DEF Executed, outer
<1>2. Lines' = Lines
  BY <1>1, LinesStay
<1>3. CASE RUNNING = 0 /\ run_done /\ UNCHANGED <<EPTR, GOFLAG>>
  BY <1>1, <1>3, StatementStops DEF run_done
<1>4. CASE /\ RUNNING = 1 /\ pc' = "run_loop"
           /\ EPTR' = IF GOFLAG = 1 THEN EPTR ELSE EPTR + LenAt(mem, EPTR)
           /\ UNCHANGED <<RUNNING, GOFLAG, calls, stmt>>
  <2>1. AfterStatement /\ GOFLAG \in {0, 1}
    BY <1>1, <1>4 DEF IInv, Stands, Flags
  <2>2. Unbegun' = TRUE /\ AtLine # -1
    <3>1. Unbegun' = TRUE
      BY <1>4 DEF Unbegun
    <3> QED BY <1>4, <3>1, Standing
  <2>3. CASE GOFLAG = 1
    <3>1. Unbegun = TRUE /\ AtLine' = AtLine
      BY <1>1, <1>4, <2>3 DEF Unbegun, AtLine, past_end
    <3> QED BY <1>1, <1>2, <2>2, <3>1 DEF Follow
  <2>4. CASE GOFLAG = 0
    <3>1. Unbegun = FALSE /\ EPTR' = EPTR + LenAt(mem, EPTR)
      BY <1>1, <1>4, <2>4 DEF Unbegun
    <3>2. AtLine' = IF EPTR' >= PEND THEN WORD ELSE LineAt(mem, EPTR')
      BY <1>1, <1>4 DEF AtLine, past_end
    <3>3. PICK R : Chain(mem, PEND, R) /\ Starts(mem, PEND) = R
      BY StartsAre DEF IInv, StoreHolds, Whole
    <3>4. AtLine' = Program!After(AtLine)
      <4>1. CASE OnRecord
        <5>1. EPTR \in R /\ AtLine = LineAt(mem, EPTR)
          BY <1>4, <3>3, <4>1, Standing DEF OnRecord
        <5>2. Program!After(LineAt(mem, EPTR)) =
                IF EPTR + LenAt(mem, EPTR) >= PEND THEN WORD ELSE LineAt(mem, EPTR + LenAt(mem, EPTR))
          BY <3>3, <5>1, NextLine
        <5> QED BY <3>1, <3>2, <5>1, <5>2
      <4>2. CASE PEND = PROG /\ EPTR \in PROG .. LIMIT - 3
        <5>1. EPTR \in Int /\ EPTR >= PEND /\ PEND \in Int /\ PROG \in Int
          BY <4>2, Sizes
        <5>2. AtLine = WORD
          BY <1>4, <5>1 DEF AtLine, past_end
        <5>3. EPTR' >= PEND
          <6>1. EPTR \in PROG .. LIMIT - 1 /\ EPTR + 2 \in PROG .. LIMIT - 1
            BY <4>2, Sizes
          <6>2. mem[EPTR + 2] \in Octet
            BY <3>3, <6>1 DEF Chain
          <6>3. PICK len : len = LenAt(mem, EPTR)
            OBVIOUS
          <6>4. len \in Int /\ 0 <= len
            BY <6>2, <6>3, OctetsAre DEF LenAt
          <6>5. EPTR' = EPTR + len
            BY <3>1, <6>3
          <6> QED BY <5>1, <6>4, <6>5
        <5>4. AtLine' = WORD
          BY <3>2, <5>3
        <5>5. DOMAIN Lines \subseteq Words /\ WORD \in Int
          BY <3>3, StoredLines, WordsAreInt
        <5>6. DOMAIN Lines = {}
          <6>1. R = {}
            BY <3>3, <4>2, <5>1 DEF Chain
          <6>2. DOMAIN Lines = {LineAt(mem, q) : q \in R}
            BY <3>3, StoredLines
          <6> QED BY <6>1, <6>2
        <5>7. Program!After(WORD) = WORD
          BY <5>5, <5>6, AfterIs
        <5> QED BY <5>2, <5>4, <5>7
      <4> QED BY <2>1, <4>1, <4>2 DEF AfterStatement
    <3>5. Program!Advance
      BY <1>1, <1>2, <2>2, <3>1, <3>4 DEF Program!Advance, Program!NoLine
    <3> QED BY <3>5 DEF Follow, Program!Next
  <2> QED BY <2>1, <2>3, <2>4
<1> QED BY <1>3, <1>4 DEF Executed

(* RUN begins with the first line; in a program it is a jump there.        *)
LEMMA RunKeeps ==
  ASSUME IInv, cmd_RUN PROVE Follow
<1>1. /\ pc = "EXEC_STMT" /\ EPTR' = PROG /\ RUNNING' = 1 /\ pc' = "run_loop"
      /\ UNCHANGED <<mem, PEND, said>>
  BY DEF cmd_RUN, Executes
<1>2. Lines' = Lines
  BY <1>1, LinesStay
<1>3. Unbegun' = TRUE
  BY <1>1 DEF Unbegun
<1>4. AtLine' = IF PROG >= PEND THEN WORD ELSE LineAt(mem, PROG)
  BY <1>1 DEF AtLine, past_end
<1>5. PICK R : Chain(mem, PEND, R) /\ Starts(mem, PEND) = R
  BY StartsAre DEF IInv, StoreHolds, Whole
<1>6. RUNNING \in {0, 1}
  BY DEF IInv, Flags
<1>7. CASE RUNNING = 0
  <2>1. AtLine = -1
    BY <1>7, Standing
  <2>2. AtLine' = Program!After(-1)
    BY <1>4, <1>5, FirstLine
  <2>3. Program!Run
    BY <1>1, <1>2, <1>3, <2>1, <2>2 DEF Program!Run, Program!NoLine
  <2> QED BY <2>3 DEF Follow, Program!Next
<1>8. CASE RUNNING = 1
  <2>1. OnRecord /\ GOFLAG = 0
    BY <1>1, <1>8, Within
  <2>2. PROG \in R /\ ~(PROG >= PEND)
    <3>1. EPTR \in R
      BY <1>5, <2>1 DEF OnRecord
    <3>2. EPTR \in Int /\ EPTR >= PROG /\ EPTR < PEND /\ PEND \in Nat
      BY <1>5, <3>1, InRecord
    <3>3. PROG \in R \cup {PEND}
      BY <1>5 DEF Chain
    <3> QED BY <3>2, <3>3, Sizes
  <2>3. AtLine' \in DOMAIN Lines
    <3>1. DOMAIN Lines = {LineAt(mem, q) : q \in R}
      BY <1>5, StoredLines
    <3> QED BY <1>4, <2>2, <3>1
  <2>4. Unbegun = FALSE
    BY <1>1, <2>1 DEF Unbegun
  <2>5. AtLine # -1
    BY <1>8, Standing
  <2> QED BY <1>1, <1>2, <1>3, <2>3, <2>4, <2>5, MayJump
<1> QED BY <1>6, <1>7, <1>8

(* A store that ends where it begins holds no line.                        *)
LEMMA NoLines ==
  ASSUME NEW m \in [PROG .. LIMIT - 1 -> Octet]
  PROVE  LinesOf(m, PROG) = Program!Nothing
<1>1. Chain(m, PROG, {})
  <2>1. PROG \in PROG .. LIMIT
    BY Sizes
  <2> QED BY <2>1 DEF Chain
<1>2. Tells(LinesOf(m, PROG), Content(m, {}))
  BY <1>1, LinesTell
<1>3. Tells(Program!Nothing, Content(m, {}))
  <2>1. DOMAIN Program!Nothing = {} /\ Program!Nothing = [x \in {} |-> Program!Nothing[x]]
    BY DEF Program!Nothing
  <2> QED BY <2>1 DEF Tells, Content
<1> QED BY <1>2, <1>3, TellOne

(* NEW leaves no line, and a program that runs at its end.                 *)
LEMMA NewKeeps ==
  ASSUME IInv, cmd_NEW PROVE Follow
<1>1. pc = "EXEC_STMT" /\ PEND' = PROG /\ pc' = Head(calls) /\ UNCHANGED <<mem, EPTR, RUNNING, GOFLAG, said>>
  BY DEF cmd_NEW, Executes, Back, outer
<1>2. Lines' = Program!Nothing
  BY <1>1, StoredBytes, NoLines DEF Lines, IInv, StoreHolds
<1>3. RUNNING \in {0, 1}
  BY DEF IInv, Flags
<1>4. CASE RUNNING = 0
  <2>1. AtLine = -1 /\ Unbegun = FALSE
    BY <1>4, Standing
  <2>2. AtLine' = -1 /\ Unbegun' = FALSE
    BY <1>1, <1>4 DEF AtLine, Unbegun
  <2>3. Program!New
    BY <1>1, <1>2, <2>1, <2>2 DEF Program!New, Program!NoLine
  <2> QED BY <2>3 DEF Follow, Program!Next
<1>5. CASE RUNNING = 1
  <2>1. OnRecord /\ GOFLAG = 0 /\ Head(calls) = "executed"
    BY <1>1, <1>5, Within DEF IInv, Stands
  <2>2. Unbegun = FALSE /\ Unbegun' = FALSE
    BY <1>1, <2>1 DEF Unbegun
  <2>3. EPTR >= PROG
    <3>1. EPTR \in PROG .. LIMIT - 3
      BY <2>1, AtRecord DEF IInv, StoreHolds
    <3> QED BY <3>1, Sizes
  <2>4. AtLine' = Program!PastEnd
    <3>1. AtLine' = WORD
      BY <1>1, <1>5, <2>3 DEF AtLine, past_end
    <3> QED BY <3>1 DEF Program!PastEnd, WORD
  <2>5. AtLine # -1
    BY <1>5, Standing
  <2>6. Program!New
    BY <1>1, <1>2, <2>2, <2>4, <2>5 DEF Program!New, Program!NoLine
  <2> QED BY <2>6 DEF Follow, Program!Next
<1> QED BY <1>3, <1>4, <1>5

(* LIST prints them.                                                        *)
LEMMA ListKeeps ==
  ASSUME IInv, cmd_LIST PROVE Follow
<1>1. /\ pc = "EXEC_STMT" /\ pc' = Head(calls) /\ UNCHANGED <<mem, PEND, EPTR, RUNNING, GOFLAG>>
      /\ said' = [what |-> "LIST", lines |-> Listed(mem, PEND)]
  BY DEF cmd_LIST, Executes, Back, store
<1>2. PICK R : Chain(mem, PEND, R)
  BY DEF IInv, StoreHolds, Whole
<1>3. said' = [what |-> "LIST", lines |-> Program!Listing]
  BY <1>1, <1>2, ListedIs
<1>4. UNCHANGED <<Lines, AtLine, Unbegun>> /\ Unbegun = FALSE
  BY <1>1, StatementRests
<1> QED BY <1>3, <1>4, MaySay

(* PRINT prints a word.                                                    *)
LEMMA PrintKeeps ==
  ASSUME IInv, cmd_PRINT PROVE Follow
<1>1. /\ Evaluated /\ pc' = Head(calls) /\ UNCHANGED <<mem, PEND, EPTR, RUNNING, GOFLAG>> /\ Forget
      /\ said' = [what |-> "PRINT", value |-> cells[AR]]
  BY DEF cmd_PRINT, Back, store
<1>2. pc \in {"EXEC_STMT", "eval", "input"} /\ cells[AR] \in Words
  BY <1>1, ValueUsed
<1>3. said' \in [what : {"PRINT"}, value : Program!Words]
  <2>1. Program!Words = Words
    <3>1. Program!PastEnd = WORD
      BY DEF Program!PastEnd, WORD
    <3> QED BY <3>1 DEF Program!Words, Words
  <2> QED BY <1>1, <1>2, <2>1
<1>4. UNCHANGED <<Lines, AtLine, Unbegun>> /\ Unbegun = FALSE
  BY <1>1, <1>2, StatementRests
<1> QED BY <1>3, <1>4, MaySay

(* A statement, whichever it is.                                           *)
LEMMA StatementFollows ==
  ASSUME IInv, Statement PROVE Follow
<1>1. CASE cmd_RUN
  BY <1>1, RunKeeps
<1>2. CASE cmd_NEW
  BY <1>2, NewKeeps
<1>3. CASE cmd_END
  BY <1>3, StatementStops DEF cmd_END, store, outer
<1>4. CASE cmd_LIST
  BY <1>4, ListKeeps
<1>5. CASE cmd_GOTO
  <2>1. stmt.line \in Words /\ pc \in {"EXEC_STMT", "eval", "input"} /\ do_GOTO(stmt.line)
    BY <1>5 DEF cmd_GOTO, Executes, IInv, StmtHolds, IsStatement
  <2> QED BY <2>1, JumpKeeps
<1>6. CASE cmd_INPUT
  BY <1>6, StatementKeeps DEF cmd_INPUT, Executes, store, outer
<1>7. CASE es_err
  <2>1. RUNNING' = 0 /\ UNCHANGED <<mem, PEND>> /\ said' \in Program!Complaints
    BY <1>7 DEF es_err, store, Program!Complaints
  <2> QED BY <2>1, StatementStops
<1>8. CASE Rem
  BY <1>8, StatementKeeps DEF Rem, Executes, Back, store, outer
<1>9. CASE Evaluate
  BY <1>9, StatementKeeps DEF Evaluate, Executes, store, outer
<1>10. CASE Evaluating
  BY <1>10, StatementKeeps DEF Evaluating, flow, store, outer
<1>11. CASE cmd_PRINT
  BY <1>11, PrintKeeps
<1>12. CASE do_LET
  BY <1>12, StatementKeeps DEF do_LET, Evaluated, Back, store
<1>13. CASE cmd_IF
  <2>1. pc \in {"EXEC_STMT", "eval", "input"} /\ stmt.line \in Words
    BY <1>13 DEF cmd_IF, Evaluated, IInv, StmtHolds, IsStatement
  <2>2. CASE do_GOTO(stmt.line)
    BY <2>1, <2>2, JumpKeeps
  <2>3. CASE Back /\ UNCHANGED <<store, RUNNING, GOFLAG, outer>>
    BY <2>1, <2>3, StatementKeeps DEF Back, store, outer
  <2> QED BY <1>13, <2>2, <2>3 DEF cmd_IF
<1> QED BY <1>1, <1>2, <1>3, <1>4, <1>5, <1>6, <1>7, <1>8, <1>9, <1>10, <1>11, <1>12, <1>13 DEF Statement

(* What leaves the store, the pointer, the flags and the loop alone.       *)
LEMMA NothingSeen ==
  ASSUME UNCHANGED <<mem, PEND, EPTR, RUNNING, GOFLAG, pc, said>>
  PROVE  Follow
<1>1. Lines' = Lines
  BY LinesStay
<1>2. AtLine' = AtLine /\ Unbegun' = Unbegun
  BY DEF AtLine, past_end, Unbegun
<1> QED BY <1>1, <1>2 DEF Follow

(* Every step is one of the sorted program, or none of it.                 *)
LEMMA StepFollows ==
  ASSUME IInv, [Next]_vars PROVE Follow
<1>1. CASE Interpreter
  BY <1>1, RunLoopKeeps, ExecutedKeeps, StatementFollows DEF Interpreter
<1>2. CASE CtrlC
  BY <1>2, NothingSeen DEF CtrlC, store, flow
<1>3. ASSUME NEW n \in Numbers, NEW t \in Texts, EnterLine(n, t) PROVE Follow
  BY <1>3, EnterLineKeeps
<1>4. ASSUME NEW s \in Typed, EnterStatement(s) PROVE Follow
  BY <1>4, EnterStatementKeeps
<1>5. ASSUME NEW w \in Inputs, EnterNumber(w) PROVE Follow
  BY <1>5, StatementKeeps DEF EnterNumber, Back, store
<1>6. CASE UNCHANGED vars
  BY <1>6, NothingSeen DEF vars
<1> QED BY <1>1, <1>2, <1>3, <1>4, <1>5, <1>6 DEF Next, User

(* The store begins empty, and no program runs.                            *)
LEMMA InitFollows ==
  ASSUME Init PROVE Program!Init
<1>1. mem \in [PROG .. LIMIT - 1 -> Octet] /\ PEND = PROG /\ RUNNING = 0 /\ said = Quiet
  <2>1. 0 \in Octet
    BY DEF Octet
  <2> QED BY <2>1 DEF Init, StoreInit
<1>2. Lines = Program!Nothing
  BY <1>1, NoLines DEF Lines
<1>3. AtLine = -1 /\ Unbegun = FALSE
  BY <1>1 DEF AtLine, Unbegun
<1> QED BY <1>1, <1>2, <1>3 DEF Program!Init, Program!NoLine, Program!Quiet, Quiet

(* The bytes, the shifting of them and the pointers do what the sorted     *)
(* program with its next line does: whatever is entered, deleted, refused, *)
(* run, broken off or jumped to, LIST shows and RUN runs the lines entered *)
(* last, in the order of their numbers.                                    *)
THEOREM ProgramKept == Spec => KeepsProgram
<1>1. Init => Program!Init
  BY InitFollows
<1>2. IInv /\ [Next]_vars => [Program!Next]_<<Lines, AtLine, Unbegun, said>>
  BY StepFollows DEF Follow
<1> QED BY <1>1, <1>2, Invariance, PTL DEF Spec, KeepsProgram, Program!Spec
=============================================================================
