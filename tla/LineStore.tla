----------------------------- MODULE LineStore -----------------------------
(***************************************************************************)
(* The program text of Nano BASIC: line records one after another from     *)
(* PROG up to PEND, sorted by line number.  A record is the line number,   *)
(* low byte first, the length of the record, the text and a NUL.           *)
(***************************************************************************)
EXTENDS Naturals, Sequences, FiniteSets, SequencesExt

CONSTANTS PROG,         \* where the first record starts
          LIMIT,        \* where the code of the interpreter starts
          TooLong       \* the length of text that no longer fits a record

ASSUME LineStoreAssumption ==
  PROG \in Nat /\ LIMIT \in Nat /\ PROG < LIMIT /\ TooLong \in 1 .. 252

VARIABLES mem,          \* the bytes from PROG on
          PEND,         \* past the last record
          EPTR          \* the record at hand

store == <<mem, PEND, EPTR>>

NUL         == 0
Lo(n)       == n % 256
Hi(n)       == n \div 256
LineAt(m, p) == m[p] + 256 * m[p + 1]
LenAt(m, p)  == m[p + 2]

StoreInit == mem = [a \in PROG .. LIMIT - 1 |-> 0] /\ PEND = PROG /\ EPTR = PROG

Below(m, p, n) == m[p + 1] < Hi(n) \/ (m[p + 1] = Hi(n) /\ m[p] < Lo(n))

(* A turn of a loop over the records passes one, of four bytes or more. *)
Turns == (LIMIT - PROG) \div 4

(* where line n is, or the record it has to be inserted before: the        *)
(* pointer after each turn of the loop                                     *)
FIND_LINE(m, pend, n) ==
  LET turn == [p \in Nat |-> IF p < pend /\ Below(m, p, n) THEN p + LenAt(m, p) ELSE p]
      walk[i \in 0 .. Turns] == IF i = 0 THEN PROG ELSE turn[walk[i - 1]]
  IN  walk[Turns]

Found(m, pend, n) ==
  LET p == FIND_LINE(m, pend, n) IN p < pend /\ LineAt(m, p) = n

(* both move one byte after another: up from the last, down from the first *)
shift_right(m, from, to, by) ==
  LET moved[i \in 0 .. to - from] ==
        IF i = 0 THEN m
        ELSE LET mm == moved[i - 1] IN [mm EXCEPT ![to - i + by] = mm[to - i]]
  IN  moved[to - from]

shift_left(m, from, to, by) ==
  LET moved[i \in 0 .. to - (from + by)] ==
        IF i = 0 THEN m
        ELSE LET mm == moved[i - 1] IN [mm EXCEPT ![from + i - 1] = mm[from + by + i - 1]]
  IN  moved[to - (from + by)]

RecordUnended(n, text) == <<Lo(n), Hi(n), Len(text) + 4>> \o text \o <<Last(text)>>
Record(n, text) == <<Lo(n), Hi(n), Len(text) + 4>> \o text \o <<NUL>>

(* sl_ins, with the record to insert before at p *)
Insert(m, pend, p, n, text) ==
  LET len == Len(text) + 4
      fits == Len(text) < TooLong /\ pend + len <= LIMIT
      moved == shift_right(m, p, pend, len)
  IN CASE text = <<>> -> [mem |-> m, pend |-> pend, at |-> p, fits |-> TRUE]
       [] text # <<>> /\ ~fits -> [mem |-> m, pend |-> pend, at |-> p, fits |-> FALSE]
       [] text # <<>> /\ fits ->
            [mem |-> [a \in DOMAIN m |-> IF a \in p .. p + len - 1
                                         THEN Record(n, text)[a - p + 1] ELSE moved[a]],
             pend |-> pend + len, at |-> p, fits |-> TRUE]

(* a line that is there is deleted first, also when it is replaced *)
Edited(m, pend, n, text) ==
  LET p == FIND_LINE(m, pend, n)
      old == LenAt(m, p)
      cut == shift_left(m, p, pend, old)
  IN CASE ~Found(m, pend, n) -> Insert(m, pend, p, n, text)
       [] Found(m, pend, n) /\ text = <<>> ->
            [mem |-> cut, pend |-> pend - old, at |-> p, fits |-> TRUE]
       [] Found(m, pend, n) /\ text # <<>> ->
            Insert(cut, pend - old, FIND_LINE(cut, pend - old, n), n, text)

STORE_LINE(n, text) ==
  LET e == Edited(mem, PEND, n, text) IN mem' = e.mem /\ PEND' = e.pend /\ EPTR' = e.at

(***************************************************************************)
(* What the bytes stand for                                                *)
(***************************************************************************)
(* where records start: at PROG, and where another ends before PEND *)
Starts(m, pend) ==
  LET follow == [S \in SUBSET Nat |-> S \cup {p + LenAt(m, p) : p \in {q \in S : q < pend}}]
      found[i \in 0 .. Turns] == IF i = 0 THEN {PROG} ELSE follow[found[i - 1]]
  IN  {p \in found[Turns] : p < pend}

TextAt(m, p) == [i \in 1 .. LenAt(m, p) - 4 |-> m[p + 2 + i]]

(* what ls_loop prints on its way from PROG until it meets PEND *)
Listed(m, pend) ==
  LET turn == [p \in Nat |-> IF p = pend THEN p ELSE p + LenAt(m, p)]
      walk[i \in 0 .. Turns] == IF i = 0 THEN PROG ELSE turn[walk[i - 1]]
      prints == Cardinality({i \in 0 .. Turns : walk[i] # pend})
  IN  [i \in 1 .. prints |-> <<LineAt(m, walk[i - 1]), TextAt(m, walk[i - 1])>>]

LinesOf(m, pend) ==
  LET read == [S \in SUBSET Nat |->
                 [n \in {LineAt(m, p) : p \in S} |->
                    TextAt(m, CHOOSE p \in S : LineAt(m, p) = n)]]
  IN  read[Starts(m, pend)]

Lines == LinesOf(mem, PEND)

(* the records end at PEND, in the code's own limits, sorted *)
StoreSound ==
  LET at == Starts(mem, PEND)
  IN /\ PEND \in PROG .. LIMIT
     /\ \A p \in at :
          /\ LenAt(mem, p) > 4
          /\ p + LenAt(mem, p) \in at \cup {PEND}
          /\ mem[p + LenAt(mem, p) - 1] = NUL
          /\ \A q \in at : p < q => LineAt(mem, p) < LineAt(mem, q)
=============================================================================
