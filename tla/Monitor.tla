------------------------------ MODULE Monitor ------------------------------
(***************************************************************************)
(* The m6502 program: its run loop, the monitor with its breakpoints,      *)
(* watchpoints and history, and the devices of Console.  An instruction    *)
(* takes one cell and is known by what it accesses and by where it goes;   *)
(* of the registers there is the one that holds what was read last.        *)
(* Memory outside Code is zero, so that it holds BRK and its vectors point *)
(* to address 0.                                                           *)
(***************************************************************************)
EXTENDS Console, Integers

CONSTANTS Image,        \* a sequence of instructions: the file that is loaded
          Entered,      \* the instructions the user puts in memory by hand
          MAX_BREAK, MAX_WATCH, HIST_SIZE,
          Named,        \* the addresses of code the user names in a command
          Shown,        \* those outside it that the user lists or goes to
          Watchable,    \* the addresses the user watches
          MaxSteps      \* bound: the argument of s

CODE_START == 2048
IO_IN_STAT == 61442
IO_IN_DATA == 61443
IO_BRK     == 61444
Registers  == {IO_IN_STAT, IO_IN_DATA, IO_BRK}
Stack      == 511       \* stands for the cells a push writes
Vectors    == 65534     \* stands for the vectors an interrupt reads

UINT16_MAX == 65535
Word == 0 .. UINT16_MAX
Code == CODE_START .. CODE_START + Len(Image) - 1
Brk  == [op |-> "brk", arg |-> 0]

ASSUME MonitorAssumption ==
  /\ MAX_BREAK \in Nat /\ MAX_WATCH \in Nat /\ HIST_SIZE \in Nat \ {0} /\ MaxSteps \in Nat
  /\ Watchable \subseteq Word /\ Named \subseteq Code /\ Shown \subseteq Word
  /\ Image # <<>> /\ Len(Image) < 1024

VARIABLES running, at,            \* where in main.c the program is
          pc, acc,                \* program counter, last value read # 0
          mem,                    \* RAM, at Code
          bpoints, watches,
          fired,                  \* watch_fired and what it reports
          hist, head, count       \* the history ring

machine == <<pc, acc, mem>>
tables  == <<bpoints, watches>>
history == <<hist, head, count>>
vars    == <<running, at, machine, tables, fired, history, console>>

In(place) == running /\ at.in = place
Place(p)  == [in |-> p]
Loaded    == [a \in Code |-> Image[a - CODE_START + 1]]
Cleared   == [a \in Code |-> Brk]
Fetch(a)  == IF a \in Code THEN mem[a] ELSE Brk
On(m, a)  == [addr |-> a, mode |-> m]
Access    == [addr : Word, mode : {"read", "write"}]
Quiet     == On("none", 0)        \* watch_fired = 0

(***************************************************************************)
(* Watchpoints                                                             *)
(***************************************************************************)
Watched(access) ==
  \E i \in DOMAIN watches : watches[i].addr = access.addr /\ access.mode \in watches[i].modes

(* check_watch on each access in turn: the last one that matches is kept *)
Check(was, accesses) ==
  LET last == SelectLastInSeq(accesses, Watched) IN IF last = 0 THEN was ELSE accesses[last]

Reads(s) == [i \in DOMAIN s |-> On("read", s[i] % 65536)]

Interrupt == <<On("write", Stack), On("read", Vectors)>>

Accesses(i) ==
  Reads(<<pc>>) \o CASE i.op = "brk" -> Interrupt
                     [] i.op = "lda" -> Reads(<<i.arg>>)
                     [] i.op = "sta" -> <<On("write", i.arg)>>
                     [] OTHER        -> <<>>

(***************************************************************************)
(* The devices                                                             *)
(***************************************************************************)
StatusForever(v) == Peek(v) /\ running' = running
Status(v)        == Peek(v) /\ running' = (running /\ ~PeekEnds)

(* mem_read for r of a device, or of RAM, whose values are left out *)
Device(r, a, v) ==
  CASE a = IO_IN_STAT -> Status(v)
    [] a = IO_IN_DATA -> GetChar(r, v) /\ running' = running
    [] a = IO_BRK     -> ReadBreak(v) /\ running' = running
    [] OTHER          -> UNCHANGED <<running, console>>

(***************************************************************************)
(* Listings.  m6502_disasm reads three bytes, and those of the instruction *)
(* once more, through the same callbacks as the processor.  How many those *)
(* are is known of a cell of memory; in a register the bytes $00 and $FF,  *)
(* or any, may be found.                                                   *)
(***************************************************************************)
Lengths(a) ==
  CASE a % 65536 = IO_IN_DATA           -> 1 .. 3
    [] a % 65536 \in {IO_IN_STAT, IO_BRK} -> {1, 3}
    [] OTHER                            -> {1}

Disassembly(a, n) == <<a, a + 1, a + 2>> \o SubSeq(<<a, a + 1, a + 2>>, 1, n)

(* show_dasm of three lines: none after the end of memory *)
ThreeLines(a, x, y, z) ==
  Disassembly(a, x) \o
    IF a + x > UINT16_MAX THEN <<>>
    ELSE Disassembly(a + x, y) \o
           IF a + x + y > UINT16_MAX THEN <<>> ELSE Disassembly(a + x + y, z)

(* The registers that are still to be read, and where the program is then *)
OnRegister(a) == a % 65536 \in Registers
Listing(reads, place) ==
  LET first == SelectInSeq(reads, OnRegister)
  IN  IF first = 0 THEN place
      ELSE [in |-> "listing", reads |-> SubSeq(reads, first, Len(reads)), then |-> place]

ListRegister ==
  /\ at.in = "listing"
  /\ \E v \in BOOLEAN : Device("listing", Head(at.reads) % 65536, v)
  /\ at' = Listing(Tail(at.reads), at.then)
  /\ UNCHANGED <<machine, tables, fired, history>>

(***************************************************************************)
(* One instruction: hist_push, watch_fired = 0, m6502_step                 *)
(***************************************************************************)
PushedAhead ==
  /\ head' = (head + 1) % HIST_SIZE
  /\ hist' = [hist EXCEPT ![head'] = pc]
  /\ count' = IF count < HIST_SIZE THEN count + 1 ELSE count

Pushed ==
  /\ hist' = [hist EXCEPT ![head] = pc]
  /\ head' = (head + 1) % HIST_SIZE
  /\ count' = IF count < HIST_SIZE THEN count + 1 ELSE count

AfterDisassemblyUncleared == Check(fired, Reads(Disassembly(pc, 1)))
AfterDisassembly == Quiet

Does(i) ==
  /\ pc' = CASE i.op = "brk" -> 0
             [] i.op = "jmp" \/ (i.op = "beq" /\ ~acc) -> i.arg
             [] OTHER -> (pc + 1) % 65536
  /\ IF i.op = "lda" THEN acc' \in BOOLEAN /\ Device("program", i.arg, acc')
                     ELSE UNCHANGED <<acc, running, console>>
  /\ mem' = mem

Execute ==
  /\ Pushed
  /\ fired' = Check(AfterDisassembly, Accesses(Fetch(pc)))
  /\ Does(Fetch(pc))
  /\ UNCHANGED tables

(***************************************************************************)
(* run_loop                                                                *)
(***************************************************************************)
bp_hit(a) == a \in ToSet(bpoints)

EnterMonitor ==
  /\ In("stopped")
  /\ \E x \in Lengths(pc) : \E y \in Lengths(pc + x) : \E z \in Lengths(pc + x + y) :
       LET lines == ThreeLines(pc, x, y, z)
       IN  fired' = Check(fired, Reads(lines)) /\ at' = Listing(lines, Place("prompt"))
  /\ UNCHANGED <<running, machine, tables, history, console>>

StopAtBreakpoint ==
  /\ In("running") /\ bp_hit(pc) /\ at' = Place("stopped")
  /\ UNCHANGED <<running, machine, tables, fired, history, console>>

StopAtBrk ==
  /\ In("running") /\ ~bp_hit(pc) /\ Fetch(pc) = Brk
  /\ pc' = (pc + 1) % 65536 /\ at' = Place("stopped")
  /\ UNCHANGED <<running, acc, mem, tables, fired, history, console>>

RunOne ==
  /\ In("running") /\ ~bp_hit(pc) /\ Fetch(pc) # Brk /\ Execute
  /\ at' = IF fired' = Quiet THEN at ELSE Place("stopped")

(***************************************************************************)
(* s and a, which go on after their command line                           *)
(***************************************************************************)
(* The instruction at p is listed, and again for the history, before the   *)
(* first of k is executed.  What the processor does with one that it       *)
(* fetches from a register is not followed.                                *)
Stepping(p, k) ==
  LET next == IF p \in Registers THEN Place("register") ELSE [in |-> "step", left |-> k]
  IN  {Listing(Disassembly(p, n) \o Disassembly(p, m), next) : n, m \in Lengths(p)}

(* also when the listing has just met the end of the input *)
StepOne ==
  /\ at.in = "step" /\ Execute
  /\ IF fired' # Quiet \/ at.left = 1 \/ ~running' THEN at' = Place("prompt")
                                                   ELSE at' \in Stepping(pc', at.left - 1)

Assemble ==
  /\ In("asm") /\ ReadLine
  /\ \/ \E i \in Entered :                       \* an instruction, then shown
          /\ at.cursor \in Code
          /\ mem' = [mem EXCEPT ![at.cursor] = i] /\ at' = [at EXCEPT !.cursor = @ + 1]
          /\ fired' = Check(fired, Reads(Disassembly(at.cursor, 1)))
     \/ UNCHANGED <<mem, at, fired>>             \* one it rejects
     \/ at' = Place("prompt") /\ UNCHANGED <<mem, fired>>
  /\ UNCHANGED <<running, pc, acc, tables, history>>

AssembleEnds ==
  /\ In("asm") /\ ReadLineEnds /\ at' = Place("prompt")
  /\ UNCHANGED <<running, machine, tables, fired, history, console>>

(***************************************************************************)
(* The commands of run_monitor                                             *)
(***************************************************************************)
WithoutLate(s, i) == [k \in 1 .. Len(s) - 1 |-> IF k <= i THEN s[k] ELSE s[k + 1]]
Without(s, i) == [k \in 1 .. Len(s) - 1 |-> IF k < i THEN s[k] ELSE s[k + 1]]

Command == In("prompt") /\ FGets

Step ==
  /\ Command /\ \E n \in 1 .. MaxSteps : at' \in Stepping(pc, n)
  /\ UNCHANGED <<running, machine, tables, fired, history>>

Go ==
  /\ Command /\ pc' \in Named \cup Shown \cup {pc} /\ at' = Place("running")
  /\ UNCHANGED <<running, acc, mem, tables, fired, history>>

(* set pc, set a; the other registers are left out *)
Set ==
  /\ Command
  /\ \/ pc' \in Named \cup Shown /\ acc' = acc
     \/ acc' \in BOOLEAN /\ pc' = pc
  /\ UNCHANGED <<running, at, mem, tables, fired, history>>

(* e, f (which goes round the end of memory when its end is below its      *)
(* start) and load                                                         *)
Enter ==
  /\ Command
  /\ \E a \in Named, i \in Entered : mem' = [mem EXCEPT ![a] = i]
  /\ UNCHANGED <<running, at, pc, acc, tables, fired, history>>

Fill ==
  /\ Command
  /\ \E s, e \in Named :
       LET filled == {a \in Code : IF s <= e THEN a \in s .. e ELSE a >= s \/ a <= e}
       IN  mem' = [a \in Code |-> IF a \in filled THEN Brk ELSE mem[a]]
  /\ UNCHANGED <<running, at, pc, acc, tables, fired, history>>

LoadFile ==
  /\ Command /\ mem' = Loaded /\ pc' = CODE_START
  /\ UNCHANGED <<running, at, acc, tables, fired, history>>

StartAssembling ==
  /\ Command /\ \E a \in Named : at' = [in |-> "asm", cursor |-> a]
  /\ UNCHANGED <<running, machine, tables, fired, history>>

BreakLate ==
  /\ Command
  /\ Len(bpoints) <= MAX_BREAK
  /\ \E a \in Named : ~bp_hit(a) /\ bpoints' = Append(bpoints, a)
  /\ UNCHANGED <<running, at, machine, watches, fired, history>>

Break ==
  /\ Command
  /\ Len(bpoints) < MAX_BREAK
  /\ \E a \in Named : ~bp_hit(a) /\ bpoints' = Append(bpoints, a)
  /\ UNCHANGED <<running, at, machine, watches, fired, history>>

Unbreak(a) ==
  /\ Command
  /\ \E i \in DOMAIN bpoints : bpoints[i] = a /\ bpoints' = Without(bpoints, i)
  /\ UNCHANGED <<running, at, machine, watches, fired, history>>

(* an address may be watched twice; wc takes the first *)
Watch ==
  /\ Command
  /\ Len(watches) < MAX_WATCH
  /\ \E a \in Watchable, m \in {{"read"}, {"write"}, {"read", "write"}} :
       watches' = Append(watches, [addr |-> a, modes |-> m])
  /\ UNCHANGED <<running, at, machine, bpoints, fired, history>>

Unwatch(a) ==
  /\ Command
  /\ \E i \in DOMAIN watches :
       /\ watches[i].addr = a /\ \A j \in 1 .. i - 1 : watches[j].addr # a
       /\ watches' = Without(watches, i)
  /\ UNCHANGED <<running, at, machine, bpoints, fired, history>>

(* irq, when it is not masked, and nmi *)
Interrupts ==
  /\ Command
  /\ pc' = 0 /\ fired' = Check(fired, Interrupt)
  /\ UNCHANGED <<running, at, acc, mem, tables, history>>

Reset ==
  /\ Command
  /\ mem' = Cleared /\ pc' = 0 /\ acc' = FALSE
  /\ bpoints' = <<>> /\ watches' = <<>> /\ head' = 0 /\ count' = 0
  /\ fired' = Check(fired, Reads(<<Vectors>>))
  /\ UNCHANGED <<running, at, hist>>

(* d reads what it shows, here a line; the other displays, an unknown      *)
(* command, a full table and an irq that is masked change nothing          *)
Show ==
  /\ Command
  /\ \/ UNCHANGED <<fired, at>>
     \/ \E a \in Named \cup Shown : \E n \in Lengths(a) :
          /\ fired' = Check(fired, Reads(Disassembly(a, n)))
          /\ at' = Listing(Disassembly(a, n), at)
  /\ UNCHANGED <<running, machine, tables, history>>

Quit ==
  /\ running' = FALSE
  /\ \/ Command
     \/ In("prompt") /\ FGetsEnds /\ UNCHANGED console
  /\ UNCHANGED <<at, machine, tables, fired, history>>

-----------------------------------------------------------------------------
Commands ==
  \/ Step \/ Go \/ Set \/ Enter \/ Fill \/ LoadFile \/ StartAssembling
  \/ Break \/ (\E a \in Named : Unbreak(a)) \/ Watch \/ (\E a \in Watchable : Unwatch(a))
  \/ Interrupts \/ Reset \/ Show \/ Quit

Emulator ==
  \/ EnterMonitor \/ StopAtBreakpoint \/ StopAtBrk \/ RunOne \/ StepOne
  \/ ListRegister \/ Assemble \/ AssembleEnds \/ Commands

User == (Type \/ Close \/ CtrlC) /\ UNCHANGED <<running, at, machine, tables, fired, history>>

(* main: with a file or without, and with -r or without *)
Init ==
  /\ \/ mem = Loaded /\ pc = CODE_START
     \/ mem = Cleared /\ pc = 0
  /\ running = TRUE /\ at \in {Place("stopped"), Place("running")}
  /\ acc = FALSE
  /\ bpoints = <<>> /\ watches = <<>> /\ fired = Quiet
  /\ hist = [i \in 0 .. HIST_SIZE - 1 |-> 0] /\ head = 0 /\ count = 0
  /\ ConsoleInit

Next == Emulator \/ User

(* The process never stops of itself; a user need not go on. *)
Spec == Init /\ [][Next]_vars /\ WF_vars(Emulator)

-----------------------------------------------------------------------------
Instruction == [op : {"brk", "lda", "sta", "beq", "jmp"}, arg : Word]

ASSUME ProgramAssumption == Image \in Seq(Instruction) /\ Entered \subseteq Instruction
Places ==
  {Place(p) : p \in {"stopped", "running", "prompt", "register"}}
    \cup [in : {"step"}, left : 1 .. MaxSteps]
    \cup [in : {"asm"}, cursor : Code \cup {CODE_START + Len(Image)}]
ListingPlaces == [in : {"listing"}, reads : Seq(Nat) \ {<<>>}, then : Places]

(* Types, and the bounds of the three tables: main.c 55-57, 161-178.       *)
TypeOK ==
  /\ ConsoleTypeOK
  /\ running \in BOOLEAN /\ at \in Places \cup ListingPlaces
  /\ pc \in Word /\ acc \in BOOLEAN /\ mem \in [Code -> Instruction]
  /\ bpoints \in Seq(Word) /\ Len(bpoints) <= MAX_BREAK
  /\ watches \in Seq([addr : Word, modes : SUBSET {"read", "write"}]) /\ Len(watches) <= MAX_WATCH
  /\ fired \in {Quiet} \cup Access
  /\ hist \in [0 .. HIST_SIZE - 1 -> Word]
  /\ head \in 0 .. HIST_SIZE - 1 /\ count \in 0 .. HIST_SIZE

(* The session is the one Debugger promises.  The trail is the ring as     *)
(* show_history lists it.  A listing that meets the end of the input does  *)
(* not keep s from executing what it has listed.                           *)
StepIsListed == at.in = "step" \/ (at.in = "listing" /\ at.then.in = "step")
Mode == IF ~running /\ ~StepIsListed THEN "ended"
        ELSE IF at.in = "running" THEN "running" ELSE "monitor"
Trail == [i \in 1 .. count |-> hist[(head - count + i - 1 + HIST_SIZE) % HIST_SIZE]]

Promise == INSTANCE Debugger WITH
  Address <- Word, MaxBreakpoints <- MAX_BREAK, MaxTrail <- HIST_SIZE,
  mode <- Mode, next <- pc, breakpoints <- ToSet(bpoints), trail <- Trail

KeepsSession == Promise!Spec

(* bc and wc remove what was named and nothing else, wherever it stands in *)
(* its table: the loops that close the gap, main.c 762-776 and 805-819.    *)
(* Of the watchpoints one at the address goes, and the others keep their   *)
(* order.                                                                  *)
LacksOne(t, s, a) ==
  /\ Len(t) = Len(s) - 1
  /\ \E f \in [DOMAIN t -> DOMAIN s] :
       /\ Increasing(f) /\ \A k \in DOMAIN t : t[k] = s[f[k]]
       /\ \A j \in DOMAIN s \ ToSet(f) : s[j].addr = a
ClearsTheNamed ==
  [][ /\ \A a \in Named : Unbreak(a) => ToSet(bpoints') = ToSet(bpoints) \ {a}
      /\ \A a \in Watchable : Unwatch(a) => LacksOne(watches', watches, a) ]_vars

(* A watchpoint stops the program, and s, exactly after an instruction     *)
(* that itself accessed a watched address, and reports such an access: what*)
(* the disassembler read for the history must not count, and the hit must  *)
(* not be forgotten (watch_fired, main.c 663 and 921).                     *)
WatchStops ==
  [][ RunOne \/ StepOne =>
        LET mine == {a \in ToSet(Accesses(Fetch(pc))) : Watched(a)}
        IN  IF mine = {} THEN fired' = Quiet /\ at'.in # "stopped"
                         ELSE fired' \in mine /\ at'.in \in {"stopped", "prompt"} ]_vars

(* When stdin is at its end the program ends: by the monitor's next line,  *)
(* or by io_peek (main.c 115) while the program in memory is one that goes *)
(* on polling the status register and takes each character it is told of.  *)
(* One that leaves a character staged, or that only reads $F003, does not  *)
(* notice the end, and nothing is said of instructions that the processor  *)
(* fetches from a register.                                                *)
Serves == at.in # "register" /\ \A a \in Code : mem[a] \in {Loaded[a], Brk}
EndOfInputEnds == (closed /\ Serves) ~> (~running \/ ~Serves)
=============================================================================
