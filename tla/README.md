# e6502: specification, model checking and proofs

This directory is a TLA+ development of the e6502 repository: a 6502 emulator
written in C (`m6502/`), a second emulator that puts the same processor behind
a cache and two memories (`h6502/`), an assembler in Python (`a6502/`) and a
family of BASIC interpreters written in 6502 assembly (`basic/`). Paths in this
file are relative to the repository.

Six parts are modelled: the processor, the cache, the memory system around it,
the monitor of the first emulator with its console, the two assemblers with the
disassembler, and the first of the BASIC interpreters. Each is modelled action
by action, checked with TLC on small instances, and proved about with TLAPS, for
every instance.

## The system

| Component | Source | State | Operations | Status |
|---|---|---|---|---|
| CPU core | `m6502/m6502.c` | pc, a, x, y, sp, the flags, a cycle total; memory belongs to the caller | `m6502_reset`, `m6502_step` (256 opcodes), `m6502_irq`, `m6502_nmi` | modelled, proved |
| Cache | `h6502/cache.c` | geometry, policy, lines, replacement clock, counters | read, write, clean, flush, invalidate, snoop, configuration | modelled, proved |
| Memory system | `h6502/memsys.c` | model (von Neumann, Harvard, modified), three caches, two memories, snooping | access by side, mode switch, flush, clean | partly |
| Monitor of h6502 | `h6502/hmon.c` | console input, break flag, breakpoints, `halted` | commands, run loop, device page | partly |
| Monitor of m6502 | `m6502/main.c` | console input, break flag, breakpoints, watchpoints, history ring | commands, run loop, device page | partly: not registers and trace; proved |
| Inline assembler | `m6502/main.c` | none | a line into bytes | modelled, proved |
| Assembler | `a6502/asm.py` | symbols, location counter, output | two passes | partly: not the text of a line; proved |
| Disassembler | `m6502/m6502.c` | none | bytes into a line | modelled, proved |
| Nano BASIC | `basic/1-nano/basic.asm` | program store, variables, value stack, break flag | line editing, statements, run loop, expressions | partly: not the text of a statement; proved |
| BASIC tiers 2 to 4 | `basic/*/basic.asm` | the same, with strings, arrays and floating point | | not modelled |
| Tests, demonstrations | `tests/`, `h6502/cachetest.c` | | | not modelled: they drive the rest |

How they interact. The processor calls its owner's `read` and `write` for every
access, tagged with the reason for it. In `m6502` they reach 64K of RAM and a
device page; in `h6502` they reach `ms_read` and `ms_write`, which route the
access by its tag to the code or the data side, through a cache or past it. The
caches call back to a backing store. The monitors own the processor: they step
it, poll breakpoints and a flag that a signal handler sets, and read and write
memory around the caches. BASIC runs on the processor, is assembled by `a6502`,
and reads the console and the break flag through the device page. Nothing runs
concurrently but the signal handler and whoever types. What is hard is the
order of operations: an interrupt between any two instructions, a cache
reconfigured between two stores, a mode switched while lines are dirty, three
readers of one standard input that each read ahead, a Ctrl-C between a read and
the store that clears it, a program edited by moving bytes and then run.

What makes each correct:

* CPU: an interrupt is invisible to the program it falls into; returns match
  entries; arithmetic is right in both modes; registers keep their width.
* Cache: no store is lost or misplaced; memory lags but never diverges;
  replacement follows its policy; the counters agree with the lines.
* Memory system: the program sees the machine it was promised in every mode;
  devices are never cached; no line survives in a cache that is out of use.
* Monitors: a run stops exactly where a breakpoint, watchpoint or break says,
  once, and can be resumed; console input has one taker, once and in order.
* Assemblers: both passes give every instruction the same size and address; what
  is emitted reads back as what was written, by either assembler.
* BASIC: the program store stays a sorted chain of lines and is run as one; an
  expression has the value it is written for; Ctrl-C stops what runs.

## Modules

### The processor

| Module | What it is |
|---|---|
| `Bytes` | `uint8_t` and `uint16_t`: truncation, bits, `&`, `|` and `^` |
| `Alu` | ADC, SBC, comparison, shifts, ARR, the status byte, as functions of bytes; and `Sums`, `Differences`, what ADC and SBC promise |
| `Opcodes` | the tables `g_at` and `g_ot` |
| `CPU` | the machine: one action per operation, and `Irq`, `Nmi`, `Reset` |
| `CallStack` | abstract: calls and interrupts entered, and returned from in order |
| `Interrupted` | a program run twice, with interrupts and without; the frames pending on its stack |
| `CPUProofs` | the theorems |
| `MCCPU` | programs for TLC |

`CPU` has four variables: `pc`, `reg` (a, x, y and sp), `flag` (n, v, d, i, z,
c) and `mem`. A call of `m6502_step` is one step of `Step`. Its operation is
found as in the code: `Operation(Op)` and `Mode(Op)` are `g_ot` and `g_at`,
`EffectiveAddress` is what the `am_` function leaves in `g_ea`, `Value` and
`PutReg`, `PutMem` are `getval` and `putval`, and each `op_` function is an
action or an instance of one: `op_lda`, `op_ldx` and `op_ldy` are
`Load("lda", "a")` and so on. The undocumented operations that call two others,
`op_SLO` for one, read the operand again after writing it, and so do their
actions (`Reread`).

The opcode tables are written by group and column instead of as 256 entries.
The memory behind the callbacks is RAM at the addresses in `Ram` and zero
elsewhere. The access tags and the cycles (`g_tt`, `g_pop` and the running
total) are left out: no operation reads them.

`Interrupted` runs two machines of `CPU` on the same program. The first takes
interrupts between any two instructions, also inside the handlers of others;
the second, `Quiet`, takes none, and moves when the first is outside every
handler. `frames` remembers each call, BRK and interrupt not yet returned from.
`Disciplined` says what programs do for their part, as the processor checks none
of it: they return only from what they entered last, with the stack pointer back
where it was; they pull nothing of a pending frame and store nothing over one;
they leave room for an interrupt; and their handlers leave interrupts masked. It
speaks of one instruction at a time, and only of the cells of pending frames.

### The cache

| Module | What it is |
|---|---|
| `CacheOps` | a cache as a record, and the functions of `cache.c` as operators |
| `Cache` | one cache and its backing store, driven through `cache.h` in any order |
| `WriteBackMemory` | abstract: every address has a latest and a durable value |
| `CacheRecency`, `RecencyList` | the stamps of a set read as a list; abstract: the LRU and FIFO lists |
| `CacheStats` | `Cache` with its counters |
| `CacheOpsProofs`, `CacheStatsProofs` | the theorems |
| `MCCache`, `MCCacheOrder` | instances for TLC |

A line is valid, dirty, tagged, based and stamped as in the C structure.
`Accessed` is a hit or a miss: `pick_victim`, `writeback`, `refill`, `touch`.
Random replacement is a choice of any way (`rand`). The clock of the stamps
wraps at `ClockMod`, the product in `cache_config` at `WordMod`.

### The memory system

| Module | What it is |
|---|---|
| `Architecture` | abstract: what the three models promise a program |
| `MemSys` | `memsys.c` with the commands of `hmon.c` that reshape it or reach around it |
| `MemSysProofs` | the theorems about the machine, in every state |
| `ArchitectureProofs` | the theorems about the machine used with care |
| `MCMemSys` | instances for TLC |

`Read` and `Store` are `ms_read` and `ms_write`; `SetMode`, `CacheOn`,
`CacheOff`, `Config`, `SetPolicy`, `SetSnoop`, `CleanCommand`, `FlushCommand`,
`Poke` and `LoadFile` are the commands. Of the device page the two maintenance
registers act on the caches and an input register answers anything. The census
counters, the trace and the warnings only print and are left out.

`CareSpec` restricts two commands: a cache is given a new geometry only when it
holds no dirty line, and `load`, `e` and `ei` are used while the caches are
empty. Without the first `MCMemSysReconfig` shows the loss; the second is how
`h6502/HARVARD.md` uses them.

### The monitor

| Module | What it is |
|---|---|
| `Console` | standard input and its three readers; the break flag |
| `Monitor` | the program `m6502`: run loop, commands, breakpoints, watchpoints, history |
| `Debugger` | abstract: a session with a set of breakpoints and a trail |
| `MonitorProofs` | the theorems |
| `MCMonitor` | a polling program for TLC |

What is typed is numbered, and a reader takes a number at a time. `FGets` is the
monitor's `fgets`, which reads ahead into `file`; `ReadLine` is the inline
assembler's `read_line`, which reads standard input below that buffer; `Peek`
and `GetChar` are `io_peek` and `io_getc`, with `staged` for `io_staged`. `CtrlC`
is `on_sigint`, and `ReadBreak` the read of `$F004`, which is two accesses: one
may arrive between them.

The fourth taker is no reader: `listing` is what the disassembler takes.

`Monitor` has a place, `at`: stopped (at the banner `enter_monitor` prints),
running, at the prompt, in `s` or in `a`, or in a listing that has device
registers still to read. `StopAtBreakpoint`, `StopAtBrk` and
`RunOne` are a turn of `run_loop`; each command that changes state is an action.
The processor is reduced to what a debugger can see: an instruction takes one
cell and is known by what it accesses and by where it goes; of the registers one
bit is kept, the last value read, on which `beq` branches. `CPU` models the rest.

The disassembler is given `mem_read`, so a listing has effects. `Disassembly` is
the addresses it reads, each instruction's bytes once more to print them; it
sets `watch_fired` at the watched ones. The banner lists three lines
(`ThreeLines`), `s` two before each instruction (`Stepping`), the run loop and
`a` one, and `Show` is `d`, a line at a time, or a command that only prints.
Where a listing meets `$F002` to `$F004` the program goes to the place `listing`
and reads them in their order, one in each `ListRegister`, as the processor would
(`Device`), so that the user or a Ctrl-C may come in between. How long the
instruction in a register seems is left open (`Lengths`). Two things are not
followed: what the processor does with an instruction that it fetches from a
register (`at.in = "register"`), and trace mode, which lists once more.

### The assemblers and the disassembler

| Module | What it is |
|---|---|
| `Disassembler` | `m6502_disasm`: the operation, mode, length and value a line shows |
| `LineAssembler` | `parse_operand`, `asm_find` and `asm_line` of the monitor |
| `TwoPass` | `a6502/asm.py`: both passes, line by line |
| `TwoPassProofs` | the theorems |
| `MCAssembly` | sources for TLC |

`TwoPass` starts from a parsed line: a label, a directive or mnemonic, a hint
from the form of the operand, and an expression of a symbol, `+`, `<` and `>`.
The first pass (`_size`) and the second choose a mode each, from the symbols
known at that time; that these agree is what `LabelsLand` is about. The opcodes
by name and mode are taken from `Opcodes`, as in `asm.py` the last of several
wins. The text of a line, other operators and the writing of the file are left
out.

### Nano BASIC

| Module | What it is |
|---|---|
| `LineStore` | the program text: records moved byte by byte |
| `Expression` | the evaluator: recursive descent over characters, the value stack in page zero |
| `NanoBasic` | the prompt, the statements and the loop |
| `BasicProgram` | abstract: numbered lines, edited, listed and run in order |
| `BasicMeaning` | what an expression stands for, as a tree |
| `BasicProofs` | the theorems |
| `MCBasic` | sessions for TLC |

A statement of a stored line is known by the first byte of its text, which
`Table` gives a meaning to; one with an expression carries its characters, and
for `BasicMeaning` the tree they were written from. The store itself is bytes: `shift_right` and
`shift_left` move one after another, up from the last and down from the first.
`calls` are the return addresses `EXEC_STMT` leaves on the CPU stack. The
evaluator is a machine of its own: `text` is what `CPTR` points at, `returns` its
return addresses, and each action is a stretch of code between two calls. `cells`
is page zero from `ESTACK` on, so that a push beyond the eighth entry lands
where it does in the program: in the keyword buffer and then in `AR`. The cells
are cleared between two expressions: nothing reads one it has not written.
16-bit pointers are whole numbers; none passes the end of the store by more than
a record. The reading and printing of numbers, strings in PRINT, and the text of
a statement are left out.

## What is checked

Two properties are about liveness. `EndOfInputEnds` assumes
`WF_vars(Emulator)`: the process goes on as long as it has something to do; the
user has no fairness and need never type, close or interrupt anything.
`BreakStops` assumes `WF` on the interpreter: the processor goes on executing it;
again the user has none. Each is a single process that is never disabled by
another, and weak fairness is what running it means. Everything else is safety.

| Run | Specification | States | Properties |
|---|---|---|---|
| `MCCPU` | `SpecTwice` | 54,522 | `TypeOK`, `Transparent`, `FramesIntact`, `HandlersMasked`, `KeepsCalls`, `Calculates`, `Disciplined` |
| `MCCache` | `MCSpec` | 78,722 | `TypeOK`, `OneCopy`, `Placed`, `CleanIsMemory`, `KeepsPromise` |
| `MCCacheOrder` | `StatSpec` | 85,922 | `FollowsRecency`, `Conserved`, `OnceOut` |
| `MCMemSys` | `MCCareSpec` | 22,883 | `TypeOK`, `DevicesUncached`, `IdleCachesEmpty`, `CodeNeverDirty`, `KeepsModel` |
| `MCMemSysModified` | `MCCareSpec` | 52,177 | `StaleIsCounted`, `SnoopRepairs`, `KeepsModel` |
| `MCMemSysSnoop` | `MCSnoopSpec` | violation | `SnoopIsCoherent` |
| `MCMemSysReconfig` | `MCSpec` | violation | `ConfigKeepsStores` |
| `MCMonitor` | `Spec` | 359,704 | `TypeOK`, `InputKept`, `BreaksOnce`, `KeepsSession`, `ClearsTheNamed`, `WatchStops`, `EndOfInputEnds` |
| `MCAssembly` | `Spec` | 100,792 | `TypeOK`, `LabelsLand`, `ReadsBack`, `AssemblersAgree` |
| `MCBasic` | `MCSpec` | 389,274 | `TypeOK`, `RecordsHold`, `ValueIsMeant`, `ThreeForEachLevel`, `KeepsProgram`, `BreakStops` |
| `MCBasicDeep` | `MCSpec` | violation | `ValueStackHolds` |
| `MCBasicSigned` | `MCSpec` | violation | `ComparisonsAreSigned` |

To run one: `tlc -config MCCPU.cfg MCCPU`; the `MCMemSys*.cfg` belong to
`MCMemSys`, `MCBasicDeep.cfg` and `MCBasicSigned.cfg` to `MCBasic`.

**MCCPU.** Two programs share a pair of handlers. `Calls` nests subroutines,
adds and subtracts in decimal mode between PHP and PLP, and executes a BRK;
`Every` executes every operation of the instruction set, documented and not.
The IRQ handler looks at B in the pushed status to tell a BRK from an interrupt;
the NMI handler computes in decimal mode and leaves the flags changed. The
interrupts may fall anywhere and nest.

* `Transparent`: outside the handlers the interrupted program is in the state
  the undisturbed one is in: pc, registers, flags, its memory and its stack.
* `FramesIntact`: under everything pushed since, the stack still holds the
  return address and status of every pending call and interrupt, with B set for
  BRK only.
* `HandlersMasked`: no IRQ is taken inside a handler that has not enabled
  interrupts.
* `KeepsCalls`: the machine implements `CallStack`: RTS and RTI return to what
  was entered last, RTI with the status of that moment.
* `Calculates`: ADC adds, SBC subtracts, in both modes.
* `Disciplined`: both programs keep the discipline the theorems assume, so their
  hypothesis is met by programs that use every operation.

Bounds: `MaxNesting` = 2 interrupts at a time. Two are enough for an NMI inside
an IRQ handler, an NMI inside an NMI handler, and an IRQ inside an NMI handler,
which the mask must prevent. `Ram` is the bytes the programs use. The view
leaves out the dead bytes below the stack pointers, which neither the programs
nor the handlers read. `Reset` starts a program over and is not among the steps
of `SpecTwice`; the theorems about `Spec` include it.

**MCCache.** Eight addresses in lines of two bytes, of which three addresses in
three lines compete for one set of two ways; reconfiguration to a single line,
and three requests that are refused. Bytes are 0 and 1, the clock has two
values, so that stamps meet and wrap. One line more than there are ways is what
an eviction needs; the theorems cover other geometries.

**MCCacheOrder.** One set of two ways, three lines of a byte, a clock of five.
`FollowsRecency` is claimed until the clock comes round, and `BeforeWrap` says
so; 2^32 touches bound it in the code. What the wrap does is under "Noticed"
below. `MaxMiss` and `MaxOut` bound the counters: two misses and an outgoing
byte between two resets.

**MCMemSys, MCMemSysModified.** One or two cells of RAM and the device page.
Caches of one cell already have every kind of conflict between the two sides of
one address; the modified machine is run again with an I$ line over two cells
and a D$ of one cell, or of a line for each, where a fill brings in a neighbour
and a snoop drops one. The clock of a one-way cache decides nothing and has a
single value.

* `KeepsModel`: the machine implements `Architecture`: what a fetch and a load
  see, in every mode, and what a maintenance command pushes into memory.
* `StaleIsCounted`: a store that parts a byte of a resident I$ line from what a
  load returns is counted, unless snooping repairs it. It is claimed where the
  byte in memory is current too: a snoop drops the whole line of the I$ but
  writes back only the D$ line of the address (`h6502/memsys.c:241`), and where
  the former is wider the next fetch brings back an older neighbour.
* `SnoopRepairs`: a snooped store to a line the I$ holds reaches the fetch side
  at once.

**MCMonitor.** A program that polls for a character, stores it, looks at the
break flag and goes back. By hand the user may put a BRK or another poll
anywhere, set and clear breakpoints and watchpoints, step, assemble, reset,
interrupt, load, and go from anywhere. They may also list, go to and step from
`$F001`, where the processor finds a BRK and the disassembler the registers
behind it.

* `InputKept`: each thing typed has one taker, or waits for one, and each reader
  gets its share in the order it was typed. One taker is no reader: what a
  listing takes from `$F003` is gone, and the property counts it as `listing`. It
  does not say that nothing typed is lost, which is false of the code.
* `BreaksOnce`: a Ctrl-C is read as pending once at most and only after it is
  pressed. A listing may be what reads it.
* `KeepsSession`: `Monitor` implements `Debugger`. Nothing at a breakpoint is
  executed by the run loop, the table is a set, and the ring lists the last
  instructions in order.
* `ClearsTheNamed`: `bc` and `wc` close the gap without disturbing the others.
* `WatchStops`: a watchpoint stops the program after the instruction that
  accessed it, and after no other, whatever a listing has read before.
* `EndOfInputEnds`: at the end of its input a polling program ends, as long as
  the processor fetches no instruction from a register.

Bounds: three tokens typed (one for each reader, or two read ahead by `fgets`
while the third waits), one Ctrl-C, two breakpoints, two watchpoints and a ring
of two, which is filled and goes round; `s 2`. A table of two is enough to remove
the first, the last and the only entry; the theorems cover every size.

**MCAssembly.** Every source of three lines out of nineteen after an origin just
below the end of page zero, or far from it: 13,718 sources. Three lines are
enough for a reference backward and forward, a definition in between that moves
a later one, and a symbol that changes page.

* `LabelsLand`: in the second pass every label is where the first one put it,
  for a source that defines a name once, names no operand in page zero before
  defining it and counts no `.fill` below zero.
* `ReadsBack`: what is emitted disassembles as what was written.
* `AssemblersAgree`: of the same instruction, its value a word, the inline
  assembler makes bytes that read the same.

**MCBasic.** Three kinds of session. One enters three lines, with any of eight
statements, runs them, breaks them and edits again; one enters five lines in
room for three or four and lists; one evaluates some 1,700 expressions of up
to three operators and parentheses. Line numbers are 1, 255 and 256, which
differ in the low byte, the high byte and both. Room for sixteen bytes is
full after two to four lines.

* `RecordsHold`: the store is a chain of sorted records that ends at PEND, and a
  running program stands at one of them.
* `ValueIsMeant`: what PRINT, LET and IF are given is the value of the
  expression as a tree, whose numbers are signed words. It is claimed of an
  expression in which no negative number is ordered with one that is not
  (`SignsAgree`); there `ComparisonsAreSigned` says what the value should be.
* `ThreeForEachLevel`: between two parentheses at most three operators wait on
  the value stack. Among the expressions is one that fills two levels.
* `KeepsProgram`: the bytes implement `BasicProgram`.
* `BreakStops`: Ctrl-C gets the prompt back from a program that runs, unless it
  waits for a line of INPUT.

A mutant of the code, kept beside the operator it stands for and marked
`Fault`, breaks each property of each passing run.

## What the checks found

* `SnoopIsCoherent`: with snooping on, the fetch side is said to be coherent
  (`h6502/HARVARD.md:249`). `ms_write` snoops the I$ only if it holds the line at
  the store (`h6502/memsys.c:220`). A store that does not find it stays in the
  write-back D$, and a later fetch fills the I$ with the old byte.
* `ConfigKeepsStores`: `config` drops dirty lines (`h6502/cache.c:48`); a mode
  switch writes them back first and says why (`h6502/memsys.c:79`).
* `ComparisonsAreSigned`: arithmetic is said to be signed throughout
  (`basic/README.md:24`). The four order comparisons look at the carry of a
  difference (`basic/1-nano/basic.asm:955`): after `A=-13`, `PRINT 2<A` prints -1
  and `PRINT A<2` prints 0.
* `ValueStackHolds`: the limit on nesting is said to keep the value stack from
  overflowing (`basic/README.md:65`). Seven parentheses are admitted, each may
  leave two entries waiting, and there are eight (`basic/1-nano/basic.asm:1189`).
  `PRINT 1+2*(1+2*( ... 3))` with seven of them prints 63 for 511, in the model
  and on the built program.

Noticed while modelling, without a run:

* The monitor of m6502 disassembles through `mem_read` (`m6502/main.c:216`,
  `:658`, `:169`, `:909`). `d F002` stages and takes the character that waits
  for the program, `d F004` clears the break flag that "the CPU reads"
  (`m6502/main.c:78`). The model does the same, and `InputKept` and `BreaksOnce`
  account for it. The monitor of h6502 lists through `ms_peek_code`, which reads
  nothing but memory (`h6502/hmon.c:169`).
* The replacement clock is 32 bits wide and wraps (`h6502/cache.c:133`). The
  touch with which it comes round gives its line the smallest stamp, and the
  line used last is evicted next, under LRU and FIFO alike.
* SLO takes a cycle too many when indexing crosses a page
  (`m6502/m6502.c:293`): it leaves `g_pop` set by the ORA it calls. RLA, SRE,
  RRA, DCP and ISC clear it.
* `evictions N (M dirty)` (`h6502/hmon.c:231`) counts every write-back as M, by
  clean, flush and snoop too, and those do not count in N.
* `cache_config` multiplies `line * ways` without a check for overflow
  (`h6502/cache.c:31`); a product that wraps to zero is divided by.
* Changing `write=` to `wt` leaves dirty lines dirty until they are evicted
  (`h6502/hmon.c:394`, against `h6502/HARVARD.md:247`).
* `s` in `hmon` tests `halted`, which only `run` resets (`h6502/hmon.c:519`).
* `io_peek` with a character staged does not look for the end of input, so a
  program that polls and never reads does not end (`m6502/main.c:115`); that of
  h6502 never ends one (`h6502/hmon.c:71`).
* `reset` clears RAM, so that the vector it then reads is 0, also after `load`
  set it; breakpoints and watchpoints go too, and the history ring keeps its
  contents but not its count.
* `wc` removes the first of two watchpoints at an address
  (`m6502/main.c:805`).
* The inline assembler has entries for the branches (`m6502/main.c:279`) and
  never finds one: `parse_operand` has no form that gives the relative mode.
* `.fill` with a negative count moves the first pass back and emits nothing in
  the second, so that every label after it is off (`a6502/asm.py:432`, `:469`).
* `asm.py` is said to return the bytes from the first `.org`; the output starts
  at the lowest address (`a6502/asm.py:583`).
* Replacing a BASIC line deletes the old one first: when the new one does not
  fit, `?PROGRAM TOO BIG` has taken the old one with it
  (`basic/1-nano/basic.asm:703`).
* RUN inside a program starts a loop in the loop and never returns from it; the
  CPU stack wraps after some 128 of them (`basic/1-nano/basic.asm:308`).
* RUN clears a Ctrl-C that is pending (`basic/1-nano/basic.asm:280`).
* `README.md:53` says decimal mode is not emulated; it is. `6502.md:46` gives
  SP = $FF after reset; it is $FD.

## What is proved

TLAPS checks every proof in `CPUProofs`, `CacheOpsProofs`, `CacheStatsProofs`,
`MemSysProofs`, `ArchitectureProofs`, `MonitorProofs`, `TwoPassProofs` and
`BasicProofs`. They assume only what the modules state of their constants:
`RamAssumption` and `ImagesAssumption` for the processor; `ConsoleAssumption`,
`MonitorAssumption` and `ProgramAssumption` for the monitor (the sizes and
bounds are naturals, the ring holds at least one, the image is a sequence of
instructions that fits); `ProgramsAssumption` for the assembler (a source is a
sequence of lines); `LineStoreAssumption`, `ExpressionAssumption` and
`BasicAssumption` for BASIC (there is room for a record, at least one entry and
one level, a text that fits has a length its record can say, and what is entered
is line numbers, bytes and statements of their types); for the cache that
the address space is a power of two below `WordMod`, that the limits are
naturals, the clock has at least one value and bytes include 0, that the client
uses addresses of the memory and asks for geometries and policies of the right
types, and that it starts with a geometry `cache_config` accepts; for the memory
system the same of its three caches, that no line straddles the border of the
device page (`PageAssumption`: lines are at most as long as the page and aligned,
and so is the page) and that a program image is bytes. TLC evaluates each
assumption on the instances above.

**Processor.**

* `TypeCorrect`: `Spec => []TypeOK`. `TypeOK` is inductive as it stands. One
  lemma per family of operations shows that its registers, flags and memory are
  of the right type; two lemmas, `DoesKeepsTypes` and `JumpsKeepsTypes`, carry
  that over to the step, for an instruction that goes on to the next one and for
  one that sets pc. The lemmas under them are about bits: a byte is the sum of
  its bits, and AND, OR and EXOR of bytes are bytes.
* `ArithmeticCorrect`: `Spec => Calculates`, from `TypeOK` and four theorems
  about `Alu`: `BinarySum`, `BinaryDifference`, `DecimalSum`,
  `DecimalDifference`. The decimal ones split each operand in digits, show what
  the adjustment of the low digit gives, and then argue by the high digit alone,
  below ten or not.
* `StatusSurvives`: `m6502_setP` restores what `m6502_getP` packed, with B or
  without. `FrameSurvives`: what an interrupt pushes is what RTI pulls, wherever
  the stack pointer stands, its wrap-around included. TLC's programs never wrap
  the stack; this is where that case is covered.

**Calls and interrupts.** For every memory image, every handler, any nesting, and
interrupts between any two instructions, of a program that keeps `Disciplined`:

* `FramesStayIntact`: `SpecTwice /\ Disciplined => []FramesIntact`.
* `HandlersStayMasked`: `SpecTwice /\ Disciplined => []HandlersMasked`.
* `CallsKept`: `SpecTwice /\ Disciplined => KeepsCalls`, the refinement of
  `CallStack`.

The discipline is about what a program does; that the frames survive is about
what the processor does. JSR, BRK, IRQ, NMI, PHA and PHP push where no frame
is; what is pushed is read back in the right order, with the same bits, and one
more than JSR left. `FramesIntact` is not inductive: a push must be known to fall
below every frame. The invariant, `Protected`, adds the types and `Ordered`, that
the frames lie one below the other above the stack pointer. `HandlersMasked` is
not either, because RTI brings back whatever was pushed. `Masked` adds that I is
set while a handler is pending, that it was set when anything was entered above
one, and that it was clear when an IRQ was taken; with `FramesIntact` RTI then
brings back an I that the handlers left pending agree with. `StepsByFrames`
sorts the sixty operations into five kinds: those that enter a handler, call,
return, push a byte, and the rest, of which it is enough that they leave the
pending cells alone. `FrameSurvives` and `CallSurvives` say what a return pulls.

**Cache.**

* `Typing`, `NeverTwoCopies`, `AlwaysPlaced`, `CleanLinesAgree`: the invariants
  of `MCCache`, for every geometry, policy and address space.
* `Refinement`: `Spec => KeepsPromise`, and `NoStoreLost`: `KeepSpec =>
  KeepsEveryStore`.

The inductive invariant is `Sound` with the types of memory and output: the
cache is well formed, no two ways of a set hold the same line, every line is in
place, and clean lines agree with memory. None is inductive alone: that a
write-back lands where the line came from needs `Placed`; that a read returns
the last store needs `OneCopy`, as a store goes to the first match; that an
eviction of a clean line loses nothing needs `CleanIsMemory`. Each operation has
a lemma: it keeps the invariant and is a step of `WriteBackMemory`.

* `LinesConserved`: `StatSpec => []Conserved`, and `DeferredOnce`: `StatSpec =>
  []OnceOut`. The inductive invariant is `StatInv`, the cache's own and
  `Account`: for some number f of fills, `bytes_in` is f lines, and what was
  resident at the last reset and what came in since is what is valid now, what
  was evicted and what an invalidation or a new geometry dropped; the
  write-backs and the lines still dirty are at most the dirty lines of that
  moment and the stores deferred since. Each operation has a lemma that says how
  it moves the number of valid and of dirty lines (`AccessFlags`, `StoreFlags`,
  `OneLineAccount`) and that the counters move with it. That a flush and a clean
  count each line once needs the sets of lines to be finite, hence the
  cardinalities.
* `ReplacementFollows`: with policies other than random, `StatSpec =>
  FollowsRecency`, the refinement of `RecencyList`, for any number of sets and
  ways. The invariant, `Sorted`, says that the clock is ahead of every stamp and
  that each set has a list of its valid ways with the latest stamp first
  (`Ranks`). That such a list exists is carried from step to step: one line is
  taken out (`ButRanks`), or one with a later stamp than all is put in front
  (`FrontRanks`). `NewestIs` shows that it is the list the property reads off the
  stamps, `NameOf` and `HitIsListed` that a search finds a line exactly if its
  number is in it, and `FullList` that it is as long as there are ways only when
  no way is free: then `pick_victim` takes its last (`AccessOrders`). It needs the
  clock not to come round, as the property says.
* `WordGeometry`: for a request whose `line * ways` fits a word, the checks of
  `cache_config` accept exactly the geometries the invariant needs.

**Memory system.** For every geometry, policy, device page and image, every
mode, and every command in every state (`Spec`, of which `CareSpec` is a part):

* `MemSysTypes`, `DevicePageUncached`, `UnroutedCachesEmpty`, `CodeCacheClean`:
  the four invariants of `MCMemSys`. They are inductive together, in
  `MachineInv`, with one strengthening: every cache is `Placed`, that is, each
  valid line is there once and where the decoder looks for some address of RAM.
  From that a line covers no address of the device page, as all its addresses
  have one quotient (`LineOffPage`). `Sound` will not do here: a clean line need
  not agree with memory once `e` has written behind it or a store of the modified
  machine has gone to the other cache, so every operation of the cache is shown
  to keep `Placed` without it. That a switch leaves nothing behind
  (`CacheOffKeeps`) needs the invariant itself: only the caches in use are
  flushed, and the others are empty because they were.

And for `CareSpec`, in `ArchitectureProofs`:

* `MachineRefines`: `CareSpec => KeepsModel`, the refinement of `Architecture`.
* `StaleCounted`: `CareSpec => StaleIsCounted`, and `SnoopMends`: `CareSpec =>
  SnoopRepairs`.

The invariant (`CareInvariant`) is `MachineInv` and `CopiesAgree`: the clean
lines of every trusted cache agree with the memory behind it. A trusted cache is
the only one with stores in front of its memory, that is, any cache but the I$
of the modified machine; it is `Sound`, and what `CacheOpsProofs` says of a
single cache holds of it. The I$ of the modified machine is only `Placed` and
clean: what it shows may be old, and that is what `Architecture` allows. So each
operation has two lemmas, one for each kind of cache (`AccessShows` and
`AccessSpotless`, `StoreCacheEffect` and `ThroughSpotless`), and each command one
that names the step or the stutter of `Architecture` it is. A mode switch is
the longest: the caches in use are flushed one after the other, into one memory
or two (`FlushOut`, `FlushLeaves`, `FlushEmpties`), and only
then is the routing changed over empty caches, where every address shows what
memory holds (`EmptyIsBare`). Care is needed exactly here: `config` with a dirty
line, or `e` behind a resident one, breaks `CopiesAgree` and nothing else.

**Monitor.** For every image, every size of the tables and of the ring, and any
amount typed:

* `BreakReportedOnce`: `Spec => []BreaksOnce`. Every step leaves the flag and its
  counts alone, raises it, or reads it (`FlagStep`).
* `TypedGoesToOne`: `Spec => []InputKept`. `InputKept` is inductive once the
  types of the queues are added (`InputInv`), and that a staged character was
  typed after all that a listing has taken: a listing of `$F003` may take what
  one of `$F002`, or the program, has staged, and the program's share shrinks by
  it (`MovingKeeps`). What the user lists or goes to outside the program is any
  address (`Shown`). A sequence that is a concatenation increases exactly if its
  parts do and the one lies before the other (`JoinIs`); so a reader that takes a
  prefix of the pipe (`TakingKeeps`), or hands on what it held, keeps it.
* `SessionKept`: `Spec => KeepsSession`, the refinement of `Debugger`. The
  invariant adds to the types that no breakpoint is in the table twice: without
  that `bc` would leave a second one behind and the table would not be the set.
  `SlotsMove` is the arithmetic of the ring: after `hist_push` entry k is where
  entry k, or k + 1 when the ring was full, was before, and never where the new
  one went. `PushedAppends` then gives the trail.
* `MonitorTypes`: `Spec => []TypeOK`. The invariant, `MonitorInv`, is the three
  above with the bounds of the console and `WatchInv`, the types of the
  watchpoints, of the report and of a place. That what a reader holds is
  something that was typed is not inductive by itself; it follows from
  `InputInv`, as everything held is a part of what was typed, and that no more
  is told than may be pressed follows from `BreaksOnce`.
* `WatchpointsStop`: `Spec => WatchStops`. `CheckIs` says what `check_watch`
  leaves after a sequence of accesses, the last watched one, which is the
  greatest index there is. A report that is pending is cleared before the next
  instruction, which is why a listing in between changes nothing.
* `NamedIsCleared`: `Spec => ClearsTheNamed`, wherever the entry stands.

**Assembler.** For every set of sources, of any length:

* `SourceTypes`: `Spec => []TypeOK`. The symbols are integers and every byte is
  a byte. The invariant `SourceInv` needs `Resolved`: an origin or a `.fill`
  that the first pass got by had its symbols, and still has them in the second,
  which refers to symbols the first need not know.
* `LabelsAreWhereTheyWereSaid`: `Spec => []LabelsLand`. `LayoutInv` says that
  there is a function from lines to addresses which gives every label its value,
  and each line after the first the end of the one before, as measured with the
  symbols known at that line. The first pass extends it by a line at a time; no
  later line disturbs it, as no name is defined twice (`EarlierStay`). The second
  follows it in a careful source: it knows more symbols, but when the mode it
  chooses differs from the one measured, a name in page zero was used before its
  definition (`PartMode`, `LineEmitted`).
* `WrittenReadsBack`: `Spec => ReadsBack`, by way of `ModesAgree`: the tables of
  the disassembler and of the processor give each of the 256 opcodes the same
  mode and length. A branch target comes back from its offset (`OffsetBack`).
* `InlineAndTwoPassAgree`: `Spec => AssemblersAgree`. The inline assembler looks
  for the short form only when the value is typed with two digits, and only among
  the documented opcodes, while `asm.py` looks among all. They meet because a
  documented long form whose operation has a short one has a documented short one,
  eight opcodes before it (`ShortDocumented`).

**Nano BASIC.** For every size of the store and of the two stacks, and any
lines, statements and expressions:

* `RecordsAlwaysHold`: `Spec => []RecordsHold`. The property reads the store by
  a walk from PROG; the invariant says instead that there is a set of addresses
  which makes it a `Chain` of whole records, sorted, each ended by a NUL.
  `StartsAre` shows that the walk finds that set, as it makes at most a turn for
  every four bytes. Loops become courses: `Iterates` gives the states of a loop
  of so many turns, which are then argued about turn by turn (`AllTurns`).
  `FindsPlace` is what `FIND_LINE` returns: the only place where the line is or
  belongs. `ShiftRight` and `ShiftLeft` are the two moves: read from the end
  that is still intact, every byte arrives as it was. `Spliced` puts a chain
  together from the records before a gap and those behind it; deleting,
  inserting and replacing are instances of it (`CutKeeps`, `InsertKeeps`,
  `EditedKeeps`). Where the program stands is not inductive without the flags and
  the return addresses: a statement of a program runs with GOFLAG clear and
  returns into the loop, the prompt has RUNNING clear, and after NEW, EPTR is
  behind the end, where the next turn of the loop stops (`Stands`,
  `AfterStatement`).
* `TypeCorrect`: `Spec => []TypeOK`. What is hard is that the evaluator never
  pops an empty stack and never indexes outside its words. `Piles` is the least
  set of stacks of return addresses, with the entries and parentheses each
  accounts for, that is closed under a call with room: an operator that waits
  keeps one entry, a parenthesis one level, and between two parentheses at most
  three operators wait, in the order of the grammar (`Waiting`). A call pushes
  (`Push`), and what a return finds was pushed (`Pop`).
* `WaitingIsBounded`: `Spec => []ThreeForEachLevel`, whatever the sizes of the
  stack and the limit, from `Waiting`. With eight levels that is a need for 24
  entries; the program has eight, which is the finding above.
* `EvaluationsEnd`: an evaluation ends with nothing on the value stack and no
  parenthesis open, also one that was cut off or has no closing parenthesis.
* `ProgramKept`: `Spec => KeepsProgram`, the refinement of `BasicProgram`, over
  the same invariant. Three things tie bytes to lines. What the records of a chain
  say (`Tells`) is followed through the moves: after editing it is what it was
  without the old line and with the new one (`EditedIs`), so `EditedMeans` gives
  the function from numbers to texts (`LinesTell`). The bytes those lines take are
  PEND - PROG, by a bijection between addresses and the cells of lines (`Counted`,
  `UsedIs`), so the code refuses a line for its size exactly when the abstract
  program has no room. And since the chain is sorted, the record behind one is the
  next greater number (`NextLine`, `FirstLine`), and the course of LIST is the
  listing (`ListTours`, `ListedIs`). Then each action has a lemma, from
  `EnterLineKeeps` to `StatementFollows`: it is a step of `BasicProgram` or a
  stutter.

Only model-checked:

* `Transparent`. It compares two runs, so the discipline it needs is of another
  kind: handlers that restore A, X and Y and store outside what the program
  uses, and a program that reads nothing else.
* `ValueIsMeant`: the value of an expression is recursive over its tree, and so
  are its characters.
* `EndOfInputEnds` and `BreakStops`, which are liveness.

Out of the prover's reach are liveness under fairness, ENABLED, and what a
recursive operator computes for every input. Arguments by induction are made
over the steps of the specification, or from a least element of a set of
naturals (`Least`).

## Not modelled

* The run control of `hmon.c` (`s`, `c`, `g`, `b`, `bc`): the run loop of
  `main.c` over again, without watchpoints and history. Its use of `halted` is
  noted above.
* Text: number formats, quoting, listings, error messages, the regular
  expressions of `asm.py`, PRINT lists and line input of BASIC.
* The census, the bus trace and the warnings of `memsys.c`, which only print.
* The cycles of an instruction, which no operation reads.
* The processor fetching an instruction from a device register under the monitor.
* The CPU stack under BASIC. RUN inside a program exhausts it, and is left out
  of the stored programs.
* BASIC tiers 2 to 4, tests and demonstrations.

## Plan

1. `Transparent` as a theorem about disciplined programs: the two machines agree
   on what the program uses, over `FramesStayIntact`.
2. Tier 2 of BASIC: the FOR and GOSUB stack, with its limit and its unwinding
   by GOTO and RETURN, over the store and the loop of tier 1.
