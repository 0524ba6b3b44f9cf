---------------------------- MODULE Interrupted ----------------------------
(***************************************************************************)
(* A program of CPU run twice: once with interrupts between any two of its *)
(* instructions, and once, in step with the first, without.  frames is the *)
(* history of the calls and interrupts not yet returned from.              *)
(***************************************************************************)
EXTENDS CPU, Sequences, FiniteSets, SequencesExt

CONSTANTS
  Shared,     \* the addresses the program, and not the handlers, uses
  MaxNesting  \* bound: the interrupts being handled at a time

ASSUME SharedAssumption == Shared \subseteq Ram

VARIABLES
  frames,
  qpc, qreg, qflag, qmem    \* the undisturbed machine

quiet == <<qpc, qreg, qflag, qmem>>

Quiet == INSTANCE CPU WITH pc <- qpc, reg <- qreg, flag <- qflag,
                           mem <- qmem

Frame(kind, resume) == [kind |-> kind, resume |-> resume, status |-> flag, sp |-> reg'["sp"]]

Interrupts  == {k \in DOMAIN frames : frames[k].kind \in {"irq", "nmi"}}
Undisturbed == Interrupts = {}

InitTwice ==
  /\ Init
  /\ frames = <<>>
  /\ qpc = pc /\ qreg = reg /\ qflag = flag /\ qmem = mem

(* an instruction; the undisturbed machine follows outside the handlers *)
Execute ==
  /\ Step
  /\ frames' = IF Is("jsr") THEN Append(frames, Frame("call", After))
               ELSE IF Is("brk") THEN Append(frames, Frame("break", Plus(After, 1)))
               ELSE IF Is("rts") \/ Is("rti") THEN Front(frames)
               ELSE frames
  /\ IF Undisturbed THEN Quiet!Step ELSE UNCHANGED quiet

Interrupt(kind) ==
  /\ Cardinality(Interrupts) < MaxNesting
  /\ frames' = Append(frames, Frame(kind, pc))
  /\ UNCHANGED quiet

TakeIrq == Irq /\ Interrupt("irq")
TakeNmi == Nmi /\ Interrupt("nmi")

NextTwice == Execute \/ TakeIrq \/ TakeNmi

SpecTwice == InitTwice /\ [][NextTwice]_<<vars, frames, quiet>>

-----------------------------------------------------------------------------
(* Where no interrupt is being handled the program cannot tell that there  *)
(* were any: registers, flags and the memory it uses are those of the run  *)
(* without, whatever instructions the interrupts fell between.  This takes *)
(* the pushes, the pulls, the packing of P and the B flag together.        *)
Live(sp) == Shared \cup {a \in Ram : 256 + sp < a /\ a <= 511}
Transparent ==
  Undisturbed =>
    /\ pc = qpc /\ reg = qreg /\ flag = qflag
    /\ \A a \in Live(reg["sp"]) : mem[a] = qmem[a]

(* The stack holds, under everything pushed since, what each pending call  *)
(* and interrupt will return to, with B telling BRK from an interrupt.     *)
FramesIntact ==
  \A k \in DOMAIN frames :
    LET f == frames[k]
    IN  IF f.kind = "call" THEN Plus(Pull16(mem, f.sp), 1) = f.resume
        ELSE /\ Pull8(mem, f.sp) = PackP(f.status) + IF f.kind = "break" THEN 16 ELSE 0
             /\ Pull16(mem, Byte8(f.sp + 1)) = f.resume

(* No IRQ is taken while a handler runs that has not enabled interrupts    *)
(* again: I is set on entry by BRK, IRQ and NMI alike, survives what the   *)
(* handler does, and comes back with RTI.                                  *)
HandlersMasked ==
  \A k \in DOMAIN frames : frames[k].kind = "irq" =>
    \A j \in 1 .. k - 1 : frames[j].kind = "call"

-----------------------------------------------------------------------------
(* The discipline programs keep, which CPU knows nothing of: they return   *)
(* only from what they entered last, with the stack pointer back where it  *)
(* was, pull nothing of a pending frame, store nothing over one, leave     *)
(* room for an interrupt, and their handlers leave interrupts masked.      *)
Size(f) == IF f.kind = "call" THEN 2 ELSE 3
Held == UNION {257 + frames[k].sp .. 256 + frames[k].sp + Size(frames[k]) : k \in DOMAIN frames}

Room == reg["sp"] >= 3 /\ 254 + reg["sp"] .. 256 + reg["sp"] \subseteq Ram

Pushing   == Is("jsr") \/ Is("brk") \/ Is("pha") \/ Is("php")
Returning == Is("rts") \/ Is("rti")
Handling  == \E k \in DOMAIN frames : frames[k].kind # "call"

Tidy ==
  /\ Returning => /\ frames # <<>> /\ reg["sp"] = Last(frames).sp
                  /\ Is("rts") <=> Last(frames).kind = "call"
  /\ ~Returning /\ frames # <<>> => reg'["sp"] <= Last(frames).sp
  /\ ~Pushing => \A a \in Held : Rd(mem', a) = Rd(mem, a)
  /\ Handling /\ ~Is("rti") => flag'["i"] >= flag["i"]

Disciplined == [][Room /\ (Execute => Tidy)]_<<vars, frames, quiet>>

-----------------------------------------------------------------------------
(* Returns resume what was entered last. *)
Calls == INSTANCE CallStack
           WITH Place <- Word, Status <- [{"n", "v", "d", "i", "z", "c"} -> {0, 1}],
                at <- pc, status <- flag,
                stack <- [k \in DOMAIN frames |->
                            [kind |-> frames[k].kind, resume |-> frames[k].resume,
                             status |-> frames[k].status]]
KeepsCalls == Calls!Spec
=============================================================================
