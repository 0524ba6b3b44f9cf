----------------------------- MODULE MCMonitor -----------------------------
(***************************************************************************)
(* A program that waits for a character, stores it, looks for a break and  *)
(* goes back; by hand the user may put a BRK or another poll anywhere.     *)
(***************************************************************************)
EXTENDS Monitor

Op(o, a) == [op |-> o, arg |-> a]

MCImage ==
  <<Op("lda", IO_IN_STAT), Op("beq", CODE_START), Op("lda", IO_IN_DATA),
    Op("sta", 61441), Op("lda", IO_BRK), Op("jmp", CODE_START)>>

MCEntered   == {Brk, Op("lda", IO_IN_STAT)}
MCNamed     == {CODE_START, CODE_START + 2, CODE_START + 5}
MCShown     == {IO_IN_STAT - 1}
MCWatchable == {CODE_START + 1, IO_IN_DATA, Stack}
=============================================================================
