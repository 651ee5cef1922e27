--------------------------- MODULE InOrderMachine ---------------------------
(***************************************************************************)
(* What the CPU promises its software: the program runs in order, one      *)
(* instruction after the other, and an instruction that faults traps       *)
(* before it runs.                                                         *)
(***************************************************************************)
EXTENDS Integers, Sequences

VARIABLES
  prog,     \* the program
  pc,       \* the next instruction to run
  faults    \* the instructions that trap first

vars == <<prog, pc, faults>>

Init ==
  /\ pc = 1
  /\ faults = {p \in DOMAIN prog : prog[p] \in {"fault", "pagefault"}}

Commit ==
  /\ pc \in DOMAIN prog /\ pc \notin faults
  /\ pc' = pc + 1
  /\ UNCHANGED <<prog, faults>>

Trap ==
  /\ pc \in faults
  /\ faults' = faults \ {pc}
  /\ UNCHANGED <<prog, pc>>

Next == Commit \/ Trap

Spec == Init /\ [][Next]_vars
=============================================================================
