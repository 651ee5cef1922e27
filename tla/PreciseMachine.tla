--------------------------- MODULE PreciseMachine ---------------------------
(***************************************************************************)
(* What an interrupt handler, or whoever has the CPU drained, sees of a    *)
(* program that runs in a loop: the state between two instructions, with   *)
(* the registers of in-order execution, and never in the middle of a       *)
(* macro-op, but for a load the machine has just gone back to: there, too, *)
(* an interrupt is taken.                                                  *)
(***************************************************************************)
EXTENDS Naturals, Sequences

VARIABLES
  prog,    \* the program: operations with their kind and the flag mid, see Boundary
  pc,      \* the next operation
  back,    \* the load a runahead period has gone back to, or 0
  halted,
  seen     \* the state somebody outside looks at

vars == <<prog, pc, back, halted, seen>>

Succ(p) == IF p = Len(prog) THEN 1 ELSE p + 1
Pred(p) == IF p = 1 THEN Len(prog) ELSE p - 1

\* An operation with mid is not the last micro-op of its macro-op.
Boundary(p) == ~prog[Pred(p)].mid

Nobody == [pc |-> 0, regs |-> "arch"]

Init == pc = 1 /\ back = 0 /\ ~halted /\ seen = Nobody

Step ==
  /\ seen = Nobody /\ pc' = Succ(pc)
  /\ back' = IF back = pc THEN 0 ELSE back
  /\ UNCHANGED <<halted, seen>>

\* A runahead period has been and gone, on behalf of the load at pc.
GoBack == prog[pc].kind = "load" /\ back' = pc /\ UNCHANGED <<pc, halted, seen>>

See == seen = Nobody /\ seen' = [pc |-> pc, regs |-> "arch"]

Interrupt == See /\ (Boundary(pc) \/ back = pc) /\ UNCHANGED <<pc, back, halted>>

Return == seen' = Nobody /\ UNCHANGED <<pc, back, halted>>

Halt == See /\ Boundary(pc) /\ halted' /\ UNCHANGED <<pc, back>>

Next ==
  ~halted /\ (Step \/ GoBack \/ Interrupt \/ Return \/ Halt) /\ UNCHANGED prog

Spec == Init /\ [][Next]_vars
=============================================================================
