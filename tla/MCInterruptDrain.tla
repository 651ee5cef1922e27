-------------------------- MODULE MCInterruptDrain --------------------------
(***************************************************************************)
(* The programs InterruptDrain is model checked with.                      *)
(***************************************************************************)
EXTENDS InterruptDrain

I(k, m, l) == [kind |-> k, mid |-> m, line |-> l]
Micro(k, l) == I(k, TRUE, l)
Macro(k, l) == I(k, FALSE, l)

\* A load that misses and a macro-op of two that ends in a branch.
MixedProgram == <<Macro("load", 1), Micro("alu", 1), Macro("branch", 1)>>

\* A macro-op across two lines, with a load that misses behind its first micro-op:
\* to go back to that load fetch has to ask for a line.
InnerLoadProgram == <<Micro("alu", 1), Macro("load", 2)>>

InterruptPrograms ==
  {[prog |-> p, interrupts |-> TRUE, drains |-> FALSE] :
     p \in {InnerLoadProgram, <<Macro("fault", 1), Macro("alu", 1)>>}}

\* Not the macro-op with the load inside: see Settles.
DrainPrograms ==
  {[prog |-> p, interrupts |-> FALSE, drains |-> TRUE] :
     p \in {MixedProgram, <<Macro("load", 1), Macro("fault", 1)>>,
            <<Macro("branch", 1), Macro("alu", 2)>>}}

\* A drain request and interrupts.
BothPrograms ==
  {[prog |-> <<Macro("load", 1)>>, interrupts |-> TRUE, drains |-> TRUE]}

AllPrograms == InterruptPrograms \cup DrainPrograms \cup BothPrograms
=============================================================================
