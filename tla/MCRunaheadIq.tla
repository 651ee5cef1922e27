---------------------------- MODULE MCRunaheadIq ----------------------------
(***************************************************************************)
(* The programs RunaheadIq is model checked with.                          *)
(***************************************************************************)
EXTENDS RunaheadIq

Instr(k, src) == [kind |-> k, src |-> src, addr |-> 0, far |-> FALSE, faulty |-> FALSE]
Mem(k, src, a) == [Instr(k, src) EXCEPT !.addr = a]
Far(op) == [op EXCEPT !.far = TRUE]
Faulty(op) == [op EXCEPT !.faulty = TRUE]

Run(prog, n) == [prog |-> prog, wbWidth |-> 4, units |-> [k \in Kinds |-> 1], maxSn |-> n]
NarrowWb(s) == [s EXCEPT !.wbWidth = 1]

\* A load past a store whose address is late: a violation, the store set it
\* trains, a load that the store has part of; more stores of the set.
StorePrograms ==
  {Run(<<Instr("div", {}), Mem("store", {1}, 1), Mem("load", {}, 1), Instr("alu", {3})>>, 12),
   Run(<<Mem("store", {}, 1), Mem("load", {}, 1), Mem("store", {}, 2), Mem("store", {}, 2)>>, 12)}

\* Two operands, one unit for long operations, a misprediction, a fault.
RegisterPrograms ==
  {NarrowWb(Run(<<Instr("div", {}), Instr("alu", {}), Instr("branch", {2}),
                  Instr("div", {1, 2})>>, 13)),
   Run(<<Faulty(Mem("store", {}, 1)), Instr("branch", {}), Mem("load", {}, 1)>>, 7)}

\* Barriers between accesses, and a branch before one.
BarrierPrograms ==
  {Run(<<Mem("store", {}, 1), Instr("barrier", {}), Mem("load", {}, 2), Mem("store", {}, 2)>>, 13),
   Run(<<Instr("branch", {}), Instr("barrier", {}), Mem("load", {}, 1)>>, 10)}

\* Runahead behind a load that misses, with all that can be in flight.
FarPrograms ==
  {Run(<<Far(Mem("load", {}, 1)), Instr("div", {}), Mem("load", {1, 2}, 2)>>, 7),
   Run(<<Far(Mem("load", {}, 1)), Instr("barrier", {}), Mem("load", {}, 2)>>, 7),
   NarrowWb(Run(<<Far(Mem("load", {}, 1)), Instr("barrier", {}), Instr("div", {})>>, 7)),
   Run(<<Far(Mem("load", {}, 1)), Faulty(Mem("store", {1}, 2)), Far(Mem("load", {}, 2))>>, 7)}

\* A barrier and one write-back per cycle, for which a long operation comes in
\* just before it: the barrier waits, and the exit from runahead squashes it.
LostPrograms ==
  {NarrowWb(Run(<<Far(Mem("load", {}, 1)), Instr("barrier", {}), Instr("alu", {}),
                  Instr("div", {})>>, 8))}

IqPrograms == StorePrograms \cup RegisterPrograms \cup BarrierPrograms \cup FarPrograms
=============================================================================
