--------------------------- MODULE MCRunaheadLsq ---------------------------
(***************************************************************************)
(* The programs RunaheadLsq is model checked with.  Words 1 and 2 share a  *)
(* line, word 3 is in the next one; both lines map to one runahead block.  *)
(***************************************************************************)
EXTENDS RunaheadLsq

MCWords == 1..3
MCLine == <<1, 1, 2>>
MCRBlock == <<1, 1>>

Load(ws) == [kind |-> "load", words |-> ws]
Store(ws) == [kind |-> "store", words |-> ws]

Run(prog, farLines, slow) ==
  [prog |-> prog, tso |-> TRUE, loadPorts |-> 3, storePorts |-> 4,
   far |-> farLines, slowTlb |-> slow]

Relaxed(s) == [s EXCEPT !.tso = FALSE]
Narrow(s) == [s EXCEPT !.loadPorts = 1]

\* Forwarding in full and in part, speculation past stores.
ForwardPrograms ==
  {Run(<<Store({1}), Load({1, 2}), Load({1})>>, {}, FALSE),
   Relaxed(Run(<<Store({1}), Store({1, 2}), Load({1, 2})>>, {}, FALSE)),
   Run(<<Store({1, 3}), Store({1}), Load({1})>>, {}, FALSE),
   Run(<<Store({2, 3}), Load({2})>>, {}, TRUE)}
\* Runahead behind a load that misses: stores and loads of the runahead cache,
\* a retired store on its way to memory, a second miss.
RunaheadPrograms ==
  {Run(<<Load({3}), Store({1}), Load({1})>>, {2}, FALSE),
   Relaxed(Run(<<Load({3}), Store({3}), Load({1})>>, {2}, FALSE)),
   Run(<<Store({1}), Load({3}), Load({1, 2})>>, {2}, FALSE),
   Run(<<Load({3}), Load({1}), Store({2})>>, {2}, FALSE),
   Run(<<Load({3}), Load({1})>>, {1, 2}, FALSE)}

MemoryPrograms == ForwardPrograms \cup RunaheadPrograms

\* One port for loads and one for stores, page table walks, and a miss.
LivePrograms ==
  {Narrow(Run(<<Load({1, 3}), Load({2})>>, {}, TRUE)),
   [Relaxed(Run(<<Store({1}), Store({3})>>, {}, FALSE)) EXCEPT !.storePorts = 1],
   Run(<<Store({1, 3}), Load({1, 2})>>, {}, FALSE),
   Run(<<Load({3}), Store({1}), Load({1, 2})>>, {2}, FALSE)}

AllPrograms == MemoryPrograms \cup LivePrograms

\* A load across lines, one packet of which is refused, and an older store.
RefusedPrograms ==
  {Run(<<Store({1, 3}), Load({1, 3})>>, {}, FALSE)}

\* Three stores and one port for them, without TSO: the second one finds the
\* port taken by the first, and the third one overtakes it.
OnePortPrograms ==
  {[Relaxed(Run(<<Store({1}), Store({3}), Store({2})>>, {}, FALSE))
      EXCEPT !.storePorts = 1]}
=============================================================================
