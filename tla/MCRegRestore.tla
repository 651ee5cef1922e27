---------------------------- MODULE MCRegRestore ----------------------------
(***************************************************************************)
(* The programs RegRestore is model checked with.                          *)
(***************************************************************************)
EXTENDS RegRestore

OpIs(k, d, s) == [kind |-> k, dst |-> d, src |-> s]

\* A load that misses, consumers of its result, and a second load that does or
\* does not depend on the first.
ChainPrograms ==
  {<<OpIs("load", 1, 2), OpIs("load", 2, 2), OpIs("alu", 1, 2), OpIs("alu", 2, 1)>>,
   <<OpIs("alu", 1, 1), OpIs("load", 2, 1), OpIs("load", 1, 2), OpIs("alu", 2, 2)>>}

\* Squashes within and without runahead.
SquashPrograms ==
  {<<OpIs("alu", 1, 2), OpIs("load", 1, 1), OpIs("branch", 0, 2), OpIs("alu", 2, 1)>>}

AllPrograms == ChainPrograms \cup SquashPrograms
=============================================================================
