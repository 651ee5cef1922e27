--------------------------- MODULE MCRunaheadCore ---------------------------
(***************************************************************************)
(* The programs RunaheadCore is model checked with.                        *)
(***************************************************************************)
EXTENDS OrderInvariant

\* A load that misses, a branch behind it that may be mispredicted, and a load
\* that misses in the next period.
BranchPrograms == {<<"load", "branch", "load">>}

\* Loads in flight together in a window that takes several cycles to squash.
WindowPrograms == {<<"load", "load", "alu", "load">>}

\* What does not simply commit.
TrapPrograms ==
  {<<"load", "serialize", "branch">>, <<"load", "fault", "alu">>,
   <<"load", "pagefault", "alu">>}

\* Memory order violations; a load that misses again and again.
MemoryPrograms ==
  {<<"store", "load", "load">>, <<"load", "load">>, <<"load", "alu", "alu", "load">>}

EagerPrograms == BranchPrograms \cup WindowPrograms \cup TrapPrograms

\* Eager runs the programs above, NLLB, with lazy entry, those with violations.
CorePrograms == EagerPrograms \cup MemoryPrograms
PolicyOf == [p \in CorePrograms |-> IF p \in EagerPrograms THEN "Eager" ELSE "NLLB"]
EagerEntryOf == [p \in CorePrograms |-> p \in EagerPrograms]
\* Fewer instructions where a branch multiplies them.
BoundOf == [p \in CorePrograms |-> IF p \in MemoryPrograms THEN 9
                                   ELSE IF p[2] = "branch" \/ p[3] = "branch" THEN 5
                                   ELSE 6]

\* DynamicDelayed, to the end.
LivePrograms == BranchPrograms \cup {<<"load", "fault">>}
DynamicPolicy == [p \in LivePrograms |-> "DynamicDelayed"]
LazyEntry == [p \in LivePrograms |-> FALSE]
DynamicBound == [p \in LivePrograms |-> 5]

\* MinimumWork.
MinimumWorkPolicy == [p \in MemoryPrograms |-> "MinimumWork"]
EntryAtOnce == [p \in MemoryPrograms |-> TRUE]
MinimumWorkBound == [p \in MemoryPrograms |-> 6]

\* Off the correct path: what runahead may begin at, and what ends it.
LoadOrPageFault == {"load", "pagefault"}
AluOrLoad == {"alu", "load"}
=============================================================================
