------------------------------- MODULE RobOps -------------------------------
(***************************************************************************)
(* The reorder buffer of the runahead CPU (rob.cc) as operators on a       *)
(* sequence of in-flight instructions, oldest first.  An instruction is a  *)
(* record holding the flags of its DynInst that the control logic reads:   *)
(*                                                                         *)
(*   sn        seqNum, drawn from one counter at fetch                     *)
(*   pos       where it lies in the program; 0 is off the correct path     *)
(*   kind      what the instruction is (see Kinds)                         *)
(*   state     progress through issue, memory and write-back               *)
(*   mispred   a branch whose predicted target is wrong                    *)
(*   fault     it raised a fault                                           *)
(*   runahead, poisoned, squashed   the DynInst flags of those names       *)
(***************************************************************************)
EXTENDS Integers, Sequences, FiniteSets

Kinds == {"alu", "load", "store", "branch", "serialize", "fault", "pagefault"}

\* "waiting": not issued.  "sent": a load whose request missed at least
\* lllDepthThreshold caches and is in flight.  "old": the same, in flight for
\* longer than runaheadInFlightThreshold.  "executed": isExecuted, on its way
\* to commit.  "done": commit has marked it canCommit.
States == {"waiting", "sent", "old", "executed", "done"}

Inst == [sn : Nat, pos : Nat, kind : Kinds, state : States,
         mispred : BOOLEAN, fault : BOOLEAN, runahead : BOOLEAN,
         poisoned : BOOLEAN, squashed : BOOLEAN]

InFlight(i) == i.state \in {"sent", "old"}

\* A load that left for memory and has neither a real nor a forged response:
\* isLoad, hasRequest, request sent and incomplete, every request deep enough.
IsLLL(i) == i.kind = "load" /\ InFlight(i)

\* isExecuted: an LLL counts as executed from the moment it is poisoned.
IsExecuted(i) == i.state \in {"executed", "done"} \/ (InFlight(i) /\ i.poisoned)

\* readyToCommit: canCommit is set by write-back and by a squash.
IsReady(i) == i.state = "done" \/ i.squashed

\* What ROB::doSquash marks in one cycle: of the instructions at or below the
\* walk position `from`, the `width` youngest that are younger than `to`.
WalkMarks(rob, from, to, width) ==
  {k \in DOMAIN rob : k <= from /\ k > from - width /\ rob[k].sn > to}

MarkSquashed(rob, K) ==
  [k \in DOMAIN rob |->
     IF k \in K THEN [rob[k] EXCEPT !.squashed = TRUE] ELSE rob[k]]

\* Mutant: the walk is taken to be over after one cycle.
WalkOnce(rob, from, to, width) == 0

\* squashIt after that cycle; 0 stands for end(), the state doneSquashing.
WalkNext(rob, from, to, width) ==
  LET next == from - width
  IN  IF next \in DOMAIN rob /\ rob[next].sn > to THEN next ELSE 0

\* ROB::findInst
InRob(rob, sn) == \E k \in DOMAIN rob : rob[k].sn = sn

InstOf(rob, sn) == rob[CHOOSE k \in DOMAIN rob : rob[k].sn = sn]

\* Mutant: poisoned and executed loads count.
YoungestLoad(rob, limit) ==
  IF \E k \in DOMAIN rob : rob[k].kind = "load"
  THEN rob[CHOOSE k \in DOMAIN rob :
             /\ rob[k].kind = "load"
             /\ \A j \in DOMAIN rob : rob[j].kind = "load" => j <= k].sn
  ELSE 0

\* ROB::findUnsentValidLoad: among the first `limit` loads that are not
\* poisoned (all of them when limit is -1, at least one otherwise) the
\* sequence number of the last one not executed, or 0.
UnsentValidLoad(rob, limit) ==
  LET valid  == {k \in DOMAIN rob : rob[k].kind = "load" /\ ~rob[k].poisoned}
      quota  == IF limit = -1 THEN Len(rob) ELSE limit
      older(k) == {j \in valid : j < k}
      looked == {k \in valid : older(k) = {} \/ Cardinality(older(k)) < quota}
      unsent == {k \in looked : ~IsExecuted(rob[k])}
  IN  IF \E k \in unsent : \A j \in unsent : j <= k
      THEN rob[CHOOSE k \in unsent : \A j \in unsent : j <= k].sn
      ELSE 0

AllSquashed(rob) == \A k \in DOMAIN rob : rob[k].squashed
=============================================================================
