--------------------------- MODULE OrderInvariant ---------------------------
(***************************************************************************)
(* Why software never sees runahead: the inductive invariant behind        *)
(* ArchitecturallyInOrder.                                                 *)
(***************************************************************************)
EXTENDS SquashInvariant

Insts(s) == {s[k] : k \in DOMAIN s}

RobDead(k) == rob[k].squashed \/ ToBeMarked(k)

\* Between a squash of commit and fetch, all in front of the ROB is dead.
FrontDead == sig.squash /\ phase # "iew"

Front == Insts(renameNow) \cup Insts(renameNext) \cup Insts(fetchQueue)

\* What is in flight and will not be squashed by what commit has decided so far,
\* and where fetch goes on behind it.
RobLive == {rob[k] : k \in {j \in DOMAIN rob : ~RobDead(j)}}

Flying == RobLive \cup (IF FrontDead THEN {} ELSE Front)

Target == IF FrontDead THEN sig.pc ELSE fetchPc

\* Commit is about to commit what is in flight.
Proceeding == ~inRunahead /\ status # "TrapPending"

-----------------------------------------------------------------------------
(* The path through the program that is in flight.                         *)

Place(i) == [sn |-> i.sn, pos |-> i.pos, jumps |-> i.mispred,
             ends |-> i.kind = "pagefault" /\ i.fault]

Path == {Place(i) : i \in Flying}

\* Where the program, or the misprediction at i, goes on.
Leads(i, p) ==
  IF i.ends THEN p = EndOfProgram
  ELSE IF i.pos = 0 THEN p = 0
  ELSE p = i.pos + 1 \/ (i.jumps /\ p = 0)

\* P is a path from first on whose last place leads to target.
Connected(P, first, target) ==
  /\ P = {} => target = first
  /\ \A i \in P : (\A j \in P : i.sn <= j.sn) => i.pos = first
  /\ \A i, j \in P : i.sn < j.sn /\ (\A m \in P : m.sn <= i.sn \/ j.sn <= m.sn)
                       => Leads(i, j.pos)
  /\ \A i \in P : (\A j \in P : j.sn <= i.sn) => Leads(i, target)

InProgramOrder ==
  Proceeding => Connected(Path, pc, Target) /\ Target \in 0..EndOfProgram

-----------------------------------------------------------------------------
Unread == {"events", "fetch", "iew", "walk", "select", "iewsquash"}

Finished(i) == i.state \in {"executed", "done"}

\* A mispredicted branch that has not executed, or whose squash, or an older one,
\* is on its way to commit before the branch itself can be committed.
Unresolved(i) ==
  /\ i.mispred
  /\ \/ i.state = "waiting"
     \/ i.state = "executed" /\ iewNext.squash /\ iewNext.sn <= i.sn
          /\ i.sn \notin iewNow.insts
     \/ i.state # "waiting" /\ phase \in Unread /\ iewNow.squash /\ iewNow.sn <= i.sn

\* Only behind such a branch is anything off the correct path.
WrongPathEnds ==
  Proceeding =>
    /\ \A i \in Flying : i.pos = 0 => \E j \in Flying : j.sn < i.sn /\ Unresolved(j)
    /\ Target = 0 => \E j \in Flying : Unresolved(j)

\* An instruction on the correct path is the program's, and its fault is one no
\* trap has handled.
FaultKnown(i) == i.kind = "pagefault" \/ Finished(i)

TrueToProgram(i) ==
  /\ i.pos \in 0..Len(prog)
  /\ i.mispred => i.kind = "branch"
  /\ i.pos # 0 => /\ i.kind = prog[i.pos]
                  /\ i.fault => i.pos \in faults
                  /\ i.pos \in faults /\ FaultKnown(i) => i.fault
  /\ InFlight(i) \/ i.sn \in mem => i.kind = "load"
  /\ i.sn \in iewNow.insts \cup iewNext.insts => Finished(i)

\* What IEW tells commit of instruction i.
Redirects(msg, i) ==
  msg.squash /\ msg.sn = i.sn =>
    IF msg.include THEN msg.pc = i.pos ELSE i.mispred /\ msg.pc = BranchTarget(i)

InstsTrue ==
  Proceeding =>
    \A i \in Flying : /\ TrueToProgram(i)
                      /\ Redirects(iewNext, i)
                      /\ phase \in Unread => Redirects(iewNow, i)

-----------------------------------------------------------------------------
(* In either mode.                                                         *)

ArchPc == IF inRunahead THEN storedPc ELSE pc

Faulting == {p \in DOMAIN prog : prog[p] \in {"fault", "pagefault"}}

ProgramSane == ArchPc \in 1..EndOfProgram /\ faults \subseteq Faulting

FrontFresh ==
  \A i \in Front : i.state = "waiting" /\ ~i.squashed /\ ~i.poisoned

\* Rename sends nothing on while the ROB squashes.
RenameStops ==
  status = "ROBSquashing" /\ ~FrontDead => renameNow = <<>> /\ renameNext = <<>>

YoungestKnown ==
  status # "ROBSquashing" =>
    \A k \in DOMAIN rob : ~rob[k].squashed => rob[k].sn <= youngestSeqNum

PoisonIsRunahead == \A k \in DOMAIN rob : rob[k].poisoned => rob[k].runahead

\* The range of sequence numbers IEW takes for squashed holds none that is not.
RangeDead ==
  LET range == RangeAfterSignal
  IN  /\ range.hi < nextSn
      /\ \A k \in DOMAIN rob :
           rob[k].sn > range.lo /\ rob[k].sn <= range.hi => RobDead(k)
      /\ ~FrontDead => \A i \in Front : i.sn > range.hi

\* Nothing refers to a sequence number that has not been handed out.
NumbersHandedOut ==
  /\ \A sn \in iewNow.insts \cup iewNext.insts \cup mem : sn < nextSn
  /\ iewNow.squash => iewNow.sn < nextSn
  /\ iewNext.squash => iewNext.sn < nextSn

OrderInv ==
  /\ InProgramOrder /\ WrongPathEnds /\ InstsTrue
  /\ ProgramSane /\ FrontFresh /\ RenameStops /\ YoungestKnown
  /\ PoisonIsRunahead /\ RangeDead /\ NumbersHandedOut
=============================================================================
