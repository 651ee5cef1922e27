---------------------------- MODULE RunaheadCore ----------------------------
(***************************************************************************)
(* Entry to and exit from runahead: Commit (commit.cc), the mode switch of *)
(* CPU (cpu.cc), the reorder buffer (rob.cc) and as much of fetch, rename  *)
(* and IEW as decides which instructions commit sees.  One thread.         *)
(*                                                                         *)
(* A clock cycle is CPU::tick preceded by the events of the event queue.   *)
(* `phase` names the part of the cycle that runs next:                     *)
(*                                                                         *)
(*   events -> fetch -> iew -> walk -> select -> iewsquash -> get          *)
(*          -> insts -> update -> events                                   *)
(*                                                                         *)
(* fetch..iew are the stages that run before commit in the same tick; walk *)
(* to update are Commit::tick.  Signals between stages take one cycle: what*)
(* commit reads in a cycle (the ..Now variables) was written in the cycle  *)
(* before (the ..Next variables).                                          *)
(***************************************************************************)
EXTENDS RobOps

CONSTANTS
  Policy,           \* runaheadExitPolicy, for each of the programs
  EagerEntry,       \* runaheadEagerEntry, for each of the programs
  AllowOverlap,     \* allowOverlappingRunahead
  Filtered,         \* filteredRunahead
  InFlightThreshold,\* runaheadInFlightThreshold; only whether it is 0 matters
  MinWork,          \* minRunaheadWork
  RobSize, SquashWidth, CommitWidth,
  FetchQueueSize,   \* instructions between fetch and rename
  Programs,         \* the programs: sequences of kinds
  WrongPathKinds,   \* kinds fetched off the correct path
  MaxSn             \* bound of the model: sequence numbers handed out, by program

ASSUME PolicyAssumption ==
  Policy \in [Programs -> {"Eager", "MinimumWork", "NLLB", "DynamicDelayed"}]
ASSUME FlagAssumption ==
  EagerEntry \in [Programs -> BOOLEAN] /\ AllowOverlap \in BOOLEAN /\ Filtered \in BOOLEAN
ASSUME SizeAssumption ==
  /\ RobSize \in Nat \ {0} /\ SquashWidth \in Nat \ {0}
  /\ CommitWidth \in Nat \ {0} /\ FetchQueueSize \in Nat \ {0}
  /\ InFlightThreshold \in Nat /\ MinWork \in Nat /\ MaxSn \in [Programs -> Nat]
ASSUME ProgramAssumption ==
  Programs \subseteq Seq(Kinds) /\ WrongPathKinds \subseteq Kinds

VARIABLES
  phase,
  prog, faults,     \* the program; positions whose fault no trap has handled
  \* fetch, decode, rename
  fetchPc, nextSn, fetchQueue, renameNext, renameNow,
  \* reorder buffer: squashIt (0: doneSquashing) and squashedSeqNum
  rob, squashIt, squashTo,
  mem,              \* sequence numbers of the LLL requests in the memory system
  \* IEW: what it sent to commit (finished instructions, a squash), and the
  \* range (squashedSeqNum, squashTailSeqNum] of the last squash from commit
  iewNext, iewNow, iewRange,
  sig,              \* toIEW->commitInfo: the squash commit signals to all stages
  status, pc, youngestSeqNum, lastCommitedSeqNum, committed,
  trapInFlight, trapEvent, trapSquash, squashAfterInst,
  \* CPU: mode, the load that caused runahead, the PC saved at entry
  inRunahead, runaheadCause, storedPc,
  \* Commit: exit protocol
  wasRunahead, exitRunahead, exitable, exitCause, exitSeqNum, deadlines,
  instsBetweenRunahead, instsPseudoretired, trackedRobInsts,
  archRestoreNext, archRestoreNow,
  regs              \* whose values the register file holds: "arch" or "runahead"

frontVars  == <<fetchPc, nextSn, fetchQueue>>
renameVars == <<renameNext, renameNow>>
robVars    == <<rob, squashIt, squashTo>>
iewVars    == <<iewNext, iewNow, iewRange>>
commitVars == <<status, pc, youngestSeqNum, lastCommitedSeqNum, committed>>
trapVars   == <<faults, trapInFlight, trapEvent, trapSquash, squashAfterInst>>
modeVars   == <<inRunahead, runaheadCause, storedPc, wasRunahead>>
exitVars   == <<exitRunahead, exitable, exitCause, exitSeqNum, deadlines>>
countVars  == <<instsBetweenRunahead, instsPseudoretired, trackedRobInsts>>
archVars   == <<archRestoreNext, archRestoreNow, regs>>

vars == <<phase, prog, frontVars, renameVars, robVars, mem, iewVars, sig,
          commitVars, trapVars, modeVars, exitVars, countVars, archVars>>

-----------------------------------------------------------------------------
NoCause == [sn |-> 0, pos |-> 0]
Cause == [sn : Nat, pos : Nat]
IewMsg == [insts : SUBSET Nat, squash : BOOLEAN, sn : Nat, include : BOOLEAN,
           pc : Nat]

NoSig == [squash |-> FALSE, done |-> 0, tail |-> 0, pc |-> 0]
NoIewMsg ==
  [insts |-> {}, squash |-> FALSE, sn |-> 0, include |-> FALSE, pc |-> 0]

EndOfProgram == Len(prog) + 1

\* PCStateBase::advancePC: a mispredicted branch that was poisoned never
\* learnt its target and goes on where it was predicted to.
Advance(i) == IF i.pos = 0 \/ (i.mispred /\ i.poisoned) THEN 0 ELSE i.pos + 1

Head0 == rob[1]

\* ROB::squash, which does the first cycle of the walk at once and does
\* nothing for an empty ROB.
RobSquash(to) ==
  IF rob = <<>>
  THEN UNCHANGED robVars
  ELSE /\ rob' = MarkSquashed(rob, WalkMarks(rob, Len(rob), to, SquashWidth))
       /\ squashIt' = WalkNext(rob, Len(rob), to, SquashWidth)
       /\ squashTo' = to

RobTail(to) == IF rob = <<>> THEN to ELSE rob[Len(rob)].sn

SignalSquash(to, newPc) ==
  sig' = [squash |-> TRUE, done |-> to, tail |-> RobTail(to), pc |-> newPc]

-----------------------------------------------------------------------------
Init ==
  /\ phase = "events"
  /\ prog \in Programs
  /\ faults = {p \in DOMAIN prog : prog[p] \in {"fault", "pagefault"}}
  /\ fetchPc = 1 /\ nextSn = 1 /\ fetchQueue = <<>>
  /\ renameNext = <<>> /\ renameNow = <<>>
  /\ rob = <<>> /\ squashIt = 0 /\ squashTo = 0
  /\ mem = {}
  /\ iewNext = NoIewMsg /\ iewNow = NoIewMsg
  /\ iewRange = [lo |-> 0, hi |-> 0]
  /\ sig = NoSig
  /\ status = "Running" /\ pc = 1 /\ committed = 0
  /\ youngestSeqNum = 0 /\ lastCommitedSeqNum = 0
  /\ trapInFlight = FALSE /\ trapEvent = "none" /\ trapSquash = FALSE
  /\ squashAfterInst = 0
  /\ inRunahead = FALSE /\ runaheadCause = NoCause /\ storedPc = 0
  /\ wasRunahead = FALSE
  /\ exitRunahead = FALSE /\ exitable = FALSE /\ exitCause = NoCause
  /\ exitSeqNum = 0 /\ deadlines = {}
  /\ instsBetweenRunahead = 0 /\ instsPseudoretired = 0 /\ trackedRobInsts = 0
  /\ archRestoreNext = FALSE /\ archRestoreNow = FALSE /\ regs = "arch"

-----------------------------------------------------------------------------
(* The event queue between two ticks.                                      *)

\* Commit::dynamicDelayedRunaheadExit: go at once unless the ROB of entry was
\* worked through, a load is near and there is a chain to fetch it with.
DynamicDelayedExit(hasChain) ==
  \/ instsPseudoretired < trackedRobInsts
  \/ UnsentValidLoad(rob, MinWork) = 0
  \/ ~hasChain

NextLoad == UnsentValidLoad(rob, -1)

\* Whether the policy leaves runahead as soon as the load has returned.
ExitsAtOnce(hasChain) ==
  CASE Policy[prog] = "Eager"          -> TRUE
    [] Policy[prog] = "MinimumWork"    -> instsPseudoretired >= MinWork
    [] Policy[prog] = "NLLB"           -> NextLoad = 0
    [] Policy[prog] = "DynamicDelayed" -> DynamicDelayedExit(hasChain)

\* If it does not, the exit is forced runaheadExitDeadline cycles from now.
ArmedDeadlines(exiting) ==
  IF exiting THEN deadlines ELSE deadlines \cup {runaheadCause.sn}

\* Commit::signalExitRunahead
SignalExitRunahead(hasChain) ==
  IF exitable
  THEN UNCHANGED exitVars
  ELSE /\ exitable' = TRUE
       /\ exitCause' = runaheadCause
       /\ exitRunahead' = (exitRunahead \/ ExitsAtOnce(hasChain))
       /\ exitSeqNum' = IF Policy[prog] = "NLLB" /\ NextLoad # 0
                        THEN NextLoad ELSE exitSeqNum
       /\ deadlines' = ArmedDeadlines(exitRunahead')

\* Mutant: any returning load ends the period.
AnyLoadCaused(sn) == inRunahead

\* CPU::instCausedRunahead
CausedRunahead(sn) == inRunahead /\ sn = runaheadCause.sn

\* LSQUnit::recvTimingResp for the load that caused this runahead period; its
\* packet is then discarded, a response was forged at entry.
LLLReturn(sn) ==
  /\ phase = "events"
  /\ sn \in mem /\ CausedRunahead(sn)
  /\ mem' = mem \ {sn}
  /\ \E hasChain \in IF Filtered THEN BOOLEAN ELSE {TRUE} :
       SignalExitRunahead(hasChain)
  /\ UNCHANGED <<phase, prog, frontVars, renameVars, robVars, iewVars, sig,
                 commitVars, trapVars, modeVars, countVars, archVars>>

\* Mutant: no check for stale runahead instructions.
TakesResponseStale(i, sn) == i.sn = sn /\ ~i.squashed /\ ~i.poisoned

\* LSQUnit::writeback skips squashed and stale runahead instructions; a load
\* poisoned while in flight already has a forged response.
TakesResponse(i, sn) ==
  /\ i.sn = sn
  /\ ~i.squashed /\ ~i.poisoned
  /\ i.runahead => inRunahead

\* LSQUnit::writeback of a memory response or a forged one.
WriteBackLoads(K) ==
  /\ rob' = [k \in DOMAIN rob |->
               IF k \in K THEN [rob[k] EXCEPT !.state = "executed"] ELSE rob[k]]
  /\ iewNext' = [iewNext EXCEPT !.insts = @ \cup {rob[k].sn : k \in K}]
  /\ regs' = IF \E k \in K : rob[k].runahead THEN "runahead" ELSE regs

\* LSQUnit::recvTimingResp for any other load.
MemResponse(sn) ==
  /\ phase = "events"
  /\ sn \in mem /\ ~CausedRunahead(sn)
  /\ mem' = mem \ {sn}
  /\ WriteBackLoads({k \in DOMAIN rob : TakesResponse(rob[k], sn)})
  /\ UNCHANGED <<phase, prog, frontVars, renameVars, squashIt, squashTo,
                 iewNow, iewRange, sig, commitVars, trapVars, modeVars, exitVars,
                 countVars, archRestoreNext, archRestoreNow>>

\* The forged response of a load poisoned at the ROB head: the event
\* LSQUnit::forgeResponse scheduled for this tick.
ForgedPending(i) ==
  InFlight(i) /\ i.poisoned /\ ~i.squashed /\ (i.runahead => inRunahead)

ForgedResponse(k) ==
  /\ phase = "events"
  /\ ForgedPending(rob[k])
  /\ WriteBackLoads({k})
  /\ UNCHANGED <<phase, prog, frontVars, renameVars, squashIt, squashTo, mem,
                 iewNow, iewRange, sig, commitVars, trapVars, modeVars, exitVars,
                 countVars, archRestoreNext, archRestoreNow>>

\* The load at the ROB head has been in flight for too long to be worth
\* running ahead of (canEnterRunahead's inFlightCycles > threshold).
InFlightTooLong ==
  /\ phase = "events"
  /\ rob # <<>> /\ Head0.state = "sent"
  /\ rob' = [rob EXCEPT ![1].state = "old"]
  /\ UNCHANGED <<phase, prog, frontVars, renameVars, squashIt, squashTo, mem,
                 iewVars, sig, commitVars, trapVars, modeVars, exitVars,
                 countVars, archVars>>

\* A deadline is meant for the period of its load only.
DeadlineApplies(sn) == inRunahead /\ exitCause.sn = sn

\* The RunaheadExitDeadline event scheduled by signalExitRunahead.
DeadlineEvent(sn) ==
  /\ phase = "events"
  /\ sn \in deadlines
  /\ deadlines' = deadlines \ {sn}
  /\ exitRunahead' = (exitRunahead \/ DeadlineApplies(sn))
  /\ UNCHANGED <<phase, prog, frontVars, renameVars, robVars, mem, iewVars,
                 sig, commitVars, trapVars, modeVars, exitable, exitCause,
                 exitSeqNum, countVars, archVars>>

\* Mutant: every trap is void outside of runahead.
AnyTrapIsVoid == ~inRunahead

\* A trap of a runahead instruction is void once runahead is left.
TrapIsVoid == trapEvent = "runahead" /\ ~inRunahead

\* Commit::processTrapEvent, trapLatency cycles after generateTrapEvent.
ProcessTrapEvent ==
  /\ phase = "events"
  /\ trapEvent # "none"
  /\ trapEvent' = "none"
  /\ trapSquash' = (trapSquash \/ ~TrapIsVoid)
  /\ UNCHANGED <<phase, prog, frontVars, renameVars, robVars, mem, iewVars,
                 sig, commitVars, faults, trapInFlight, squashAfterInst,
                 modeVars, exitVars, countVars, archVars>>

StartTick ==
  /\ phase = "events"
  /\ \A k \in DOMAIN rob : ~ForgedPending(rob[k])
  /\ phase' = "fetch"
  /\ UNCHANGED <<prog, frontVars, renameVars, robVars, mem, iewVars, sig,
                 commitVars, trapVars, modeVars, exitVars, countVars, archVars>>

-----------------------------------------------------------------------------
(* The stages before commit.                                               *)

\* A page fault at fetch is known when the instruction is built, any other
\* fault when it executes.  Handled faults (traps) do not come back.
FaultsAtFetch(k) == k = "pagefault" /\ (fetchPc \in faults \/ fetchPc = 0)
FaultsAtExecute(i) == i.kind = "fault" /\ (i.pos \in faults \/ i.pos = 0)

\* Fetch::buildInst
NewInst(k, mispred) ==
  [sn |-> nextSn, pos |-> fetchPc, kind |-> k, state |-> "waiting",
   mispred |-> mispred, fault |-> FaultsAtFetch(k), runahead |-> inRunahead,
   poisoned |-> FALSE, squashed |-> FALSE]

\* On the correct path the program says what is fetched, off it anything is.
KindsAtFetch == IF fetchPc = 0 THEN WrongPathKinds ELSE {prog[fetchPc]}

\* Fetch::fetch for one instruction; behind the carrier of a page fault fetch
\* waits for a squash.
FetchInst(queue, k, mispred) ==
  /\ nextSn <= MaxSn[prog]
  /\ fetchPc # EndOfProgram
  /\ Len(queue) < FetchQueueSize
  /\ k \in KindsAtFetch
  /\ mispred => k = "branch"
  /\ fetchQueue' = Append(queue, NewInst(k, mispred))
  /\ nextSn' = nextSn + 1
  /\ fetchPc' = IF FaultsAtFetch(k) THEN EndOfProgram
                ELSE IF mispred \/ fetchPc = 0 THEN 0 ELSE fetchPc + 1

\* A squash from commit: Fetch::squash -> CPU::removeInstsNotInROB drops what
\* has not reached the ROB, the write of rename commit has yet to read included.
FrontEndSquash ==
  /\ phase = "fetch" /\ sig.squash
  /\ phase' = "iew"
  /\ fetchPc' = sig.pc
  /\ fetchQueue' = <<>> /\ renameNow' = <<>>
  /\ UNCHANGED <<prog, nextSn, renameNext, robVars, mem, iewVars, sig,
                 commitVars, trapVars, modeVars, exitVars, countVars, archVars>>

\* Rename sends on the oldest n instructions it has if the ROB will have
\* entries for them and is not squashing; fetch adds one, or misses.
FrontEndAdvance ==
  /\ phase = "fetch" /\ ~sig.squash
  /\ phase' = "iew"
  /\ \E n \in 0..Len(fetchQueue) :
       LET rest == SubSeq(fetchQueue, n + 1, Len(fetchQueue))
       IN  /\ n > 0 => /\ status # "ROBSquashing"
                       /\ Len(rob) + Len(renameNow) + n <= RobSize
           /\ renameNext' = SubSeq(fetchQueue, 1, n)
           /\ \/ fetchQueue' = rest /\ UNCHANGED <<fetchPc, nextSn>>
              \/ \E k \in Kinds, mispred \in BOOLEAN : FetchInst(rest, k, mispred)
  /\ UNCHANGED <<prog, renameNow, robVars, mem, iewVars, sig, commitVars,
                 trapVars, modeVars, exitVars, countVars, archVars>>

\* With filtered runahead, what is not in the dependence chain of the load is
\* fetched and thrown away.
FrontEndDiscard ==
  /\ phase = "fetch" /\ ~sig.squash
  /\ Filtered /\ inRunahead /\ fetchQueue # <<>>
  /\ phase' = "iew"
  /\ fetchQueue' = Tail(fetchQueue)
  /\ UNCHANGED <<prog, fetchPc, nextSn, renameVars, robVars, mem, iewVars, sig,
                 commitVars, trapVars, modeVars, exitVars, countVars, archVars>>

-----------------------------------------------------------------------------
(* IEW::executeInsts, one instruction at a time.                           *)

\* IEW::squash remembers the last squash of commit as a range: the ROB marks
\* the instructions in it over several cycles.
RangeAfterSignal ==
  IF sig.squash THEN [lo |-> sig.done, hi |-> sig.tail] ELSE iewRange

SquashedForIew(i) ==
  \/ i.squashed
  \/ i.sn > RangeAfterSignal.lo /\ i.sn <= RangeAfterSignal.hi
  \/ i.runahead /\ ~inRunahead

\* Instruction k leaves execution as inst with msg to commit (instToCommit);
\* the register values it writes are of the mode it executes in.
Complete(k, inst, msg) ==
  /\ rob' = [rob EXCEPT ![k] = [inst EXCEPT !.state = "executed"]]
  /\ iewNext' = [msg EXCEPT !.insts = @ \cup {inst.sn}]
  /\ regs' = IF inst.runahead THEN "runahead" ELSE regs

\* Of several squashes in one cycle the oldest is sent.
WithSquash(sn, include, newPc) ==
  IF iewNext.squash /\ iewNext.sn < sn
  THEN iewNext
  ELSE [iewNext EXCEPT !.squash = TRUE, !.sn = sn, !.include = include,
                       !.pc = newPc]

\* Stale and squashed instructions the ROB has not come to are marked here.
SkipSquashed(k) ==
  /\ SquashedForIew(rob[k]) /\ rob[k].state = "waiting" /\ ~rob[k].squashed
  /\ rob' = [rob EXCEPT ![k].squashed = TRUE]
  /\ UNCHANGED <<mem, iewNext, regs>>

Issued(k) == rob[k].state = "waiting" /\ ~SquashedForIew(rob[k])

\* Poisoned source registers: everything but a store is skipped, and a
\* mispredicted branch goes unnoticed.
ExecutePoisoned(k) ==
  /\ Issued(k) /\ rob[k].runahead /\ rob[k].kind # "store" /\ ~rob[k].fault
  /\ Complete(k, [rob[k] EXCEPT !.poisoned = TRUE], iewNext)
  /\ UNCHANGED mem

\* Anything that neither redirects nor waits, a load that hits near included.
ExecuteShort(k) ==
  /\ Issued(k) /\ rob[k].kind \notin {"branch", "store"}
  /\ Complete(k, [rob[k] EXCEPT !.fault = @ \/ FaultsAtExecute(rob[k])], iewNext)
  /\ UNCHANGED mem

\* A load whose request turns out to go to memory.
SendLoad(k) ==
  /\ Issued(k) /\ rob[k].kind = "load"
  /\ rob' = [rob EXCEPT ![k].state =
               IF InFlightThreshold = 0 THEN "old" ELSE "sent"]
  /\ mem' = mem \cup {rob[k].sn}
  /\ UNCHANGED <<regs, iewNext>>

\* Mutant: fetch resumes at the branch.
TargetIsBranch(i) == i.pos

\* Where a branch goes; off the correct path, somewhere off it.
BranchTarget(i) == IF i.pos = 0 THEN 0 ELSE i.pos + 1

\* IEW::squashDueToBranch
ExecuteBranch(k) ==
  /\ Issued(k) /\ rob[k].kind = "branch"
  /\ Complete(k, rob[k], IF rob[k].mispred
                         THEN WithSquash(rob[k].sn, FALSE, BranchTarget(rob[k]))
                         ELSE iewNext)
  /\ UNCHANGED mem

\* A store finds a younger load that executed before it (or none):
\* IEW::squashDueToMemOrder squashes from that load on.
Violators(k) ==
  {j \in DOMAIN rob : /\ j > k /\ rob[j].kind = "load" /\ IsExecuted(rob[j])
                      /\ ~rob[j].poisoned /\ ~rob[j].squashed}

ExecuteStore(k) ==
  /\ Issued(k) /\ rob[k].kind = "store"
  /\ \/ Complete(k, rob[k], iewNext)
     \/ \E j \in Violators(k) :
          Complete(k, rob[k], WithSquash(rob[j].sn, TRUE, rob[j].pos))
  /\ UNCHANGED mem

IewExecute ==
  /\ phase = "iew"
  /\ \E k \in DOMAIN rob :
       \/ SkipSquashed(k)
       \/ ExecutePoisoned(k)
       \/ ExecuteShort(k)
       \/ SendLoad(k)
       \/ ExecuteBranch(k)
       \/ ExecuteStore(k)
  /\ UNCHANGED <<phase, prog, frontVars, renameVars, squashIt, squashTo, iewNow,
                 iewRange, sig, commitVars, trapVars, modeVars, exitVars,
                 countVars, archRestoreNext, archRestoreNow>>

IewDone ==
  /\ phase = "iew"
  /\ phase' = "walk"
  /\ iewRange' = RangeAfterSignal
  /\ sig' = NoSig
  /\ UNCHANGED <<prog, frontVars, renameVars, robVars, mem, iewNext, iewNow,
                 commitVars, trapVars, modeVars, exitVars, countVars, archVars>>

-----------------------------------------------------------------------------
(* Commit::tick up to the commit loop.                                     *)

RobWalk ==
  /\ phase = "walk"
  /\ phase' = "select"
  /\ IF status = "ROBSquashing" /\ squashIt # 0
     THEN /\ rob' = MarkSquashed(rob, WalkMarks(rob, squashIt, squashTo, SquashWidth))
          /\ squashIt' = WalkNext(rob, squashIt, squashTo, SquashWidth)
          /\ UNCHANGED status
     ELSE /\ status' = IF status = "ROBSquashing" THEN "Running" ELSE status
          /\ UNCHANGED <<rob, squashIt>>
  /\ UNCHANGED <<prog, frontVars, renameVars, squashTo, mem, iewVars, sig, pc,
                 youngestSeqNum, lastCommitedSeqNum, committed, trapVars,
                 modeVars, exitVars, countVars, archVars>>

\* Commit::squashAll
SquashAll ==
  LET to == IF rob = <<>> THEN lastCommitedSeqNum ELSE Head0.sn - 1
  IN  /\ RobSquash(to)
      /\ SignalSquash(to, pc)
      /\ youngestSeqNum' = lastCommitedSeqNum
      /\ status' = "ROBSquashing"

SquashFromTrap ==
  /\ phase = "select" /\ trapSquash
  /\ phase' = "iewsquash"
  /\ SquashAll
  /\ trapSquash' = FALSE /\ trapInFlight' = FALSE
  /\ UNCHANGED <<prog, frontVars, renameVars, mem, iewVars, pc,
                 lastCommitedSeqNum, committed, faults, trapEvent,
                 squashAfterInst, modeVars, exitVars, countVars, archVars>>

SquashAfterDone == 0

\* The squash is dropped when the instruction asking for it was runahead and
\* runahead has been left since.
SquashAfterIsStale == wasRunahead /\ ~inRunahead

SquashFromSquashAfter ==
  /\ phase = "select" /\ ~trapSquash /\ status = "SquashAfterPending"
  /\ phase' = "iewsquash"
  /\ IF SquashAfterIsStale
     THEN /\ status' = "Running"
          /\ UNCHANGED <<robVars, sig, youngestSeqNum, squashAfterInst>>
     ELSE SquashAll /\ squashAfterInst' = SquashAfterDone
  /\ UNCHANGED <<prog, frontVars, renameVars, mem, iewVars, pc,
                 lastCommitedSeqNum, committed, faults, trapInFlight,
                 trapEvent, trapSquash, modeVars, exitVars, countVars, archVars>>

\* Mutants: fetch resumes where pseudoretirement got to; the count of retired
\* instructions runs on over the period, or has the period's taken off.
ResumeAtCommitPc == pc
RetiredWithoutReset == instsBetweenRunahead
RetiredMinusPseudo == instsBetweenRunahead - instsPseudoretired

\* Commit::squashFromRunaheadExit and CPU::exitRunahead: everything from the
\* load on is squashed and fetch resumes at the load; the registers follow a
\* cycle later.
ResumePc == storedPc
RetiredSinceExit == 0

SquashFromRunaheadExit ==
  LET to == exitCause.sn - 1
  IN  /\ phase = "select"
      /\ ~trapSquash /\ status # "SquashAfterPending" /\ exitRunahead
      /\ phase' = "iewsquash"
      /\ exitRunahead' = FALSE /\ exitable' = FALSE
      /\ RobSquash(to)
      /\ SignalSquash(to, ResumePc)
      /\ youngestSeqNum' = to
      /\ status' = "ROBSquashing"
      /\ archRestoreNext' = TRUE
      /\ pc' = ResumePc
      /\ trapInFlight' = FALSE
      /\ inRunahead' = FALSE
      /\ instsBetweenRunahead' = RetiredSinceExit
      /\ UNCHANGED <<prog, frontVars, renameVars, mem, iewVars,
                     lastCommitedSeqNum, committed, faults, trapEvent,
                     trapSquash, squashAfterInst, runaheadCause, storedPc,
                     wasRunahead, exitCause, exitSeqNum, deadlines,
                     instsPseudoretired, trackedRobInsts, archRestoreNow, regs>>

SelectNothing ==
  /\ phase = "select"
  /\ ~trapSquash /\ status # "SquashAfterPending" /\ ~exitRunahead
  /\ phase' = "iewsquash"
  /\ UNCHANGED <<prog, frontVars, renameVars, robVars, mem, iewVars, sig,
                 commitVars, trapVars, modeVars, exitVars, countVars, archVars>>

\* Mutant: squashes are not compared with those commit knows of.
AnyIewSquashCounts == iewNow.squash /\ status # "TrapPending"

\* A squash IEW asked for a cycle ago counts only if it is older than every
\* squash commit knows of and no trap is pending.
IewSquashCounts ==
  iewNow.squash /\ status # "TrapPending" /\ iewNow.sn <= youngestSeqNum

AcceptIewSquash ==
  LET to == IF iewNow.include THEN iewNow.sn - 1 ELSE iewNow.sn
  IN  /\ phase = "iewsquash" /\ IewSquashCounts
      /\ phase' = "get"
      /\ RobSquash(to)
      /\ SignalSquash(to, iewNow.pc)
      /\ youngestSeqNum' = to
      /\ status' = "ROBSquashing"
      /\ UNCHANGED <<prog, frontVars, renameVars, mem, iewVars, pc,
                     lastCommitedSeqNum, committed, trapVars, modeVars,
                     exitVars, countVars, archVars>>

IgnoreIewSquash ==
  /\ phase = "iewsquash" /\ ~IewSquashCounts
  /\ phase' = "get"
  /\ UNCHANGED <<prog, frontVars, renameVars, robVars, mem, iewVars, sig,
                 commitVars, trapVars, modeVars, exitVars, countVars, archVars>>

\* Commit::getInsts; neither it nor the commit loop runs while squashing.
GetInsts ==
  /\ phase = "get"
  /\ IF status = "ROBSquashing"
     THEN phase' = "update" /\ UNCHANGED <<rob, youngestSeqNum>>
     ELSE /\ phase' = "insts"
          /\ IF status # "TrapPending" /\ renameNow # <<>>
             THEN /\ rob' = rob \o renameNow
                  /\ youngestSeqNum' = renameNow[Len(renameNow)].sn
             ELSE UNCHANGED <<rob, youngestSeqNum>>
  /\ committed' = 0
  /\ renameNow' = <<>>
  /\ UNCHANGED <<prog, frontVars, renameNext, squashIt, squashTo, mem, iewVars,
                 sig, status, pc, lastCommitedSeqNum, trapVars, modeVars,
                 exitVars, countVars, archVars>>

-----------------------------------------------------------------------------
(* Commit::commitInsts, one action per way through its loop body.          *)

AtHead == phase = "insts" /\ status = "Running" /\ committed < CommitWidth /\ rob # <<>>

RetireSquashed ==
  /\ AtHead /\ Head0.squashed
  /\ rob' = Tail(rob)
  /\ UNCHANGED <<phase, prog, frontVars, renameVars, squashIt, squashTo, mem,
                 iewVars, sig, commitVars, trapVars, modeVars, exitVars,
                 countVars, archVars>>

ReadyHead == AtHead /\ IsReady(Head0) /\ ~Head0.squashed

\* Commit::commitHead of an instruction without a fault: it commits, or
\* pseudoretires if it is runahead.
CommitHead ==
  /\ ReadyHead /\ ~Head0.fault
  /\ rob' = Tail(rob)
  /\ pc' = Advance(Head0)
  /\ committed' = committed + 1
  /\ lastCommitedSeqNum' = Head0.sn
  /\ IF Head0.kind = "serialize"
     THEN status' = "SquashAfterPending" /\ squashAfterInst' = Head0.sn
     ELSE UNCHANGED <<status, squashAfterInst>>
  /\ instsBetweenRunahead' = instsBetweenRunahead + (IF inRunahead THEN 0 ELSE 1)
  /\ instsPseudoretired' = instsPseudoretired + (IF Head0.runahead THEN 1 ELSE 0)
  /\ UNCHANGED <<phase, prog, frontVars, renameVars, squashIt, squashTo, mem,
                 iewVars, sig, youngestSeqNum, faults, trapInFlight, trapEvent,
                 trapSquash, modeVars, exitVars, trackedRobInsts, archVars>>

FaultExitCause == runaheadCause

IgnoresFault(i) == i.runahead

\* A faulting instruction must be the first of its cycle; the trap executes
\* at once (here: the fault is gone when its instruction runs again) and the
\* squash follows with the event of generateTrapEvent.
TrapHead ==
  /\ ReadyHead /\ Head0.fault /\ ~IgnoresFault(Head0) /\ committed = 0
  /\ phase' = "update"
  /\ pc' = Head0.pos
  /\ faults' = faults \ {Head0.pos}
  /\ status' = "TrapPending"
  /\ trapInFlight' = TRUE
  /\ trapEvent' = IF inRunahead THEN "runahead" ELSE "normal"
  /\ UNCHANGED <<prog, frontVars, renameVars, robVars, mem, iewVars, sig,
                 youngestSeqNum, lastCommitedSeqNum, committed, trapSquash,
                 squashAfterInst, modeVars, exitVars, countVars, archVars>>

\* A runahead instruction's fault is ignored: it stays at the head, poisoned.
\* A page fault carrier from fetch ends the period.
IgnoreRunaheadFault ==
  /\ ReadyHead /\ Head0.fault /\ IgnoresFault(Head0)
  /\ phase' = "update"
  /\ pc' = Head0.pos
  /\ rob' = [rob EXCEPT ![1].poisoned = TRUE]
  /\ IF Head0.kind = "pagefault"
     THEN exitCause' = FaultExitCause /\ exitRunahead' = TRUE
     ELSE UNCHANGED <<exitCause, exitRunahead>>
  /\ UNCHANGED <<prog, frontVars, renameVars, squashIt, squashTo, mem, iewVars,
                 sig, status, youngestSeqNum, lastCommitedSeqNum, committed,
                 trapVars, modeVars, exitable, exitSeqNum, deadlines,
                 countVars, archVars>>

\* CPU::canEnterRunahead
InFlightOk == Head0.state # "old"
StallOk == EagerEntry[prog] \/ Len(rob) = RobSize
OverlapOk == AllowOverlap \/ instsBetweenRunahead >= instsPseudoretired
CanEnterRunahead == StallOk /\ InFlightOk /\ OverlapOk

LLLAtHead == AtHead /\ ~IsReady(Head0) /\ IsLLL(Head0)

SetRunahead(insts) == [k \in DOMAIN insts |-> [insts[k] EXCEPT !.runahead = TRUE]]

\* CPU::enterRunahead: every instruction in the window becomes runahead and
\* the load is poisoned (handleRunaheadLLL) with a forged response on its way.
EnterRunahead ==
  /\ LLLAtHead /\ ~inRunahead /\ CanEnterRunahead
  /\ phase' = "update"
  /\ inRunahead' = TRUE
  /\ runaheadCause' = [sn |-> Head0.sn, pos |-> Head0.pos]
  /\ storedPc' = pc
  /\ rob' = [SetRunahead(rob) EXCEPT ![1].poisoned = TRUE]
  /\ fetchQueue' = SetRunahead(fetchQueue)
  /\ renameNext' = SetRunahead(renameNext)
  /\ instsPseudoretired' = 0
  /\ trackedRobInsts' = Len(rob)
  /\ UNCHANGED <<prog, fetchPc, nextSn, renameNow, squashIt, squashTo, mem,
                 iewVars, sig, commitVars, trapVars, wasRunahead, exitVars,
                 instsBetweenRunahead, archVars>>

\* A further LLL at the head during runahead is poisoned so that it drains.
PoisonRunaheadLLL ==
  /\ LLLAtHead /\ inRunahead /\ ~Head0.poisoned
  /\ phase' = "update"
  /\ rob' = [rob EXCEPT ![1].poisoned = TRUE]
  /\ UNCHANGED <<prog, frontVars, renameVars, squashIt, squashTo, mem, iewVars,
                 sig, commitVars, trapVars, modeVars, exitVars, countVars,
                 archVars>>

\* The loop ends: bandwidth used up, nothing to commit, or a head that waits
\* (a fault for the stores before it to be written back).
StopCommit ==
  /\ phase = "insts"
  /\ \/ ~AtHead
     \/ ReadyHead /\ Head0.fault /\ ~IgnoresFault(Head0)
     \/ AtHead /\ ~IsReady(Head0) /\ ~IsLLL(Head0)
     \/ LLLAtHead /\ ~inRunahead /\ ~CanEnterRunahead
     \/ LLLAtHead /\ inRunahead /\ Head0.poisoned
  /\ phase' = "update"
  /\ UNCHANGED <<prog, frontVars, renameVars, robVars, mem, iewVars, sig,
                 commitVars, trapVars, modeVars, exitVars, countVars, archVars>>

-----------------------------------------------------------------------------
(* The end of Commit::tick and the advance of the time buffers.            *)

MinimumWorkDone == Policy[prog] = "MinimumWork" /\ instsPseudoretired >= MinWork

\* The load NLLB waits for has executed or is gone.
LastLoadDone ==
  /\ Policy[prog] = "NLLB" /\ exitSeqNum # 0
  /\ InRob(rob, exitSeqNum) => IsExecuted(InstOf(rob, exitSeqNum))

\* Commit::markCompletedInsts
MarkCompleted ==
  [k \in DOMAIN rob |->
     IF rob[k].sn \in iewNow.insts /\ ~rob[k].squashed
     THEN [rob[k] EXCEPT !.state = "done"] ELSE rob[k]]

\* Mutant: the wire of the last cycle is not cleared.
RestoreWireSticks == archRestoreNext \/ archRestoreNow

\* The time buffer: commit reads what it wrote a cycle ago.
RestoreWire == archRestoreNext

UpdateRunaheadState ==
  /\ phase = "update"
  /\ phase' = "events"
  /\ rob' = MarkCompleted
  /\ wasRunahead' = inRunahead
  /\ exitRunahead' = (exitRunahead \/ (exitable /\ (MinimumWorkDone \/ LastLoadDone)))
  \* CPU::restoreCheckpointState
  /\ regs' = IF archRestoreNow THEN "arch" ELSE regs
  /\ archRestoreNow' = RestoreWire /\ archRestoreNext' = FALSE
  /\ renameNow' = renameNext /\ renameNext' = <<>>
  /\ iewNow' = iewNext /\ iewNext' = NoIewMsg
  /\ UNCHANGED <<prog, frontVars, squashIt, squashTo, mem, iewRange, sig,
                 commitVars, trapVars, inRunahead, runaheadCause, storedPc,
                 exitable, exitCause, exitSeqNum, deadlines, countVars>>

-----------------------------------------------------------------------------
Event ==
  \/ \E sn \in mem : LLLReturn(sn)
  \/ \E sn \in mem : MemResponse(sn)
  \/ \E k \in DOMAIN rob : ForgedResponse(k)
  \/ InFlightTooLong
  \/ \E sn \in deadlines : DeadlineEvent(sn)
  \/ ProcessTrapEvent

Tick ==
  \/ StartTick
  \/ FrontEndSquash
  \/ FrontEndAdvance
  \/ FrontEndDiscard
  \/ IewExecute
  \/ IewDone
  \/ RobWalk
  \/ SquashFromTrap
  \/ SquashFromSquashAfter
  \/ SquashFromRunaheadExit
  \/ SelectNothing
  \/ AcceptIewSquash
  \/ IgnoreIewSquash
  \/ GetInsts
  \/ RetireSquashed
  \/ CommitHead
  \/ TrapHead
  \/ IgnoreRunaheadFault
  \/ EnterRunahead
  \/ PoisonRunaheadLLL
  \/ StopCommit
  \/ UpdateRunaheadState

Next == Event \/ Tick

Spec == Init /\ [][Next]_vars

\* Cycles go on (CPU::tick, woken by the events below), memory answers, and
\* what is scheduled on the event queue happens; events are enabled between
\* cycles only, hence the strong fairness.
CycleFairness ==
  /\ WF_vars(Next)
  /\ SF_vars(\E sn \in mem : LLLReturn(sn))
  /\ SF_vars(\E sn \in mem : MemResponse(sn))
  /\ SF_vars(\E sn \in deadlines : DeadlineEvent(sn))
  /\ SF_vars(ProcessTrapEvent)

FairSpec == Spec /\ CycleFairness

-----------------------------------------------------------------------------
(* Properties.                                                             *)

\* The type invariant; counters that the code keeps unsigned never underflow.
FrontType == fetchPc \in Nat /\ nextSn \in Nat \ {0} /\ fetchQueue \in Seq(Inst)
RenameType == renameNext \in Seq(Inst) /\ renameNow \in Seq(Inst)
RobType == rob \in Seq(Inst) /\ squashIt \in Nat /\ squashTo \in Int
IewType == /\ iewNext \in IewMsg /\ iewNow \in IewMsg
           /\ iewRange \in [lo : Int, hi : Int]
SigType == sig \in [squash : BOOLEAN, done : Int, tail : Int, pc : Nat]
CommitType ==
  /\ status \in {"Running", "ROBSquashing", "TrapPending", "SquashAfterPending"}
  /\ pc \in Nat /\ committed \in Nat
  /\ youngestSeqNum \in Int /\ lastCommitedSeqNum \in Nat
TrapType ==
  /\ faults \in SUBSET Nat
  /\ trapInFlight \in BOOLEAN /\ trapSquash \in BOOLEAN
  /\ trapEvent \in {"none", "normal", "runahead"}
  /\ squashAfterInst \in Nat
ModeType ==
  /\ inRunahead \in BOOLEAN /\ wasRunahead \in BOOLEAN
  /\ runaheadCause \in Cause /\ storedPc \in Nat
ExitType ==
  /\ exitRunahead \in BOOLEAN /\ exitable \in BOOLEAN
  /\ exitCause \in Cause /\ exitSeqNum \in Nat /\ deadlines \in SUBSET Nat
CountType ==
  /\ instsBetweenRunahead \in Nat /\ instsPseudoretired \in Nat
  /\ trackedRobInsts \in Nat
ArchType ==
  /\ archRestoreNext \in BOOLEAN /\ archRestoreNow \in BOOLEAN
  /\ regs \in {"arch", "runahead"}

TypeOK ==
  /\ phase \in {"events", "fetch", "iew", "walk", "select", "iewsquash", "get",
                "insts", "update"}
  /\ prog \in Seq(Kinds)
  /\ FrontType /\ RenameType /\ RobType /\ mem \in SUBSET Nat
  /\ IewType /\ SigType /\ CommitType /\ TrapType
  /\ ModeType /\ ExitType /\ CountType /\ ArchType

\* What the commit loop sees: as long as it may commit, no instruction of the
\* other mode is left in the ROB unmarked.  A stale runahead instruction would
\* be pseudoretired in normal mode (commit.cc:1721-1733), an unmarked normal one
\* would write the architectural state from runahead.
ModeAgreement ==
  phase = "insts" /\ status = "Running" =>
    \A k \in DOMAIN rob : ~rob[k].squashed => rob[k].runahead = inRunahead

\* A squash from IEW, a cycle old, redirects fetch only on behalf of an
\* instruction that is still live and of the current mode (commit.cc:1109-1115).
RedirectFromLive ==
  phase = "iewsquash" /\ IewSquashCounts =>
    \E k \in DOMAIN rob : /\ rob[k].sn = iewNow.sn /\ ~rob[k].squashed
                          /\ rob[k].runahead = inRunahead

\* When the ROB has finished its walk, every instruction that any of the
\* squashes since then covered is marked, though a later squash restarts the
\* walk with its own end (rob.cc:702-728).
SquashComplete ==
  status = "ROBSquashing" /\ squashIt = 0 =>
    \A k \in DOMAIN rob : rob[k].sn > youngestSeqNum => rob[k].squashed

RestorePending == archRestoreNext \/ archRestoreNow

\* The checkpoint is restored, a cycle after the exit, before anything of the
\* resumed program is renamed: a restore resets the rename maps and the free
\* list under whatever holds registers then (cpu.cc:1821-1858).
RestoreFirst ==
  RestorePending =>
    /\ ~inRunahead
    /\ \A k \in DOMAIN rob : rob[k].runahead
    /\ \A k \in DOMAIN renameNext : renameNext[k].runahead
    /\ \A k \in DOMAIN renameNow : renameNow[k].runahead

\* Values computed in runahead are in the register file only in runahead and
\* until the restore that is on its way; a late response to a runahead load
\* writes nothing after it (lsq_unit.cc:1331-1339).
RegsRestored == regs = "runahead" => inRunahead \/ RestorePending

\* ROB::archRestoreSanityCheck, the assertion made at a restore.
ArchRestoreSane ==
  phase = "update" /\ archRestoreNow => squashIt # 0 \/ AllSquashed(rob)

\* What squashes of several sources, cycles apart, must not do to one another:
\* a redirect by the dead, an end of the walk before all are marked, a restore
\* while some are neither marked nor about to be.
SquashSound == RedirectFromLive /\ SquashComplete /\ ArchRestoreSane

\* Under the Eager policy runahead ends for one of two reasons: the load that
\* caused this period has its data, or a fetch page fault is at the ROB head.
ExitJustified ==
  exitRunahead => /\ inRunahead
                  /\ \/ runaheadCause.sn \notin mem
                     \/ Head0.kind = "pagefault" /\ Head0.fault

\* commit.hh:430, of runaheadCause: "The cause of the runahead period that is
\* about to be exited"; the exit squash starts at it.
ExitCauseOfPeriod == exitRunahead => exitCause = runaheadCause

\* Under the Eager policy, which arms no deadline, an exit is for a reason and
\* from the load of its own period.
ExitSound == Policy[prog] = "Eager" => ExitJustified /\ ExitCauseOfPeriod

\* Traps and runahead never meet: nothing of a trap is pending in runahead, so
\* an exit (which resets trapInFlight) drops none and no trap squash hits
\* a period it does not belong to.
NoTrapInRunahead ==
  inRunahead =>
    /\ status # "TrapPending"
    /\ ~trapInFlight /\ trapEvent = "none" /\ ~trapSquash

\* Commit waits in TrapPending only while the squash that ends it is coming.
TrapWillSquash == status = "TrapPending" => trapEvent # "none" \/ trapSquash

\* Commit::squashAfter's assertion: no earlier squash-after is outstanding when
\* an instruction asks for one, whatever squash took precedence in between.
SquashAfterPaired == squashAfterInst # 0 => status = "SquashAfterPending"

\* NLLB waits for a load of this period that is younger than its cause, never
\* for one of a period before.
NextLoadOfPeriod ==
  Policy[prog] = "NLLB" /\ exitable /\ ~exitRunahead => exitSeqNum > runaheadCause.sn

\* CPU::canEnterRunahead: without overlapping periods, the load that starts one
\* lies beyond what the last one has run ahead of.
NoOverlap ==
  [][inRunahead' /\ ~inRunahead /\ ~AllowOverlap =>
       runaheadCause'.pos >= runaheadCause.pos + instsPseudoretired]_vars

\* Runahead is invisible to software: with the PC saved at entry standing for
\* the PC while in runahead, the CPU runs the program in order and takes each
\* fault once.
Machine == INSTANCE InOrderMachine WITH
             pc <- IF inRunahead THEN storedPc ELSE pc

ArchitecturallyInOrder == Machine!Spec

\* Every runahead period ends.
ExitEventually == inRunahead ~> ~inRunahead

\* Commit never hangs: a trap that is pending is squashed for, a squash-after is
\* carried out and every ROB walk ends, whatever restarts it.
CommitResumes == status # "Running" ~> status = "Running"

\* Neither a period nor a squash is for ever.
Progress == ExitEventually /\ CommitResumes
=============================================================================
