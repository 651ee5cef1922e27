----------------------------- MODULE RegRestore -----------------------------
(***************************************************************************)
(* The registers of the runahead CPU: rename maps, free list and history   *)
(* buffer (rename.cc, rename_map.cc, free_list.cc), scoreboards, values and*)
(* poison (regfile.cc, iew.cc, inst_queue.cc), the checkpoint and its      *)
(* restore (arch_checkpoint.cc, cpu.cc).  When runahead ends is decided    *)
(* elsewhere (RunaheadCore); here any cycle in runahead may be its last.   *)
(*                                                                         *)
(* One cycle runs through the phases                                       *)
(*   events -> rename -> free -> dispatch -> execute -> writeback -> issue *)
(*          -> walk -> select -> insts -> update -> events                 *)
(*                                                                         *)
(* A value names the place in the program of the instruction that computed *)
(* it, 0 for the initial state; an instruction that reads anything but what*)
(* in-order execution would give it computes Bogus.                        *)
(***************************************************************************)
EXTENDS Integers, Sequences, Functions

CONSTANTS
  NumArch,       \* architectural registers
  NumPhys,       \* physical registers
  RobSize, SquashWidth, RenameWidth,
  FrontDelay,    \* cycles from fetch to rename
  WbBacklog,     \* how many cycles write-back may lag behind execution
  Programs,
  MaxSn          \* bound of the model: sequence numbers handed out

Arch == 1..NumArch
Phys == 1..NumPhys
None == 0
Bogus == -1

OpKinds == {"alu", "branch", "load", "misc"}
Op == [kind : OpKinds, dst : Arch \cup {None}, src : Arch \cup {None}]

ASSUME RegAssumption == NumArch \in Nat \ {0} /\ NumPhys \in Nat /\ NumPhys > NumArch
ASSUME WidthAssumption ==
  /\ RobSize \in Nat \ {0} /\ SquashWidth \in Nat \ {0} /\ RenameWidth \in Nat \ {0}
  /\ FrontDelay \in Nat /\ WbBacklog \in Nat /\ MaxSn \in Nat
ASSUME OpsAssumption == Programs \subseteq Seq(Op)

VARIABLES
  phase, prog,
  \* fetch and rename
  fetchPos, nextSn, refill, renameNext, renameNow,
  renameMap, freeList, history,
  \* readiness: rename's scoreboard and the instruction queue's own
  ready, iqReady,
  value, poison,        \* the register file
  rob, squashIt, squashTo,
  iewRange, pending,    \* IEW: last squash; instructions on the way to commit
  sig, status, pc,
  commitMap, misc,      \* architectural state: commit's map, misc registers
  inRunahead, cause, storedPc, checkpoint, miscCheckpoint,
  restoreNext, restoreNow

frontVars  == <<fetchPos, nextSn, refill>>
queueVars  == <<renameNext, renameNow>>
mapVars    == <<renameMap, freeList, history>>
readyVars  == <<ready, iqReady>>
regVars    == <<value, poison>>
robVars    == <<rob, squashIt, squashTo>>
iewVars    == <<iewRange, pending>>
commitVars == <<status, pc, commitMap, misc>>
modeVars   == <<inRunahead, cause, storedPc>>
saveVars   == <<checkpoint, miscCheckpoint>>
wireVars   == <<restoreNext, restoreNow>>

vars == <<phase, prog, frontVars, queueVars, mapVars, readyVars, regVars,
          robVars, iewVars, sig, commitVars, modeVars, saveVars, wireVars>>

Rob == INSTANCE RobOps

States == {"waiting", "issued", "sent", "executed", "written", "done"}

\* src and dst are physical registers; result is what a load will return.
RegInst ==
  [sn : Nat, pos : Nat, dst : Phys \cup {None}, src : Phys \cup {None},
   srcReady : BOOLEAN, state : States, result : Nat \cup {Bogus},
   runahead : BOOLEAN, poisoned : BOOLEAN, squashed : BOOLEAN]

HistoryEntry == [sn : Nat, arch : Arch, new : Phys, prev : Phys]

NoSig == [squash |-> FALSE, done |-> 0, tail |-> 0, pos |-> 0]

OpOf(i) == prog[i.pos]
Head0 == rob[1]

\* The instruction whose result register r holds before position p, in order.
LastWriter(p, r) ==
  LET W == {q \in 1..(p - 1) : prog[q].dst = r}
  IN  IF \E q \in W : \A x \in W : x <= q
      THEN CHOOSE q \in W : \A x \in W : x <= q
      ELSE 0

InOrderSource(i) == LastWriter(i.pos, OpOf(i).src)

\* StaticInst::execute
Computed(i) ==
  IF i.src = None \/ value[i.src] = InOrderSource(i) THEN i.pos ELSE Bogus

WriteReg(p, v) ==
  value' = IF p = None THEN value ELSE [value EXCEPT ![p] = v]

\* UnifiedFreeList::reset followed by a getReg for every architectural register.
IdentityMap == [r \in Arch |-> r]

\* Mutant: off by one.
FreeListOffByOne == [k \in 1..(NumPhys - NumArch) |-> NumArch + k + 1]

InitialFreeList == [k \in 1..(NumPhys - NumArch) |-> NumArch + k]

-----------------------------------------------------------------------------
Init ==
  /\ phase = "events" /\ prog \in Programs
  /\ fetchPos = 1 /\ nextSn = 1 /\ refill = 0
  /\ renameNext = <<>> /\ renameNow = <<>>
  /\ renameMap = IdentityMap /\ freeList = InitialFreeList /\ history = <<>>
  /\ ready = Phys /\ iqReady = Phys
  /\ value = [p \in Phys |-> 0] /\ poison = {}
  /\ rob = <<>> /\ squashIt = 0 /\ squashTo = 0
  /\ iewRange = [lo |-> 0, hi |-> 0] /\ pending = {}
  /\ sig = NoSig /\ status = "Running" /\ pc = 1
  /\ commitMap = IdentityMap /\ misc = 0
  /\ inRunahead = FALSE /\ cause = 0 /\ storedPc = 0
  /\ checkpoint = [r \in Arch |-> 0] /\ miscCheckpoint = 0
  /\ restoreNext = FALSE /\ restoreNow = FALSE

-----------------------------------------------------------------------------
(* Completion: IEW::instToCommit finds the first cycle with a write port    *)
(* left; the model leaves open how far away that is.                        *)

InstToCommit(sn) ==
  \E wait \in 0..WbBacklog : pending' = pending \cup {[sn |-> sn, wait |-> wait]}

\* A response of the memory to a load, or the response forged for a load that
\* was poisoned at the ROB head; LSQUnit::writeback ignores squashed and stale
\* runahead instructions.
Stale(i) == i.runahead /\ ~inRunahead

LoadReturns(k) ==
  /\ phase = "events"
  /\ rob[k].state = "sent" /\ ~rob[k].squashed /\ ~Stale(rob[k])
  /\ WriteReg(rob[k].dst, IF rob[k].poisoned THEN Bogus ELSE rob[k].result)
  /\ InstToCommit(rob[k].sn)
  /\ rob' = [rob EXCEPT ![k].state = "executed"]
  /\ UNCHANGED <<phase, prog, frontVars, queueVars, mapVars, readyVars, poison,
                 squashIt, squashTo, iewRange, sig, commitVars, modeVars,
                 saveVars, wireVars>>

StartTick ==
  /\ phase = "events"
  /\ phase' = "rename"
  /\ UNCHANGED <<prog, frontVars, queueVars, mapVars, readyVars, regVars,
                 robVars, iewVars, sig, commitVars, modeVars, saveVars, wireVars>>

-----------------------------------------------------------------------------
(* Rename::tick.                                                            *)

\* Rename::doSquash, one entry at a time, youngest first.
MustUndo == sig.squash /\ history # <<>> /\ history[1].sn > sig.done

UndoRename ==
  LET h == history[1]
  IN  /\ phase = "rename" /\ MustUndo
      /\ renameMap' = [renameMap EXCEPT ![h.arch] = h.prev]
      /\ freeList' = Append(freeList, h.new)
      /\ history' = Tail(history)
      /\ UNCHANGED <<phase, prog, frontVars, queueVars, readyVars, regVars,
                     robVars, iewVars, sig, commitVars, modeVars, saveVars,
                     wireVars>>

\* The squash also empties the stages before rename, which take FrontDelay
\* cycles to fill again.
SquashRename ==
  /\ phase = "rename" /\ sig.squash /\ ~MustUndo
  /\ phase' = "dispatch"
  /\ fetchPos' = sig.pos /\ refill' = FrontDelay
  /\ UNCHANGED <<prog, nextSn, queueVars, mapVars, readyVars, regVars, robVars,
                 iewVars, sig, commitVars, modeVars, saveVars, wireVars>>

InFlightCount == Len(rob) + Len(renameNow) + Len(renameNext)

\* Rename::renameInsts for one instruction: UnifiedRenameMap::canRename, then
\* renameSrcRegs before renameDestRegs.  While the ROB squashes, IEW blocks
\* rename (IEW::checkStall).
CanRename(op) == op.dst = None \/ freeList # <<>>

Renamed(op, dst) ==
  LET src == IF op.src = None THEN None ELSE renameMap[op.src]
  IN  [sn |-> nextSn, pos |-> fetchPos, dst |-> dst, src |-> src,
       srcReady |-> src = None \/ src \in ready, state |-> "waiting",
       result |-> 0, runahead |-> inRunahead, poisoned |-> FALSE,
       squashed |-> FALSE]

\* Mutant: the new register is read from the map before it has changed.
RecordBeforeMap(arch) ==
  /\ renameMap' = [renameMap EXCEPT ![arch] = Head(freeList)]
  /\ freeList' = Tail(freeList)
  /\ history' = <<[sn |-> nextSn, arch |-> arch, new |-> renameMap[arch],
                   prev |-> renameMap[arch]]>> \o history
  /\ ready' = ready \ {Head(freeList)}

\* SimpleRenameMap::rename
RenameDest(arch) ==
  /\ renameMap' = [renameMap EXCEPT ![arch] = Head(freeList)]
  /\ freeList' = Tail(freeList)
  /\ history' = <<[sn |-> nextSn, arch |-> arch, new |-> Head(freeList),
                   prev |-> renameMap[arch]]>> \o history
  /\ ready' = ready \ {Head(freeList)}

RenameInst ==
  /\ phase = "rename" /\ ~sig.squash /\ refill = 0 /\ status # "ROBSquashing"
  /\ Len(renameNext) < RenameWidth /\ InFlightCount < RobSize
  /\ fetchPos \in DOMAIN prog /\ nextSn <= MaxSn
  /\ CanRename(prog[fetchPos])
  /\ LET op == prog[fetchPos]
     IN  IF op.dst = None
         THEN /\ renameNext' = Append(renameNext, Renamed(op, None))
              /\ UNCHANGED <<mapVars, ready>>
         ELSE /\ renameNext' = Append(renameNext, Renamed(op, Head(freeList)))
              /\ RenameDest(op.dst)
  /\ fetchPos' = fetchPos + 1 /\ nextSn' = nextSn + 1
  /\ UNCHANGED <<phase, prog, refill, renameNow, iqReady, regVars, robVars,
                 iewVars, sig, commitVars, modeVars, saveVars, wireVars>>

RenameDone ==
  /\ phase = "rename" /\ ~sig.squash
  /\ phase' = "free"
  /\ refill' = IF refill = 0 THEN 0 ELSE refill - 1
  /\ UNCHANGED <<prog, fetchPos, nextSn, queueVars, mapVars, readyVars, regVars,
                 robVars, iewVars, sig, commitVars, modeVars, saveVars, wireVars>>

\* Mutant: one instruction too many frees.
MustFreeEarly == history # <<>> /\ history[Len(history)].sn <= sig.done + 1

\* Rename::removeFromHistory: what committed or pseudoretired in the last cycle
\* frees the register its destination had before, oldest first.
MustFree == history # <<>> /\ history[Len(history)].sn <= sig.done

\* Mutant: the register the instruction wrote is freed.
OwnRegister(h) == h.new
FreedBy(h) == h.prev

FreePrevious ==
  /\ phase = "free" /\ MustFree
  /\ freeList' = Append(freeList, FreedBy(history[Len(history)]))
  /\ history' = SubSeq(history, 1, Len(history) - 1)
  /\ UNCHANGED <<phase, prog, frontVars, queueVars, renameMap, readyVars,
                 regVars, robVars, iewVars, sig, commitVars, modeVars, saveVars,
                 wireVars>>

FreeDone ==
  /\ phase = "free" /\ ~MustFree
  /\ phase' = "dispatch"
  /\ UNCHANGED <<prog, frontVars, queueVars, mapVars, readyVars, regVars,
                 robVars, iewVars, sig, commitVars, modeVars, saveVars, wireVars>>

-----------------------------------------------------------------------------
(* IEW::tick.                                                               *)

\* InstructionQueue::doSquash takes what has not issued out of the queue and
\* LSQUnit::squash marks the loads; the rest is left to the range and the ROB.
SquashedInIew(i) ==
  IF i.sn <= sig.done THEN i
  ELSE [i EXCEPT !.squashed = @ \/ OpOf(i).kind = "load",
                 !.state = IF @ = "waiting" THEN "done" ELSE @]

SquashIew ==
  /\ phase = "dispatch" /\ sig.squash
  /\ phase' = "execute"
  /\ rob' = [k \in DOMAIN rob |-> SquashedInIew(rob[k])]
  /\ renameNow' = <<>>
  /\ iewRange' = [lo |-> sig.done, hi |-> sig.tail]
  /\ UNCHANGED <<prog, frontVars, renameNext, mapVars, readyVars, regVars,
                 squashIt, squashTo, pending, sig, commitVars, modeVars,
                 saveVars, wireVars>>

\* InstructionQueue::addToDependents, then addToProducers.
Dispatched(i) == [i EXCEPT !.srcReady = @ \/ i.src \in iqReady]

DispatchInst ==
  /\ phase = "dispatch" /\ ~sig.squash /\ renameNow # <<>>
  /\ rob' = Append(rob, Dispatched(Head(renameNow)))
  /\ iqReady' = iqReady \ {Head(renameNow).dst}
  /\ renameNow' = Tail(renameNow)
  /\ UNCHANGED <<phase, prog, frontVars, renameNext, mapVars, ready, regVars,
                 squashIt, squashTo, iewVars, sig, commitVars, modeVars,
                 saveVars, wireVars>>

DispatchDone ==
  /\ phase = "dispatch" /\ ~sig.squash /\ renameNow = <<>>
  /\ phase' = "execute"
  /\ UNCHANGED <<prog, frontVars, queueVars, mapVars, readyVars, regVars,
                 robVars, iewVars, sig, commitVars, modeVars, saveVars, wireVars>>

\* IEW::executeInsts
SquashedForIew(i) ==
  i.squashed \/ (i.sn > iewRange.lo /\ i.sn <= iewRange.hi) \/ Stale(i)

Executing(k) == phase = "execute" /\ rob[k].state = "issued"

SkipSquashed(k) ==
  /\ Executing(k) /\ SquashedForIew(rob[k])
  /\ rob' = [rob EXCEPT ![k].squashed = TRUE, ![k].state = "done"]
  /\ UNCHANGED <<pending, value>>

\* Poisoned by a source: it goes to commit without being executed.
SkipPoisoned(k) ==
  /\ Executing(k) /\ ~SquashedForIew(rob[k]) /\ rob[k].poisoned
  /\ rob' = [rob EXCEPT ![k].state = "executed"]
  /\ InstToCommit(rob[k].sn)
  /\ UNCHANGED value

ExecuteOp(k) ==
  /\ Executing(k) /\ ~SquashedForIew(rob[k]) /\ ~rob[k].poisoned
  /\ OpOf(rob[k]).kind # "load"
  /\ WriteReg(rob[k].dst, Computed(rob[k]))
  /\ rob' = [rob EXCEPT ![k].state = "executed"]
  /\ InstToCommit(rob[k].sn)

ExecuteLoad(k) ==
  /\ Executing(k) /\ ~SquashedForIew(rob[k]) /\ ~rob[k].poisoned
  /\ OpOf(rob[k]).kind = "load"
  /\ rob' = [rob EXCEPT ![k].state = "sent", ![k].result = Computed(rob[k])]
  /\ UNCHANGED <<pending, value>>

Execute ==
  /\ \E k \in DOMAIN rob :
       SkipSquashed(k) \/ SkipPoisoned(k) \/ ExecuteOp(k) \/ ExecuteLoad(k)
  /\ UNCHANGED <<phase, prog, frontVars, queueVars, mapVars, readyVars, poison,
                 squashIt, squashTo, iewRange, sig, commitVars, modeVars,
                 saveVars, wireVars>>

ExecuteDone ==
  /\ phase = "execute"
  /\ phase' = "writeback"
  /\ UNCHANGED <<prog, frontVars, queueVars, mapVars, readyVars, regVars,
                 robVars, iewVars, sig, commitVars, modeVars, saveVars, wireVars>>

\* IEW::writebackInsts: only squashed instructions are left out, whatever the
\* mode; a runahead instruction poisons or cures its destination.
Due(i) == [sn |-> i.sn, wait |-> 0] \in pending /\ ~i.squashed
WrittenBack == {k \in DOMAIN rob : Due(rob[k])}
Dsts(K) == {rob[k].dst : k \in K} \ {None}

PoisonedBy(K) == Dsts({k \in K : rob[k].runahead /\ rob[k].poisoned})
CuredBy(K) == Dsts({k \in K : rob[k].runahead /\ ~rob[k].poisoned})

\* InstructionQueue::wakeDependents
Woken(i, K) ==
  IF Due(i) THEN [i EXCEPT !.state = "written"]
  ELSE IF i.state = "waiting" /\ i.src \in Dsts(K) THEN [i EXCEPT !.srcReady = TRUE]
  ELSE i

WriteBack ==
  /\ phase = "writeback"
  /\ phase' = "issue"
  /\ rob' = [k \in DOMAIN rob |-> Woken(rob[k], WrittenBack)]
  /\ ready' = ready \cup Dsts(WrittenBack)
  /\ iqReady' = iqReady \cup Dsts(WrittenBack)
  /\ poison' = (poison \ CuredBy(WrittenBack)) \cup PoisonedBy(WrittenBack)
  /\ pending' = {[sn |-> e.sn, wait |-> e.wait - 1] : e \in {x \in pending : x.wait > 0}}
  /\ UNCHANGED <<prog, frontVars, queueVars, mapVars, value, squashIt, squashTo,
                 iewRange, sig, commitVars, modeVars, saveVars, wireVars>>

\* Mutant: the check for poisoned sources is left out.
NotPoisonedBySource(i) == i.poisoned

\* InstructionQueue::scheduleReadyInsts
PoisonedAtIssue(i) == i.poisoned \/ (i.runahead /\ i.src \in poison)

Issue ==
  /\ phase = "issue"
  /\ \E k \in DOMAIN rob :
       /\ rob[k].state = "waiting" /\ rob[k].srcReady /\ ~rob[k].squashed
       /\ rob' = [rob EXCEPT ![k].state = "issued",
                             ![k].poisoned = PoisonedAtIssue(rob[k])]
  /\ UNCHANGED <<phase, prog, frontVars, queueVars, mapVars, readyVars, regVars,
                 squashIt, squashTo, iewVars, sig, commitVars, modeVars,
                 saveVars, wireVars>>

IewDone ==
  /\ phase = "issue"
  /\ phase' = "walk"
  /\ sig' = NoSig
  /\ UNCHANGED <<prog, frontVars, queueVars, mapVars, readyVars, regVars,
                 robVars, iewVars, commitVars, modeVars, saveVars, wireVars>>

-----------------------------------------------------------------------------
(* Commit::tick.                                                            *)

RobWalk ==
  /\ phase = "walk"
  /\ phase' = "select"
  /\ IF status = "ROBSquashing" /\ squashIt # 0
     THEN /\ rob' = Rob!MarkSquashed(rob,
                      Rob!WalkMarks(rob, squashIt, squashTo, SquashWidth))
          /\ squashIt' = Rob!WalkNext(rob, squashIt, squashTo, SquashWidth)
          /\ UNCHANGED status
     ELSE status' = "Running" /\ UNCHANGED <<rob, squashIt>>
  /\ UNCHANGED <<prog, frontVars, queueVars, mapVars, readyVars, regVars,
                 squashTo, iewVars, sig, pc, commitMap, misc, modeVars,
                 saveVars, wireVars>>

\* ROB::squash and the signal to the other stages.
SquashFrom(to, pos) ==
  /\ sig' = [squash |-> TRUE, done |-> to, pos |-> pos,
             tail |-> IF rob = <<>> THEN to ELSE rob[Len(rob)].sn]
  /\ status' = "ROBSquashing"
  /\ IF rob = <<>>
     THEN UNCHANGED robVars
     ELSE /\ rob' = Rob!MarkSquashed(rob,
                      Rob!WalkMarks(rob, Len(rob), to, SquashWidth))
          /\ squashIt' = Rob!WalkNext(rob, Len(rob), to, SquashWidth)
          /\ squashTo' = to

\* A squash IEW asks for: of what follows a branch, or of a load that executed
\* before an older store, the load included.
CanRedirect(i) ==
  /\ i.state \in {"executed", "written"} /\ ~i.squashed /\ ~i.poisoned
  /\ ~Stale(i)
  /\ status = "Running" \/ i.sn <= squashTo

SquashFromIew ==
  /\ phase = "select"
  /\ phase' = "insts"
  /\ \E k \in DOMAIN rob :
       /\ CanRedirect(rob[k])
       /\ \/ OpOf(rob[k]).kind = "branch" /\ SquashFrom(rob[k].sn, rob[k].pos + 1)
          \/ OpOf(rob[k]).kind = "load" /\ SquashFrom(rob[k].sn - 1, rob[k].pos)
  /\ UNCHANGED <<prog, frontVars, queueVars, mapVars, readyVars, regVars,
                 iewVars, pc, commitMap, misc, modeVars, saveVars, wireVars>>

\* Commit::squashFromRunaheadExit and CPU::exitRunahead
SquashFromRunaheadExit ==
  /\ phase = "select" /\ inRunahead
  /\ phase' = "insts"
  /\ SquashFrom(cause - 1, storedPc)
  /\ pc' = storedPc
  /\ inRunahead' = FALSE
  /\ restoreNext' = TRUE
  /\ UNCHANGED <<prog, frontVars, queueVars, mapVars, readyVars, regVars,
                 iewVars, commitMap, misc, cause, storedPc, saveVars, restoreNow>>

SelectNothing ==
  /\ phase = "select"
  /\ phase' = "insts"
  /\ UNCHANGED <<prog, frontVars, queueVars, mapVars, readyVars, regVars,
                 robVars, iewVars, sig, commitVars, modeVars, saveVars, wireVars>>

AtHead == phase = "insts" /\ status = "Running" /\ rob # <<>>

RetireSquashed ==
  /\ AtHead /\ Head0.squashed
  /\ rob' = Tail(rob)
  /\ UNCHANGED <<phase, prog, frontVars, queueVars, mapVars, readyVars, regVars,
                 squashIt, squashTo, iewVars, sig, commitVars, modeVars,
                 saveVars, wireVars>>

UpdatesCommitMap(i) == ~i.runahead

\* Commit::commitHead: the commit map of what commits (a runahead instruction
\* only pseudoretires), and DynInst::updateMiscRegs of either.
CommitHead ==
  /\ AtHead /\ Head0.state = "done" /\ ~Head0.squashed
  /\ rob' = Tail(rob)
  /\ pc' = Head0.pos + 1
  /\ sig' = [sig EXCEPT !.done = Head0.sn]
  /\ commitMap' = IF UpdatesCommitMap(Head0) /\ Head0.dst # None
                  THEN [commitMap EXCEPT ![OpOf(Head0).dst] = Head0.dst]
                  ELSE commitMap
  /\ misc' = IF OpOf(Head0).kind = "misc" /\ ~Head0.poisoned
             THEN Head0.pos ELSE misc
  /\ UNCHANGED <<phase, prog, frontVars, queueVars, mapVars, readyVars, regVars,
                 squashIt, squashTo, iewVars, status, modeVars, saveVars,
                 wireVars>>

LoadAtHead ==
  /\ AtHead /\ OpOf(Head0).kind = "load" /\ Head0.state = "sent"
  /\ ~Head0.squashed /\ ~Head0.poisoned

SetRunahead(insts) == [k \in DOMAIN insts |-> [insts[k] EXCEPT !.runahead = TRUE]]

\* Mutant: the rename map is read.
SavedByRenameMap == [r \in Arch |-> value[renameMap[r]]]

\* ArchCheckpoint::fullSave reads through the commit map.
Saved == [r \in Arch |-> value[commitMap[r]]]

EnterRunahead ==
  /\ LoadAtHead /\ ~inRunahead
  /\ phase' = "update"
  /\ inRunahead' = TRUE /\ cause' = Head0.sn /\ storedPc' = pc
  /\ checkpoint' = Saved /\ miscCheckpoint' = misc
  /\ rob' = [SetRunahead(rob) EXCEPT ![1].poisoned = TRUE]
  /\ renameNext' = SetRunahead(renameNext)
  /\ UNCHANGED <<prog, frontVars, renameNow, mapVars, readyVars, regVars,
                 squashIt, squashTo, iewVars, sig, commitVars, wireVars>>

PoisonRunaheadLLL ==
  /\ LoadAtHead /\ inRunahead
  /\ phase' = "update"
  /\ rob' = [rob EXCEPT ![1].poisoned = TRUE]
  /\ UNCHANGED <<prog, frontVars, queueVars, mapVars, readyVars, regVars,
                 squashIt, squashTo, iewVars, sig, commitVars, modeVars,
                 saveVars, wireVars>>

StopCommit ==
  /\ phase = "insts"
  /\ phase' = "update"
  /\ UNCHANGED <<prog, frontVars, queueVars, mapVars, readyVars, regVars,
                 robVars, iewVars, sig, commitVars, modeVars, saveVars, wireVars>>

\* Mutant: poison is not cleared.
PoisonKept == poison

PoisonCleared == {}

\* CPU::restoreCheckpointState; the queue's own scoreboard and the misc
\* registers stay as they are (ArchCheckpoint::restore skips the latter).
RestoredValue == [p \in Phys |-> IF p \in Arch THEN checkpoint[p] ELSE value[p]]

RestoreCheckpointState ==
  /\ freeList' = InitialFreeList
  /\ renameMap' = IdentityMap /\ commitMap' = IdentityMap
  /\ history' = <<>>
  /\ ready' = ready \cup Arch
  /\ value' = RestoredValue
  /\ poison' = PoisonCleared

\* markCompletedInsts, updateRunaheadState and the advance of the time buffers.
EndTick ==
  /\ phase = "update"
  /\ phase' = "events"
  /\ rob' = [k \in DOMAIN rob |->
               IF rob[k].state = "written" THEN [rob[k] EXCEPT !.state = "done"]
               ELSE rob[k]]
  /\ IF restoreNow
     THEN RestoreCheckpointState
     ELSE UNCHANGED <<mapVars, commitMap, ready, regVars>>
  /\ restoreNow' = restoreNext /\ restoreNext' = FALSE
  /\ renameNow' = renameNext /\ renameNext' = <<>>
  /\ UNCHANGED <<prog, frontVars, iqReady, squashIt, squashTo, iewVars, sig,
                 status, pc, misc, modeVars, saveVars>>

-----------------------------------------------------------------------------
Next ==
  \/ \E k \in DOMAIN rob : LoadReturns(k)
  \/ StartTick
  \/ UndoRename
  \/ SquashRename
  \/ RenameInst
  \/ RenameDone
  \/ FreePrevious
  \/ FreeDone
  \/ SquashIew
  \/ DispatchInst
  \/ DispatchDone
  \/ Execute
  \/ ExecuteDone
  \/ WriteBack
  \/ Issue
  \/ IewDone
  \/ RobWalk
  \/ SquashFromIew
  \/ SquashFromRunaheadExit
  \/ SelectNothing
  \/ RetireSquashed
  \/ CommitHead
  \/ EnterRunahead
  \/ PoisonRunaheadLLL
  \/ StopCommit
  \/ EndTick

Spec == Init /\ [][Next]_vars

-----------------------------------------------------------------------------
(* Properties.                                                              *)

RestorePending == restoreNext \/ restoreNow

TypeOK ==
  /\ phase \in {"events", "rename", "free", "dispatch", "execute", "writeback",
                "issue", "walk", "select", "insts", "update"}
  /\ prog \in Seq(Op)
  /\ fetchPos \in Nat /\ nextSn \in Nat \ {0} /\ refill \in Nat
  /\ renameNext \in Seq(RegInst) /\ renameNow \in Seq(RegInst)
  /\ renameMap \in [Arch -> Phys] /\ freeList \in Seq(Phys)
  /\ history \in Seq(HistoryEntry)
  /\ ready \in SUBSET Phys /\ iqReady \in SUBSET Phys
  /\ value \in [Phys -> Nat \cup {Bogus}] /\ poison \in SUBSET Phys
  /\ rob \in Seq(RegInst) /\ squashIt \in Nat /\ squashTo \in Int
  /\ iewRange \in [lo : Int, hi : Int]
  /\ pending \in SUBSET [sn : Nat, wait : Nat]
  /\ sig \in [squash : BOOLEAN, done : Int, tail : Int, pos : Nat]
  /\ status \in {"Running", "ROBSquashing"} /\ pc \in Nat
  /\ commitMap \in [Arch -> Phys] /\ misc \in Nat
  /\ inRunahead \in BOOLEAN /\ cause \in Nat /\ storedPc \in Nat
  /\ checkpoint \in [Arch -> Nat \cup {Bogus}] /\ miscCheckpoint \in Nat
  /\ restoreNext \in BOOLEAN /\ restoreNow \in BOOLEAN

PrevRegs == {history[k].prev : k \in DOMAIN history}

\* No physical register is in two places or lost: each is on the free list,
\* mapped, or held for an undo, exactly once (rename.cc:919-1015), also over a
\* restore that resets the lists under whatever is in flight (cpu.cc:1831-1858).
RegsConserved ==
  /\ \A j, k \in DOMAIN freeList : freeList[j] = freeList[k] => j = k
  /\ \A q, r \in Arch : renameMap[q] = renameMap[r] => q = r
  /\ \A j, k \in DOMAIN history : history[j].prev = history[k].prev => j = k
  /\ Range(freeList) \cap Range(renameMap) = {}
  /\ Range(freeList) \cap PrevRegs = {}
  /\ Range(renameMap) \cap PrevRegs = {}
  /\ Range(freeList) \cup Range(renameMap) \cup PrevRegs = Phys

\* What an undo relies on: the newest entry of an architectural register holds
\* what the rename map has, and an older one what the next newer one replaced
\* (rename.cc:941-963, 1113-1132).
HistoryChain ==
  \A k \in DOMAIN history :
    LET newer == {j \in 1..(k - 1) : history[j].arch = history[k].arch}
    IN  /\ newer = {} => renameMap[history[k].arch] = history[k].new
        /\ \A j \in newer :
             (\A i \in newer : i <= j) => history[j].prev = history[k].new

\* A register that holds architectural state is not handed out.  In runahead
\* the commit map is left behind by pseudoretirement and this is given up; only
\* the checkpoint still has the values (commit.cc:1721-1725).
CommittedNotFree ==
  ~inRunahead /\ ~RestorePending => Range(commitMap) \cap Range(freeList) = {}

\* An instruction that may issue, or has issued and not yet read its source,
\* reads what in-order execution gives it or is known to be poisoned: no
\* scoreboard says ready too early, no register is freed or restored under a
\* reader, no poison is lost (iew.cc:1510-1533, inst_queue.cc:798-811).
SourcesTrue ==
  \A k \in DOMAIN rob :
    LET i == rob[k]
    IN  /\ i.state \in {"waiting", "issued"} /\ i.srcReady /\ i.src # None
        /\ ~i.squashed /\ ~Stale(i) /\ ~SquashedForIew(i)
        => \/ value[i.src] = InOrderSource(i)
           \/ i.poisoned
           \/ i.runahead /\ i.state = "waiting" /\ i.src \in poison

\* commit.cc:1727-1732, an assertion: what a poisoned instruction pseudoretires
\* with are poisoned registers.
PoisonedRetirePoisoned ==
  AtHead /\ Head0.state = "done" /\ Head0.poisoned /\ ~Head0.squashed =>
    Head0.runahead /\ (Head0.dst = None \/ Head0.dst \in poison)

\* inst_queue.cc:1420-1429, a panic: an instruction enters the queue only when
\* nothing waits for the former contents of the register it produces.
OneProducer ==
  phase = "dispatch" /\ ~sig.squash /\ renameNow # <<>> /\ Head(renameNow).dst # None =>
    \A k \in DOMAIN rob :
      rob[k].state = "waiting" /\ ~rob[k].srcReady =>
        rob[k].src # Head(renameNow).dst

\* cpu.cc:1840: "The history buffer should be empty already, but better safe
\* than sorry!"
HistoryEmptyAtRestore == phase = "update" /\ restoreNow => history = <<>>

\* A register is not handed out while something still leads to it: the commit
\* map, a reader that waits, or an undo.
RegsHeld == CommittedNotFree /\ OneProducer /\ HistoryEmptyAtRestore

\* With write-back at most one cycle behind, poison does not outlive the restore
\* (cpu.cc:1861): the next period starts with sound registers.  Later stale
\* write-backs do poison after it (iew.cc:1499-1520).
NoPoisonInNormal ==
  WbBacklog <= 1 /\ ~inRunahead /\ ~RestorePending => poison = {}

\* Poison is there as long as an invalid value is, and not longer.
PoisonSound == PoisonedRetirePoisoned /\ NoPoisonInNormal

\* With the checkpoint standing for the registers in runahead and until the
\* restore, what the commit map leads to are the registers of an in-order
\* machine.
Registers == INSTANCE ArchRegisters WITH
  pos <- IF inRunahead THEN storedPc ELSE pc,
  file <- IF inRunahead \/ RestorePending THEN checkpoint
          ELSE [r \in Arch |-> value[commitMap[r]]]

RegistersInOrder == Registers!Spec
=============================================================================
