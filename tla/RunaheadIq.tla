---------------------------- MODULE RunaheadIq -----------------------------
(***************************************************************************)
(* The instruction queue (inst_queue.cc), its dependence graph, the memory *)
(* dependence unit (mem_dep_unit.cc) with the store sets, and the pool of  *)
(* functional units, for one thread.                                       *)
(*                                                                         *)
(* A program is a sequence of operations, in SSA form: a register is the   *)
(* seqNum of the instruction that writes it.  The LSQ and commit are here  *)
(* as much as the queue sees of them.  A clock cycle is                    *)
(*                                                                         *)
(*   events -> dispatch -> execute -> writeback -> schedule -> commit      *)
(*                                                                         *)
(* where everything between events and commit is IEW::tick.  A signal of   *)
(* commit reaches the queue in the next cycle.                             *)
(***************************************************************************)
EXTENDS Integers, Sequences, FiniteSets, FiniteSetsExt, SequencesExt, StoreSet

CONSTANTS
  Scenarios,    \* programs with the parameters they run under, see Scenario
  NumEntries,   \* numEntries
  TotalWidth,   \* totalWidth: instructions issued in a cycle
  SquashWidth,  \* instructions the reorder buffer marks in a cycle
  MaxDelays     \* bound of the model: translations delayed, packets refused

ASSUME IqAssumption ==
  /\ NumEntries \in Nat \ {0} /\ TotalWidth \in Nat \ {0}
  /\ SquashWidth \in Nat \ {0} /\ MaxDelays \in Nat

Kinds == {"alu", "branch", "div", "load", "store", "barrier"}

\* src: the operations whose results it reads.  addr: the word it accesses.
\* A far load misses; a faulty operation may fault.
Op == [kind : Kinds, src : SUBSET (Nat \ {0}), addr : Nat, far : BOOLEAN, faulty : BOOLEAN]

\* wbWidth, and the functional units of each kind; maxSn, a bound of the model:
\* the sequence numbers handed out.
Scenario == [prog : Seq(Op), wbWidth : Nat \ {0}, units : [Kinds -> Nat], maxSn : Nat]

ASSUME IqScenarioAssumption == Scenarios \subseteq Scenario

VARIABLES
  phase, sc,
  nextSn, nextPos,  \* the next instruction to dispatch
  inst,             \* the dynamic instructions, by seqNum
  rob,              \* their seqNums in the reorder buffer
  \* InstructionQueue
  instList,         \* what it holds: the list is in the order of seqNums
  freeEntries,
  dependGraph,      \* pairs of a register and a consumer waiting for it
  regScoreboard,    \* the registers not ready
  ready,            \* readyInsts (insts) and listOrder (order)
  nonSpecInsts, deferred, blocked, retry,
  instsToExecute, inUnit,    \* inUnit: those with an FUCompletion to come
  unitBusy, unitsToBeFreed,  \* FUPool, by kind
  orderIt, issued,  \* scheduleReadyInsts: its iterator, total_issued
  \* MemDepUnit
  memDepHash, barrierSNs, instsToReplay, depPred,
  \* IEW, commit and the memory system
  iewQueue, written,\* instToCommit's queue; how many written back this cycle
  sent, near, delays,  \* loads in memory; the words that are near by now
  iewSquash, iewSquashNow, squashed,
  squashSig, walk, robSquashing, done, nonSpecSig,
  inRunahead, cause, exitRunahead,
  retired           \* operations committed to architectural state

robVars   == <<nextSn, nextPos, rob>>
iqVars    == <<instList, freeEntries, dependGraph, regScoreboard, nonSpecInsts>>
lists     == <<deferred, blocked, retry>>
fuVars    == <<unitBusy, unitsToBeFreed>>
loopVars  == <<orderIt, issued>>
mdVars    == <<memDepHash, barrierSNs, instsToReplay, depPred>>
memVars   == <<sent, near, delays>>
iewVars   == <<iewSquash, iewSquashNow, squashed>>
sigVars   == <<squashSig, walk, robSquashing, done, nonSpecSig>>
modeVars  == <<inRunahead, cause, exitRunahead>>

vars == <<phase, sc, robVars, inst, iqVars, ready, lists, instsToExecute, inUnit,
          fuVars, loopVars, mdVars, iewQueue, written, memVars, iewVars,
          sigVars, modeVars, retired>>

-----------------------------------------------------------------------------
OpOf(sn) == sc.prog[inst[sn].pos]
Kind(sn) == OpOf(sn).kind
IsMemRef(sn) == Kind(sn) \in {"load", "store"}
IsBarrier(sn) == Kind(sn) = "barrier"

NoSquash == [on |-> FALSE, to |-> 0, tail |-> 0]
NoReport == [on |-> FALSE, sn |-> 0, to |-> 0, pos |-> 0]
NoCause == [sn |-> 0, pos |-> 0]

\* f with the value v at x.
With(f, x, v) == [y \in DOMAIN f \cup {x} |-> IF y = x THEN v ELSE f[y]]

NewInst(p) ==
  [pos |-> p, runahead |-> inRunahead, unready |-> 0, issued |-> FALSE,
   executed |-> FALSE, memOpDone |-> FALSE, translated |-> FALSE,
   fault |-> FALSE, squashed |-> FALSE, wb |-> "no"]

-----------------------------------------------------------------------------
(* The ready lists: one for each class of operation, oldest first, and the *)
(* order in which scheduleReadyInsts looks at them.                        *)

EmptyReady == [insts |-> [k \in Kinds |-> <<>>], order |-> <<>>]

\* How many of an ascending sequence come before, and what comes after n.
UpTo(s, n) == Max({0} \cup {i \in DOMAIN s : s[i] <= n})
After(s, n) == SubSeq(s, UpTo(s, n) + 1, Len(s))

\* addToOrderList
AddToOrderList(order, e) ==
  InsertAt(order, 1 + Max({0} \cup {i \in DOMAIN order : order[i].oldest <= e.oldest}), e)

\* readyIt: where the order has the list of class k.
ReadyIt(order, k) == CHOOSE i \in DOMAIN order : order[i].class = k

\* addReadyMemInst, and the end of addIfReady
AddReady(r, k, sn) ==
  LET list   == r.insts[k]
      others == IF list = <<>> THEN r.order ELSE RemoveAt(r.order, ReadyIt(r.order, k))
  IN  [insts |-> [r.insts EXCEPT ![k] = InsertAt(@, UpTo(@, sn) + 1, sn)],
       order |-> IF list = <<>> \/ sn < Head(list)
                 THEN AddToOrderList(others, [class |-> k, oldest |-> sn])
                 ELSE r.order]

\* One after the other, the oldest first.
AddAllReady(r, S) ==
  LET add[T \in SUBSET S] ==
        IF T = {} THEN r ELSE AddReady(add[T \ {Max(T)}], Kind(Max(T)), Max(T))
  IN  add[S]

\* Take the top of the list at iterator i, with moveToYoungerInst for what
\* is left of it: its new place is behind i, what comes before being older.
PopAt(r, i) ==
  LET k      == r.order[i].class
      rest   == Tail(r.insts[k])
      others == RemoveAt(r.order, i)
  IN  [insts |-> [r.insts EXCEPT ![k] = rest],
       order |-> IF rest = <<>> THEN others
                 ELSE AddToOrderList(others, [class |-> k, oldest |-> Head(rest)])]

-----------------------------------------------------------------------------
\* Mutant: an entry more than the queue has.
OneMoreEntry == NumEntries + 1

\* InstructionQueue::resetState
FreeAtReset == NumEntries

Init ==
  /\ phase = "events" /\ sc \in Scenarios
  /\ nextSn = 1 /\ nextPos = 1 /\ inst = <<>> /\ rob = <<>>
  /\ instList = {} /\ freeEntries = FreeAtReset
  /\ dependGraph = {} /\ regScoreboard = {} /\ nonSpecInsts = {}
  /\ ready = EmptyReady
  /\ deferred = <<>> /\ blocked = <<>> /\ retry = <<>>
  /\ instsToExecute = <<>> /\ inUnit = {}
  /\ unitBusy = [k \in Kinds |-> 0] /\ unitsToBeFreed = [k \in Kinds |-> 0]
  /\ orderIt = 1 /\ issued = 0
  /\ memDepHash = <<>> /\ barrierSNs = {} /\ instsToReplay = {}
  /\ depPred = EmptyPredictor
  /\ iewQueue = <<>> /\ written = 0 /\ sent = {} /\ near = {} /\ delays = 0
  /\ iewSquash = NoReport /\ iewSquashNow = NoReport /\ squashed = NoSquash
  /\ squashSig = NoSquash /\ walk = NoSquash /\ robSquashing = FALSE
  /\ done = 0 /\ nonSpecSig = 0
  /\ inRunahead = FALSE /\ cause = NoCause /\ exitRunahead = FALSE
  /\ retired = 0

-----------------------------------------------------------------------------
(* Events between the cycles.                                              *)

\* A load's response; that of the load that caused runahead ends it, one to a
\* load already answered (by a forged response) or squashed is dropped.
Response(sn) ==
  /\ phase = "events" /\ sn \in sent
  /\ sent' = sent \ {sn} /\ near' = near \cup {OpOf(sn).addr}
  /\ exitRunahead' = (exitRunahead \/ (inRunahead /\ sn = cause.sn))
  /\ IF inst[sn].squashed \/ inst[sn].executed
     THEN UNCHANGED <<inst, iewQueue>>
     ELSE /\ inst' = [inst EXCEPT ![sn].executed = TRUE]
          /\ iewQueue' = Append(iewQueue, sn)
  /\ UNCHANGED <<phase, sc, robVars, iqVars, ready, lists, instsToExecute, inUnit,
                 fuVars, loopVars, mdVars, written, delays, iewVars, sigVars,
                 inRunahead, cause, retired>>

\* InstructionQueue::processFUCompletion, for a unit that is not pipelined.
ProcessFUCompletion(sn) ==
  /\ phase = "events" /\ sn \in inUnit
  /\ inUnit' = inUnit \ {sn}
  /\ unitsToBeFreed' = [unitsToBeFreed EXCEPT ![Kind(sn)] = @ + 1]
  /\ instsToExecute' = Append(instsToExecute, sn)
  /\ UNCHANGED <<phase, sc, robVars, inst, iqVars, ready, lists, unitBusy,
                 loopVars, mdVars, iewQueue, written, memVars, iewVars, sigVars,
                 modeVars, retired>>

\* The page table walk of a deferred instruction ends.
TranslationDone(sn) ==
  /\ phase = "events" /\ sn \in Range(deferred) /\ ~inst[sn].translated
  /\ inst' = [inst EXCEPT ![sn].translated = TRUE]
  /\ UNCHANGED <<phase, sc, robVars, iqVars, ready, lists, instsToExecute, inUnit,
                 fuVars, loopVars, mdVars, iewQueue, written, memVars, iewVars,
                 sigVars, modeVars, retired>>

\* Mutant: the cache's retry does not reach the blocked instructions.
NotRetried == UNCHANGED <<retry, blocked>>

\* InstructionQueue::cacheUnblocked
SpliceBlocked == /\ retry' = retry \o blocked /\ blocked' = <<>>

CacheUnblocked ==
  /\ phase = "events" /\ blocked # <<>>
  /\ SpliceBlocked
  /\ UNCHANGED <<phase, sc, robVars, inst, iqVars, ready, deferred,
                 instsToExecute, inUnit, fuVars, loopVars, mdVars, iewQueue,
                 written, memVars, iewVars, sigVars, modeVars, retired>>

OlderStores(sn) ==
  {s \in Range(rob) : s < sn /\ Kind(s) = "store" /\ OpOf(s).addr = OpOf(sn).addr}

\* LSQUnit has sent the store a rescheduled load waits for: MemDepUnit::replay
ReplayMemInst ==
  /\ phase = "events" /\ instsToReplay # {}
  /\ \E sn \in instsToReplay : OlderStores(sn) = {}
  /\ ready' = AddAllReady(ready, instsToReplay)
  /\ instsToReplay' = {}
  /\ UNCHANGED <<phase, sc, robVars, inst, iqVars, lists, instsToExecute, inUnit,
                 fuVars, loopVars, memDepHash, barrierSNs, depPred, iewQueue,
                 written, memVars, iewVars, sigVars, modeVars, retired>>

-----------------------------------------------------------------------------
(* The cycle starts: FUPool::processFreeUnits, IEW::squash.                *)

InRange(sn) == squashed.to < sn /\ sn <= squashed.tail

\* Mutant: only instructions that have not issued give their entry back.
FreedUnissued(to) == {sn \in instList : sn > to /\ ~inst[sn].issued}

\* InstructionQueue::doSquash: the instructions that give their entry back.
Freed(to) ==
  {sn \in instList :
     sn > to /\ (~inst[sn].issued \/ (IsMemRef(sn) /\ ~inst[sn].memOpDone))}

DropConsumers(to) == {d \in dependGraph : d[2] \notin Freed(to)}

\* InstructionQueue::squash
IqSquash(to) ==
  /\ freeEntries' = freeEntries + Cardinality(Freed(to))
  /\ dependGraph' = DropConsumers(to)
  /\ nonSpecInsts' = {sn \in nonSpecInsts : sn <= to}
  /\ instList' = {sn \in instList : sn <= to}
  /\ regScoreboard' = {r \in regScoreboard : r <= to}   \* the others are dead

\* Mutant: a squashed instruction that waits for a replay stays on its list.
ReplayAfter(to) == instsToReplay

ReplayUpTo(to) == {sn \in instsToReplay : sn <= to}

\* MemDepUnit::squash
MemDepSquash(to) ==
  /\ instsToReplay' = ReplayUpTo(to)
  /\ barrierSNs' = {sn \in barrierSNs : sn <= to}
  /\ memDepHash' = Restrict(memDepHash, {sn \in DOMAIN memDepHash : sn <= to})
  /\ depPred' = SquashStores(depPred, to)

\* The instructions something still refers to.
Referred ==
  Range(rob) \cup instList \cup Range(deferred) \cup Range(blocked) \cup
  Range(retry) \cup Range(instsToExecute) \cup inUnit \cup Range(iewQueue) \cup
  sent \cup DOMAIN memDepHash \cup UNION {Range(ready.insts[k]) : k \in Kinds}

\* DynInst::setSquashedInIQ, and LSQUnit::squash; an instruction that issued
\* stays unmarked until the reorder buffer comes to it.
Marked(sn, to) == sn \in Freed(to) \/ (sn > to /\ IsMemRef(sn))

MarkSquashed(to) ==
  inst' = [sn \in Referred |->
             [inst[sn] EXCEPT !.squashed = @ \/ Marked(sn, to),
                              !.issued = @ \/ sn \in Freed(to)]]

StartTick ==
  /\ phase = "events" /\ phase' = "dispatch"
  /\ unitBusy' = [k \in Kinds |-> unitBusy[k] - unitsToBeFreed[k]]
  /\ unitsToBeFreed' = [k \in Kinds |-> 0]
  /\ squashSig' = NoSquash
  /\ IF squashSig.on
     THEN /\ squashed' = squashSig
          /\ IqSquash(squashSig.to) /\ MemDepSquash(squashSig.to)
          /\ MarkSquashed(squashSig.to)
     ELSE inst' = Restrict(inst, Referred) /\ UNCHANGED <<squashed, iqVars, mdVars>>
  /\ iewSquash' = NoReport /\ written' = 0
  /\ UNCHANGED <<sc, robVars, ready, lists, instsToExecute, inUnit, loopVars,
                 iewQueue, memVars, iewSquashNow, walk, robSquashing, done,
                 nonSpecSig, modeVars, retired>>

-----------------------------------------------------------------------------
(* IEW::dispatchInsts, one instruction at a time.                          *)

HasDest(op) == op.kind \in {"alu", "div", "load"}

\* The registers of the operations it reads, where they are still in flight.
SrcRegs(p) == {sn \in Range(rob) : inst[sn].pos \in sc.prog[p].src}

\* Mutant: the queue does not look at its scoreboard.
AddAllDependents(p) == SrcRegs(p)

\* InstructionQueue::addToDependents: the sources that are not ready.
AddToDependents(p) == SrcRegs(p) \cap regScoreboard

\* MemDepUnit::insert: the barriers in flight, or the predicted store.
ProducingStores(kind, p) ==
  IF barrierSNs # {} THEN barrierSNs ELSE {CheckInst(depPred, p)}

Entry(deps, regs) == [memDeps |-> deps, regsReady |-> regs, dependInsts |-> {}]

\* MemDepUnit::insert
MemDepInsert(sn, p, regs) ==
  LET stores == ProducingStores(sc.prog[p].kind, p) \cap DOMAIN memDepHash
      hash   == [s \in DOMAIN memDepHash |->
                   IF s \in stores
                   THEN [memDepHash[s] EXCEPT !.dependInsts = @ \cup {sn}]
                   ELSE memDepHash[s]]
  IN  /\ memDepHash' = With(hash, sn, Entry(Cardinality(stores), regs))
      /\ ready' = IF stores = {} /\ regs THEN AddReady(ready, sc.prog[p].kind, sn)
                  ELSE ready
      /\ depPred' = IF sc.prog[p].kind = "store" THEN InsertStore(depPred, p, sn)
                    ELSE depPred
      /\ UNCHANGED barrierSNs

\* InstructionQueue::insertBarrier, insertNonSpec and MemDepUnit::insertBarrier
InsertBarrier(sn) ==
  /\ memDepHash' = With(memDepHash, sn, Entry(0, FALSE))
  /\ barrierSNs' = barrierSNs \cup {sn}
  /\ nonSpecInsts' = nonSpecInsts \cup {sn}
  /\ UNCHANGED <<ready, depPred, dependGraph>>

\* InstructionQueue::insert
Insert(sn, p) ==
  LET waits == AddToDependents(p)
  IN  /\ dependGraph' = dependGraph \cup {<<r, sn>> : r \in waits}
      /\ IF sc.prog[p].kind \in {"load", "store"}
         THEN MemDepInsert(sn, p, waits = {})
         ELSE /\ ready' = IF waits = {} THEN AddReady(ready, sc.prog[p].kind, sn)
                          ELSE ready
              /\ UNCHANGED <<memDepHash, depPred, barrierSNs>>
      /\ UNCHANGED nonSpecInsts

Dispatch ==
  /\ phase = "dispatch" /\ ~robSquashing /\ nextSn <= sc.maxSn
  /\ nextPos <= Len(sc.prog) /\ freeEntries > 0
  /\ nextSn' = nextSn + 1 /\ nextPos' = nextPos + 1
  /\ rob' = Append(rob, nextSn)
  /\ instList' = instList \cup {nextSn}
  /\ freeEntries' = freeEntries - 1
  /\ LET op == sc.prog[nextPos]
     IN  /\ IF op.kind = "barrier"
            THEN /\ InsertBarrier(nextSn)
                 /\ inst' = With(inst, nextSn, NewInst(nextPos))
            ELSE /\ Insert(nextSn, nextPos)
                 /\ inst' = With(inst, nextSn, [NewInst(nextPos) EXCEPT
                              !.unready = Cardinality(AddToDependents(nextPos))])
         /\ regScoreboard' = IF HasDest(op) THEN regScoreboard \cup {nextSn}
                             ELSE regScoreboard
  /\ UNCHANGED <<phase, sc, lists, instsToExecute, inUnit, fuVars, loopVars,
                 instsToReplay, iewQueue, written, memVars, iewVars, sigVars,
                 modeVars, retired>>

EndDispatch ==
  /\ phase = "dispatch" /\ phase' = "execute"
  /\ UNCHANGED <<sc, robVars, inst, iqVars, ready, lists, instsToExecute, inUnit,
                 fuVars, loopVars, mdVars, iewQueue, written, memVars, iewVars,
                 sigVars, modeVars, retired>>

-----------------------------------------------------------------------------
(* IEW::executeInsts, one instruction at a time.                           *)

Executing(sn) ==
  phase = "execute" /\ instsToExecute # <<>> /\ sn = Head(instsToExecute)

Stale(sn) == inst[sn].runahead /\ ~inRunahead

Skipped(sn) == inst[sn].squashed \/ Stale(sn) \/ InRange(sn)

\* The bound leaves sequence numbers for the instructions still to come, for
\* the squashes that are certain, and for one more.
CanRefetch ==
  LET certain == Cardinality({s \in Range(rob) : inst[s].fault}) +
                 Cardinality({r \in {iewSquash, iewSquashNow} : r.on}) +
                 IF inRunahead THEN 1 ELSE 0
  IN  sc.maxSn - nextSn >= Len(sc.prog) * (2 + certain) - nextPos

\* Whether IEW looks for a redirect: an older one may have been found.
MayRedirect(sn) == ~iewSquash.on \/ sn < iewSquash.sn

\* squashDueToBranch, squashDueToMemOrder: squash what is younger than `to` and
\* fetch from pos.
Report(sn, to, pos) ==
  iewSquash' = IF iewSquash.on /\ iewSquash.sn < sn THEN iewSquash
               ELSE [on |-> TRUE, sn |-> sn, to |-> to, pos |-> pos]

NoRedirect == UNCHANGED <<iewSquash, depPred>>

\* What every way to execute an instruction leaves alone.
ExecuteFrame ==
  UNCHANGED <<phase, sc, robVars, iqVars, ready, retry, inUnit, fuVars, loopVars,
              memDepHash, barrierSNs, written, iewSquashNow, squashed, sigVars,
              modeVars, retired>>

SkipSquashed(sn) ==
  /\ Executing(sn) /\ Skipped(sn)
  /\ instsToExecute' = Tail(instsToExecute)
  /\ inst' = [inst EXCEPT ![sn].squashed = TRUE, ![sn].executed = TRUE]
  /\ NoRedirect
  /\ UNCHANGED <<deferred, blocked, instsToReplay, iewQueue, memVars>>
  /\ ExecuteFrame

\* Executed and on its way to commit, by instToCommit: a computation, a
\* poisoned load, or an access that faults.
ToCommit(sn, fault) ==
  /\ Executing(sn) /\ ~Skipped(sn)
  /\ instsToExecute' = Tail(instsToExecute)
  /\ inst' = [inst EXCEPT ![sn].executed = TRUE, ![sn].fault = fault]
  /\ iewQueue' = Append(iewQueue, sn)
  /\ UNCHANGED <<deferred, blocked, instsToReplay, memVars>>
  /\ ExecuteFrame

Compute(sn) ==
  /\ ToCommit(sn, FALSE)
  /\ \/ ~IsMemRef(sn) /\ NoRedirect
     \/ /\ Kind(sn) = "branch" /\ MayRedirect(sn) /\ CanRefetch  \* mispredicted
        /\ Report(sn, sn, inst[sn].pos + 1) /\ UNCHANGED depPred
     \/ Kind(sn) = "load" /\ inst[sn].runahead /\ NoRedirect

Fault(sn) ==
  /\ IsMemRef(sn) /\ OpOf(sn).faulty /\ (inst[sn].runahead \/ CanRefetch)
  /\ ToCommit(sn, TRUE) /\ NoRedirect

\* Loads younger than the store that have been to memory already.
Violators(sn) ==
  {l \in Range(rob) : /\ l > sn /\ Kind(l) = "load" /\ OpOf(l).addr = OpOf(sn).addr
                      /\ l \in sent \/ inst[l].executed}

\* IEW::executeInsts for a store: a violation trains the predictor, unless
\* an older redirect was found in this cycle.
ExecuteStore(sn) ==
  /\ Kind(sn) = "store" /\ ToCommit(sn, FALSE)
  /\ IF Violators(sn) = {} \/ ~MayRedirect(sn) \/ ~CanRefetch
     THEN NoRedirect
     ELSE LET load == Min(Violators(sn))
          IN  /\ Report(load, load - 1, inst[load].pos)
              /\ depPred' = Violation(depPred, inst[sn].pos, inst[load].pos)

\* InstructionQueue::deferMemInst: the translation takes a page table walk.
DeferMemInst(sn) ==
  /\ Executing(sn) /\ ~Skipped(sn) /\ IsMemRef(sn)
  /\ ~inst[sn].translated /\ delays < MaxDelays
  /\ delays' = delays + 1
  /\ instsToExecute' = Tail(instsToExecute)
  /\ deferred' = Append(deferred, sn)
  /\ NoRedirect
  /\ UNCHANGED <<inst, blocked, instsToReplay, iewQueue, sent, near>>
  /\ ExecuteFrame

ExecutesLoad(sn) ==
  /\ Executing(sn) /\ ~Skipped(sn) /\ Kind(sn) = "load"
  /\ instsToExecute' = Tail(instsToExecute)
  /\ NoRedirect

\* InstructionQueue::blockMemInst: the cache takes no packet.
BlockMemInst(sn) ==
  /\ ExecutesLoad(sn) /\ delays < MaxDelays
  /\ delays' = delays + 1
  /\ blocked' = Append(blocked, sn)
  /\ inst' = [inst EXCEPT ![sn].issued = FALSE]
  /\ UNCHANGED <<deferred, instsToReplay, iewQueue, sent, near>>
  /\ ExecuteFrame

\* InstructionQueue::rescheduleMemInst: an older store has a part of the data.
RescheduleMemInst(sn) ==
  /\ ExecutesLoad(sn) /\ \E s \in OlderStores(sn) : inst[s].executed
  /\ instsToReplay' = instsToReplay \cup {sn}
  /\ inst' = [inst EXCEPT ![sn].translated = FALSE]
  /\ UNCHANGED <<deferred, blocked, iewQueue, memVars>>
  /\ ExecuteFrame

SendLoad(sn) ==
  /\ ExecutesLoad(sn)
  /\ sent' = sent \cup {sn}
  /\ UNCHANGED <<inst, deferred, blocked, instsToReplay, iewQueue, near, delays>>
  /\ ExecuteFrame

EndExecute ==
  /\ phase = "execute" /\ instsToExecute = <<>>
  /\ phase' = "writeback"
  /\ UNCHANGED <<sc, robVars, inst, iqVars, ready, lists, instsToExecute, inUnit,
                 fuVars, loopVars, mdVars, iewQueue, written, memVars, iewVars,
                 sigVars, modeVars, retired>>

-----------------------------------------------------------------------------
(* IEW::writebackInsts, one instruction at a time.                         *)

Consumers(r) == {d[2] : d \in {e \in dependGraph : e[1] = r}}

\* DynInst::markSrcRegReady: this was the last source it waited for.
AllRegsReady(sn) == inst[sn].unready = 1

\* MemDepUnit::wakeDependents: this was the last store or barrier.
MemReady(e) == e.memDeps = 1 /\ e.regsReady

\* InstructionQueue::wakeDependents with MemDepUnit::completeInst
WakeDependents(sn) ==
  LET regs   == {c \in Consumers(sn) : AllRegsReady(c)}
      \* regsReady: a memory instruction may still have to wait
      toMd   == {c \in regs : IsMemRef(c)}
      deps   == IF sn \in DOMAIN memDepHash /\ Kind(sn) \in {"store", "barrier"}
                THEN memDepHash[sn].dependInsts \cap DOMAIN memDepHash ELSE {}
      woken  == {c \in deps : MemReady(memDepHash[c])}
      hash   == [s \in DOMAIN memDepHash |->
                   [memDepHash[s] EXCEPT !.regsReady = @ \/ s \in toMd,
                                         !.memDeps = IF s \in deps THEN @ - 1 ELSE @]]
      isMem  == IsMemRef(sn)
  IN  /\ memDepHash' = IF isMem \/ IsBarrier(sn)
                       THEN Restrict(hash, DOMAIN hash \ {sn}) ELSE hash
      /\ barrierSNs' = barrierSNs \ {sn}
      /\ ready' = AddAllReady(ready, woken \cup (regs \ toMd) \cup
                                {c \in toMd : memDepHash[c].memDeps = 0})
      /\ freeEntries' = IF isMem THEN freeEntries + 1 ELSE freeEntries
      /\ dependGraph' = {d \in dependGraph : d[1] # sn}
      /\ regScoreboard' = regScoreboard \ {sn}
      /\ inst' = [c \in DOMAIN inst |->
                    IF c = sn THEN [inst[c] EXCEPT !.memOpDone = isMem, !.wb = "fresh"]
                    ELSE [inst[c] EXCEPT !.unready = IF c \in Consumers(sn)
                                                     THEN @ - 1 ELSE @]]

Wakes(sn) == ~inst[sn].squashed /\ ~inst[sn].fault

Writeback ==
  /\ phase = "writeback" /\ written < sc.wbWidth /\ iewQueue # <<>>
  /\ iewQueue' = Tail(iewQueue) /\ written' = written + 1
  /\ LET sn == Head(iewQueue)
     IN  IF Wakes(sn) THEN WakeDependents(sn)
         ELSE /\ inst' = [inst EXCEPT ![sn].wb = "fresh"]
              /\ UNCHANGED <<memDepHash, barrierSNs, ready, freeEntries,
                             dependGraph, regScoreboard>>
  /\ UNCHANGED <<phase, sc, robVars, instList, nonSpecInsts, lists,
                 instsToExecute, inUnit, fuVars, loopVars, instsToReplay, depPred,
                 memVars, iewVars, sigVars, modeVars, retired>>

EndWriteback ==
  /\ phase = "writeback" /\ (written = sc.wbWidth \/ iewQueue = <<>>)
  /\ phase' = "schedule" /\ orderIt' = 0 /\ issued' = 0
  /\ UNCHANGED <<sc, robVars, inst, iqVars, ready, lists, instsToExecute, inUnit,
                 fuVars, mdVars, iewQueue, written, memVars, iewVars, sigVars,
                 modeVars, retired>>

-----------------------------------------------------------------------------
(* InstructionQueue::scheduleReadyInsts, an iteration of its loops at a    *)
(* time; iterator 0 stands for the two loops before the one over listOrder.*)

Scheduling == phase = "schedule" /\ issued < TotalWidth

Deferrable ==
  {i \in DOMAIN deferred : inst[deferred[i]].translated \/ inst[deferred[i]].squashed}

\* getDeferredMemInstToExecute, getBlockedMemInstToExecute
GetDeferred ==
  /\ phase = "schedule" /\ orderIt = 0 /\ Deferrable # {}
  /\ LET i  == Min(Deferrable)
         sn == deferred[i]
     IN  /\ deferred' = RemoveAt(deferred, i)
         /\ ready' = AddReady(ready, Kind(sn), sn)
  /\ UNCHANGED <<phase, sc, robVars, inst, iqVars, blocked, retry,
                 instsToExecute, inUnit, fuVars, loopVars, mdVars, iewQueue,
                 written, memVars, iewVars, sigVars, modeVars, retired>>

GetBlocked ==
  /\ phase = "schedule" /\ orderIt = 0 /\ Deferrable = {} /\ retry # <<>>
  /\ retry' = Tail(retry)
  /\ ready' = AddReady(ready, Kind(Head(retry)), Head(retry))
  /\ UNCHANGED <<phase, sc, robVars, inst, iqVars, deferred, blocked,
                 instsToExecute, inUnit, fuVars, loopVars, mdVars, iewQueue,
                 written, memVars, iewVars, sigVars, modeVars, retired>>

StartLoop ==
  /\ phase = "schedule" /\ orderIt = 0 /\ Deferrable = {} /\ retry = <<>>
  /\ orderIt' = 1
  /\ UNCHANGED <<phase, sc, robVars, inst, iqVars, ready, lists, instsToExecute,
                 inUnit, fuVars, issued, mdVars, iewQueue, written, memVars,
                 iewVars, sigVars, modeVars, retired>>

AtOrder(k) ==
  /\ Scheduling /\ orderIt \in DOMAIN ready.order /\ k = ready.order[orderIt].class

Top(k) == Head(ready.insts[k])

PopSquashed(k) ==
  /\ AtOrder(k) /\ inst[Top(k)].squashed
  /\ ready' = PopAt(ready, orderIt)
  /\ UNCHANGED <<phase, sc, robVars, inst, iqVars, lists, instsToExecute, inUnit,
                 fuVars, loopVars, mdVars, iewQueue, written, memVars, iewVars,
                 sigVars, modeVars, retired>>

\* FUPool::getUnit; a barrier needs no unit.
UnitFree(k) == k = "barrier" \/ unitBusy[k] < sc.units[k]

\* FUPool::freeUnitNextCycle, unless the operation keeps the unit.
FreeUnitNextCycle(k) ==
  [unitsToBeFreed EXCEPT ![k] = IF k \in {"barrier", "div"} THEN @ ELSE @ + 1]

\* Memory instructions keep their entry until they complete.
LeavesAtIssue(sn) == ~IsMemRef(sn)

Issue(k) ==
  /\ AtOrder(k) /\ ~inst[Top(k)].squashed /\ UnitFree(k)
  /\ LET sn == Top(k)
     IN  /\ inst' = [inst EXCEPT ![sn].issued = TRUE]
         /\ freeEntries' = IF LeavesAtIssue(sn) THEN freeEntries + 1 ELSE freeEntries
         /\ depPred' = IF k = "store" THEN StoreIssued(depPred, inst[sn].pos, sn)
                       ELSE depPred
         /\ IF k = "div"
            THEN inUnit' = inUnit \cup {sn} /\ UNCHANGED instsToExecute
            ELSE instsToExecute' = Append(instsToExecute, sn) /\ UNCHANGED inUnit
  /\ unitBusy' = [unitBusy EXCEPT ![k] = IF k = "barrier" THEN @ ELSE @ + 1]
  /\ unitsToBeFreed' = FreeUnitNextCycle(k)
  /\ ready' = PopAt(ready, orderIt)
  /\ issued' = issued + 1
  /\ UNCHANGED <<phase, sc, robVars, instList, dependGraph, regScoreboard,
                 nonSpecInsts, lists, orderIt, memDepHash, barrierSNs,
                 instsToReplay, iewQueue, written, memVars, iewVars, sigVars,
                 modeVars, retired>>

UnitBusy(k) ==
  /\ AtOrder(k) /\ ~inst[Top(k)].squashed /\ ~UnitFree(k)
  /\ orderIt' = orderIt + 1
  /\ UNCHANGED <<phase, sc, robVars, inst, iqVars, ready, lists, instsToExecute,
                 inUnit, fuVars, issued, mdVars, iewQueue, written, memVars,
                 iewVars, sigVars, modeVars, retired>>

\* The loop is done; InstructionQueue::commit and scheduleNonSpec for what
\* commit signalled in the cycle before.
EndSchedule ==
  /\ phase = "schedule" /\ orderIt > 0
  /\ issued = TotalWidth \/ orderIt > Len(ready.order)
  /\ phase' = "commit" /\ orderIt' = 0
  /\ instList' = {sn \in instList : sn > done} /\ done' = 0
  /\ nonSpecInsts' = nonSpecInsts \ {nonSpecSig} /\ nonSpecSig' = 0
  /\ ready' = IF nonSpecSig = 0 THEN ready ELSE AddReady(ready, "barrier", nonSpecSig)
  /\ UNCHANGED <<sc, robVars, inst, freeEntries, dependGraph, regScoreboard, lists,
                 instsToExecute, inUnit, fuVars, issued, mdVars, iewQueue,
                 written, memVars, iewVars, squashSig, walk, robSquashing,
                 modeVars, retired>>

-----------------------------------------------------------------------------
(* Commit, as the queue sees it.                                           *)

\* Commit's tick ends: what was written back may retire from the next on.
Aged(insts) ==
  [sn \in DOMAIN insts |->
     [insts[sn] EXCEPT !.wb = IF @ = "fresh" THEN "ready" ELSE @]]

\* IEW's report is on its way to commit for a cycle.
EndsTick ==
  /\ phase' = "events"
  /\ iewSquashNow' = iewSquash /\ iewSquash' = NoReport
  /\ UNCHANGED <<sc, nextSn, iqVars, ready, lists, instsToExecute, inUnit, fuVars,
                 loopVars, mdVars, written, memVars, squashed>>

\* ROB::doSquash marks instructions from the tail on.
RobMarks(to) ==
  LET young  == After(rob, to)
      n      == IF Len(young) < SquashWidth THEN Len(young) ELSE SquashWidth
      marked == {rob[k] : k \in (Len(rob) - n + 1)..Len(rob)}
  IN  /\ rob' = SubSeq(rob, 1, Len(rob) - n)
      /\ inst' = Aged([sn \in DOMAIN inst |->
                         [inst[sn] EXCEPT !.squashed = @ \/ sn \in marked]])
      /\ robSquashing' = (n < Len(young))
      /\ walk' = IF n < Len(young) THEN [on |-> TRUE, to |-> to, tail |-> 0] ELSE NoSquash

SquashFrom(to, pos) ==
  /\ squashSig' = [on |-> TRUE, to |-> to, tail |-> nextSn - 1]
  /\ nextPos' = pos
  /\ RobMarks(to)
  /\ UNCHANGED <<done, nonSpecSig, iewQueue, retired>>
  /\ EndsTick

OldestInFlight == IF rob = <<>> THEN nextSn ELSE rob[1]

\* Commit::squashFromRunaheadExit
ExitSquash ==
  /\ phase = "commit" /\ exitRunahead
  /\ SquashFrom(OldestInFlight - 1, cause.pos)
  /\ inRunahead' = FALSE /\ exitRunahead' = FALSE
  /\ UNCHANGED cause

HeadReady == rob # <<>> /\ inst[rob[1]].wb = "ready"

\* Commit::squashFromTrap: the handler returns to the instruction.
TrapSquash ==
  /\ phase = "commit" /\ ~walk.on /\ ~exitRunahead
  /\ HeadReady /\ inst[rob[1]].fault /\ ~inst[rob[1]].runahead
  /\ SquashFrom(rob[1] - 1, inst[rob[1]].pos)
  /\ UNCHANGED modeVars

YoungestSeqNum == IF walk.on THEN walk.to ELSE IF rob = <<>> THEN 0 ELSE Last(rob)

LiveReport == iewSquashNow.on /\ iewSquashNow.sn <= YoungestSeqNum

\* Commit::commit takes IEW's squash.
IewSquashes ==
  /\ phase = "commit" /\ ~exitRunahead /\ LiveReport
  /\ SquashFrom(iewSquashNow.to, iewSquashNow.pos)
  /\ UNCHANGED modeVars

RobWalk ==
  /\ phase = "commit" /\ ~exitRunahead /\ walk.on /\ ~LiveReport
  /\ RobMarks(walk.to)
  /\ UNCHANGED <<nextPos, squashSig, done, nonSpecSig, iewQueue, modeVars, retired>>
  /\ EndsTick

Commits == phase = "commit" /\ ~exitRunahead /\ ~walk.on /\ ~LiveReport

\* Commit::commitHead: retire, or pseudoretire in runahead.
Retire ==
  /\ Commits /\ HeadReady /\ ~inst[rob[1]].fault
  /\ rob' = Tail(rob) /\ done' = rob[1]
  /\ retired' = IF inst[rob[1]].runahead THEN retired ELSE inst[rob[1]].pos
  /\ UNCHANGED <<phase, sc, nextSn, nextPos, inst, iqVars, ready, lists,
                 instsToExecute, inUnit, fuVars, loopVars, mdVars, iewQueue,
                 written, memVars, iewVars, squashSig, walk, robSquashing,
                 nonSpecSig, modeVars>>

\* Commit goes on as long as the head is ready; a fault in runahead stops it.
CommitFrame ==
  /\ HeadReady => inst[rob[1]].fault /\ inst[rob[1]].runahead
  /\ robSquashing' = FALSE
  /\ UNCHANGED <<rob, nextPos, squashSig, walk, done, retired>>
  /\ EndsTick

\* Commit::commitHead for a barrier, the first instruction of the cycle: it is
\* told to execute.
NonSpecHead ==
  /\ Commits /\ done = 0 /\ rob # <<>> /\ rob[1] \in nonSpecInsts
  /\ nonSpecSig' = rob[1]
  /\ inst' = Aged(inst)
  /\ UNCHANGED <<iewQueue, modeVars>>
  /\ CommitFrame

LLLAtHead ==
  /\ rob # <<>> /\ rob[1] \in sent /\ ~inst[rob[1]].executed
  /\ OpOf(rob[1]).far /\ OpOf(rob[1]).addr \notin near

\* LSQUnit::forgeResponse for the load at the head; entering runahead marks
\* what is in flight.
Forge(marked) ==
  /\ inst' = Aged([sn \in DOMAIN inst |->
               [inst[sn] EXCEPT !.runahead = @ \/ sn \in marked,
                                !.executed = @ \/ sn = rob[1]]])
  /\ iewQueue' = Append(iewQueue, rob[1])
  /\ UNCHANGED nonSpecSig
  /\ CommitFrame

EnterRunahead ==
  /\ Commits /\ LLLAtHead /\ ~inRunahead /\ CanRefetch
  /\ Forge(Range(rob))
  /\ inRunahead' = TRUE /\ cause' = [sn |-> rob[1], pos |-> inst[rob[1]].pos]
  /\ UNCHANGED exitRunahead

PoisonLLL ==
  /\ Commits /\ LLLAtHead /\ inRunahead
  /\ Forge({})
  /\ UNCHANGED modeVars

EndCommit ==
  /\ Commits /\ (done = 0 /\ rob # <<>> => rob[1] \notin nonSpecInsts)
  /\ inst' = Aged(inst)
  /\ UNCHANGED <<iewQueue, modeVars, nonSpecSig>>
  /\ CommitFrame

-----------------------------------------------------------------------------
Event ==
  \/ \E sn \in sent : Response(sn)
  \/ \E sn \in inUnit : ProcessFUCompletion(sn)
  \/ \E sn \in DOMAIN inst : TranslationDone(sn)
  \/ CacheUnblocked
  \/ ReplayMemInst

Execute ==
  \E sn \in DOMAIN inst :
    \/ SkipSquashed(sn) \/ Compute(sn) \/ Fault(sn) \/ ExecuteStore(sn)
    \/ DeferMemInst(sn) \/ BlockMemInst(sn) \/ RescheduleMemInst(sn) \/ SendLoad(sn)

Schedule ==
  \/ GetDeferred
  \/ GetBlocked
  \/ StartLoop
  \/ \E k \in Kinds : PopSquashed(k) \/ Issue(k) \/ UnitBusy(k)
  \/ EndSchedule

Commit ==
  \/ ExitSquash
  \/ TrapSquash
  \/ IewSquashes
  \/ RobWalk
  \/ Retire
  \/ NonSpecHead
  \/ EnterRunahead
  \/ PoisonLLL
  \/ EndCommit

Next ==
  \/ Event
  \/ StartTick
  \/ Dispatch
  \/ EndDispatch
  \/ Execute
  \/ EndExecute
  \/ Writeback
  \/ EndWriteback
  \/ Schedule
  \/ Commit

Spec == Init /\ [][Next]_vars

\* Cycles go on, and nothing outside the queue stops for ever: as long as rename
\* has an instruction to deliver or a unit or memory has an answer to give,
\* one of these happens.
Fairness == WF_vars(Next) /\ SF_vars(Event \/ Dispatch)

FairSpec == Spec /\ Fairness

-----------------------------------------------------------------------------
(* Properties.                                                             *)

InstType ==
  [pos : Nat, runahead : BOOLEAN, unready : Nat, issued : BOOLEAN,
   executed : BOOLEAN, memOpDone : BOOLEAN, translated : BOOLEAN,
   fault : BOOLEAN, squashed : BOOLEAN, wb : {"no", "fresh", "ready"}]

\* The type invariant; every seqNum that is held anywhere has its DynInst.
TypeOK ==
  /\ phase \in {"events", "dispatch", "execute", "writeback", "schedule", "commit"}
  /\ sc \in Scenarios /\ freeEntries \in 0..NumEntries
  /\ \A sn \in DOMAIN inst : inst[sn] \in InstType
  /\ Range(rob) \cup instList \cup Range(iewQueue) \cup sent \cup inUnit \cup
     Range(instsToExecute) \cup Range(deferred) \cup Range(blocked) \cup Range(retry) \cup
     DOMAIN memDepHash \subseteq DOMAIN inst
  /\ \A k \in Kinds : unitBusy[k] \in Nat /\ unitsToBeFreed[k] \in Nat

InQueue(sn) == ~inst[sn].issued \/ (IsMemRef(sn) /\ ~inst[sn].memOpDone)

\* No entry of the queue is lost or given back twice, whichever way its
\* instruction leaves: at issue, at completion, in a squash, in runahead.
EntriesConserved ==
  freeEntries + Cardinality({sn \in instList : InQueue(sn)}) = NumEntries

Times(sn, s) == Cardinality({k \in DOMAIN s : s[k] = sn})
One(b) == IF b THEN 1 ELSE 0

WaitsForRegs(sn) ==
  /\ inst[sn].unready = Cardinality({d \in dependGraph : d[2] = sn})
  /\ inst[sn].unready > 0
  /\ \A d \in dependGraph : d[2] = sn => d[1] \in Range(rob) /\ d[1] \in regScoreboard

WaitsForMem(sn) ==
  /\ inst[sn].unready = 0 /\ sn \in DOMAIN memDepHash /\ memDepHash[sn].memDeps > 0
  /\ memDepHash[sn].memDeps =
       Cardinality({s \in DOMAIN memDepHash : sn \in memDepHash[s].dependInsts})

\* No wake-up is lost or given twice: an instruction that has not executed is
\* in exactly one place that it gets on from (a register or store it waits
\* for counts it, too), and one that has is on its way to commit once.
OnePlace ==
  \A sn \in instList : ~inst[sn].squashed =>
    IF inst[sn].executed THEN Times(sn, iewQueue) + One(inst[sn].wb # "no") = 1
    ELSE 1 = Times(sn, ready.insts[Kind(sn)]) + Times(sn, instsToExecute) +
             Times(sn, deferred) + Times(sn, blocked) + Times(sn, retry) +
             One(sn \in inUnit \cup sent \cup instsToReplay \cup nonSpecInsts) +
             One(WaitsForRegs(sn)) + One(WaitsForMem(sn))

\* What scheduleReadyInsts asserts, and more: the order has one entry for each
\* list that is not empty, with its oldest instruction, the oldest first.
OrderListSound ==
  LET order == ready.order
  IN  /\ \A k \in Kinds : Cardinality({i \in DOMAIN order : order[i].class = k}) =
                            One(ready.insts[k] # <<>>)
      /\ \A i \in DOMAIN order : order[i].oldest = Head(ready.insts[order[i].class])
      /\ \A i, j \in DOMAIN order : i < j => order[i].oldest < order[j].oldest

\* dep_graph.hh and doSquash assert that no consumer is left when a register's
\* producer goes: consumers are in the queue and younger than the producer.
ConsumersLive ==
  \A d \in dependGraph : d[1] < d[2] /\ {d[1], d[2]} \subseteq instList

\* Squashed, and not yet marked by the walk of the reorder buffer.
BehindWalk(sn) == walk.on /\ sn > walk.to

\* MemDepUnit::findInHash and scheduleNonSpec find what they look for, all but
\* one: an issued barrier that an exit squashes, which the queue drops and does
\* not mark, is looked up in vain until the walk has marked it (LostEntry).
EntryFound ==
  /\ \A sn \in Range(iewQueue) : Wakes(sn) =>
       /\ IsMemRef(sn) => sn \in DOMAIN memDepHash
       /\ IsBarrier(sn) => sn \in DOMAIN memDepHash \/ BehindWalk(sn)
  /\ \A d \in dependGraph : IsMemRef(d[2]) => d[2] \in DOMAIN memDepHash
  /\ instsToReplay \subseteq DOMAIN memDepHash
  /\ nonSpecSig # 0 /\ ~squashSig.on => nonSpecSig \in nonSpecInsts

\* An instruction executes with its sources ready, and one that accesses
\* memory after the barriers before it.
IssuedInOrder ==
  \A sn \in Range(instsToExecute) \cup inUnit \cup sent :
    ~inst[sn].squashed /\ ~InRange(sn) =>
      /\ \A r \in Range(rob) :
           r < sn /\ inst[r].pos \in OpOf(sn).src => r \notin regScoreboard
      /\ IsMemRef(sn) => \A b \in Range(rob) : b < sn /\ IsBarrier(b) => inst[b].wb # "no"

\* A unit is busy for as long as an operation keeps it, and is freed once.
UnitsConserved ==
  \A k \in Kinds :
    /\ unitBusy[k] = unitsToBeFreed[k] + Cardinality({sn \in inUnit : Kind(sn) = k})
    /\ unitBusy[k] <= sc.units[k]

\* The queue's lists, graph, counters and units agree about every instruction.
QueueSound ==
  OnePlace /\ OrderListSound /\ ConsumersLive /\ IssuedInOrder /\ UnitsConserved

\* The loop of StoreSet::squash ends, whatever is squashed.
PredictorSquashEnds == \A to \in 0..sc.maxSn : SquashEnds(depPred, to)

\* The program retires, whatever was squashed, deferred, refused, replayed or
\* run ahead of.
Completes == <>(retired = Len(sc.prog))

-----------------------------------------------------------------------------
(* What an assertion says and the code does not do.                         *)

\* mem_dep_unit.cc:596, the assertion of findInHash, for a barrier that is
\* written back: InstructionQueue::wakeDependents looks its entry up.
BarrierEntryFound ==
  \A sn \in Range(iewQueue) : Wakes(sn) /\ IsBarrier(sn) => sn \in DOMAIN memDepHash
=============================================================================
