--------------------------- MODULE InterruptDrain ---------------------------
(***************************************************************************)
(* Interrupts and draining against runahead: what fetch does when it is    *)
(* told to hold back, with its instruction cache accesses; how commit lets *)
(* the pipeline run empty at an instruction boundary and takes the         *)
(* interrupt, or reports the CPU drained; and what a runahead period in    *)
(* between may not disturb.  One thread.                                   *)
(*                                                                         *)
(* The program runs in a loop and an instruction is known by its position  *)
(* in it.  The phases of a cycle are those of CPU::tick,                   *)
(*                                                                         *)
(*   events -> fetch -> walk -> squash -> insts -> end -> events           *)
(*                                                                         *)
(* where walk, squash and insts are parts of Commit::tick.  Handlers of    *)
(* interrupts and faults run outside the model and return to c.pc.         *)
(***************************************************************************)
EXTENDS Naturals, Sequences, FiniteSets, FiniteSetsExt, SequencesExt

CONSTANTS
  Scenarios,     \* programs with what may happen to them, see Scenario
  FetchWidth, CommitWidth, SquashWidth, RobSize,
  QueueSize      \* instructions fetched and not yet in the reorder buffer

ASSUME WidthAssumption ==
  \A n \in {FetchWidth, CommitWidth, SquashWidth, RobSize, QueueSize} : n \in Nat \ {0}

Kinds == {"alu", "load", "branch", "fault"}

\* mid: isDelayedCommit, not the last micro-op of its macro-op.  line: the
\* instruction cache line it is fetched from.
Op == [kind : Kinds, mid : BOOLEAN, line : Nat \ {0}]

\* Its last micro-op ends a macro-op, and so does one that faults, as the handler
\* returns behind the macro-op.
Program ==
  {p \in Seq(Op) : /\ p # <<>> /\ ~p[Len(p)].mid
                   /\ \A k \in DOMAIN p : p[k].kind = "fault" => ~p[k].mid}

Scenario == [prog : Program, interrupts : BOOLEAN, drains : BOOLEAN]

ASSUME DrainScenarioAssumption == Scenarios \subseteq Scenario

VARIABLES
  phase, sc,
  f,             \* fetch
  tlb, icache,   \* translations and instruction cache accesses under way
  rob,
  c, sig,        \* commit, and what it tells fetch
  x,             \* the runahead mode
  raised,        \* an interrupt is posted and enabled: checkInterrupts
  removed,       \* instructions removed this cycle, in instList until its end
  removeList,    \* whether CPU::removeList holds anything
  drainState,
  seen           \* the state an interrupt was taken in, in this cycle

cpuVars == <<raised, removed, removeList, drainState, seen>>
vars == <<phase, sc, f, tlb, icache, rob, c, sig, x, cpuVars>>

prog == sc.prog
Pos == DOMAIN prog
Succ(p) == IF p = Len(prog) THEN 1 ELSE p + 1
Pred(p) == IF p = 1 THEN Len(prog) ELSE p - 1

\* microPC() = 0: p starts a macro-op.
Boundary(p) == ~prog[Pred(p)].mid

InstListEmpty == rob = <<>> /\ f.queue = <<>> /\ ~removed

NoSignal == [squash |-> FALSE, pc |-> 1, interrupt |-> FALSE, clear |-> FALSE]

Nobody == [pc |-> 0, regs |-> "arch"]

Init ==
  /\ phase = "events" /\ sc \in Scenarios
  /\ f = [status |-> "Running", pc |-> 1, macroop |-> FALSE,
          line |-> 0, valid |-> FALSE, data |-> 0, retryPkt |-> 0,
          cacheBlocked |-> FALSE, drainStall |-> FALSE, interruptPending |-> FALSE,
          delayedCommit |-> FALSE, queue |-> <<>>, fresh |-> 0, trained |-> FALSE]
  /\ tlb = {} /\ icache = {} /\ rob = <<>>
  /\ c = [status |-> "Running", pc |-> 1, walk |-> 0, canHandleInterrupts |-> TRUE,
          interrupt |-> FALSE, avoidQuiesceLiveLock |-> FALSE, trap |-> "none",
          drainPending |-> FALSE, drainImminent |-> FALSE, n |-> 0]
  /\ sig = NoSignal
  /\ x = [on |-> FALSE, exit |-> FALSE, storedPc |-> 1,
          restoreNext |-> FALSE, restoreNow |-> FALSE, regs |-> "arch", warm |-> 0]
  /\ raised = FALSE /\ removed = FALSE /\ removeList = FALSE
  /\ drainState = "Running" /\ seen = Nobody

-----------------------------------------------------------------------------
(* Fetch.                                                                  *)

Dead(requests) == {[q EXCEPT !.live = FALSE] : q \in requests}
Waiting == {"ItlbWait", "IcacheWaitResponse", "IcacheWaitRetry"}

\* Fetch::fetchCacheLine, of the line l.
CanFetchLine(g) == ~g.cacheBlocked /\ ~(g.interruptPending /\ ~g.delayedCommit)

\* Fetch::doSquash and the removal of what has not reached the reorder buffer.
DoSquash(g) ==
  [g EXCEPT !.pc = sig.pc, !.macroop = FALSE, !.retryPkt = 0, !.status = "Squashing",
            !.queue = <<>>, !.delayedCommit = TRUE]

\* Fetch::checkSignalsAndUpdate
CheckSignals(g) ==
  IF sig.squash THEN DoSquash(g)
  ELSE [g EXCEPT !.status =
         IF g.drainStall /\ g.status \notin Waiting THEN "Blocked"
         ELSE IF g.status \in {"Blocked", "Squashing"} THEN "Running"
         ELSE g.status]

\* The interrupt signals, in Fetch::tick.
CheckInterruptSignals(g) ==
  [g EXCEPT !.interruptPending = (@ \/ sig.interrupt) /\ ~sig.clear]

InBuffer(g, p) == g.valid /\ g.line = prog[p].line

\* The k-th instruction after the one at g.pc; the program ends in a taken branch.
Ahead(g, k) == IF g.pc + k > Len(prog) THEN g.pc + k - Len(prog) ELSE g.pc + k

\* How many instructions the loop of Fetch::fetch builds.
GroupSize(g) ==
  Max({n \in 0..FetchWidth :
         /\ n <= QueueSize - Len(g.queue)
         /\ g.pc + n <= Len(prog) + 1
         /\ \A k \in 0..(n - 1) :
              \/ InBuffer(g, Ahead(g, k))
              \/ IF k = 0 THEN g.macroop ELSE prog[Ahead(g, k - 1)].mid})

\* Whether Fetch::fetch comes to its loop.
MayFetch(g) ==
  \/ g.status = "IcacheAccessComplete"
  \/ /\ g.status = "Running"
     /\ InBuffer(g, g.pc) \/ g.macroop
     /\ ~(g.interruptPending /\ ~g.delayedCommit)

\* The loop; wrong: which of the branches are mispredicted.
Fetched(g, wrong) ==
  LET n == GroupSize(g)
      last == prog[Ahead(g, n - 1)]
      New(k) == [pos |-> Ahead(g, k - 1), runahead |-> x.on, squashed |-> FALSE,
                 state |-> "wait", redirect |-> FALSE,
                 wrong |-> k \in wrong]
      h == [g EXCEPT !.status = "Running"]
  IN  IF n = 0 THEN h
      ELSE [h EXCEPT !.queue = @ \o [k \in 1..n |-> New(k)], !.fresh = n,
                     !.pc = Ahead(g, n), !.macroop = last.mid, !.delayedCommit = last.mid]

\* Those it may build with a wrong prediction: once commit has been
\* told of one, branches are predicted right.
Mispredictable(g) ==
  {k \in 1..GroupSize(g) : prog[Ahead(g, k - 1)].kind = "branch" /\ ~g.trained}

\* The line fetch asks for in this cycle: for g.pc, before the loop, or
\* pipelined, after it.
Wanted(g, h) ==
  \/ g.status = "Running" /\ ~InBuffer(g, g.pc) /\ ~g.macroop
  \/ /\ MayFetch(g) /\ ~h.macroop
     /\ prog[h.pc].line # h.line

\* Fetch::tick
FetchTick ==
  /\ phase = "fetch" /\ phase' = "walk"
  /\ LET g == CheckInterruptSignals(CheckSignals(f))
     IN  \E wrong \in SUBSET (IF MayFetch(g) THEN Mispredictable(g) ELSE {}) :
           LET h == IF MayFetch(g) THEN Fetched(g, wrong) ELSE g
               ask == Wanted(g, h) /\ CanFetchLine(h)
               dead == sig.squash /\ f.status \in {"ItlbWait", "IcacheWaitResponse"}
               walks == IF dead THEN Dead(tlb) ELSE tlb
           IN  /\ f' = IF ask THEN [h EXCEPT !.status = "ItlbWait"] ELSE h
               /\ tlb' = IF ask THEN walks \cup {[line |-> prog[h.pc].line, live |-> TRUE]}
                         ELSE walks
               /\ icache' = IF dead THEN Dead(icache) ELSE icache
  /\ removed' = (removed \/ (sig.squash /\ f.queue # <<>>))
  /\ removeList' = (removeList \/ (sig.squash /\ f.queue # <<>>))
  /\ sig' = NoSignal
  /\ UNCHANGED <<sc, rob, c, x, raised, drainState, seen>>

\* Fetch::finishTranslation; whether the cache takes the packet.
FinishTranslation(t) ==
  /\ phase = "events" /\ t \in tlb
  /\ tlb' = tlb \ {t}
  /\ IF f.status = "ItlbWait" /\ t.live
     THEN LET g == [f EXCEPT !.line = t.line, !.valid = FALSE]
          IN  \/ /\ f' = [g EXCEPT !.status = "IcacheWaitResponse"]
                 /\ icache' = icache \cup {t}
              \/ /\ f' = [g EXCEPT !.status = "IcacheWaitRetry", !.retryPkt = t.line,
                                   !.cacheBlocked = TRUE]
                 /\ UNCHANGED icache
     ELSE UNCHANGED <<f, icache>>
  /\ UNCHANGED <<phase, sc, rob, c, sig, x, cpuVars>>

\* Mutant: an answer is taken for the one waited for.
ProcessAnyCompletion(q) ==
  /\ phase = "events" /\ q \in icache
  /\ icache' = icache \ {q}
  /\ f' = IF f.status # "IcacheWaitResponse" THEN f
          ELSE [f EXCEPT !.valid = TRUE, !.data = q.line,
                  !.status = IF f.drainStall THEN "Blocked" ELSE "IcacheAccessComplete"]
  /\ UNCHANGED <<phase, sc, tlb, rob, c, sig, x, cpuVars>>

\* Fetch::processCacheCompletion
ProcessCacheCompletion(q) ==
  /\ phase = "events" /\ q \in icache
  /\ icache' = icache \ {q}
  /\ f' = IF f.status # "IcacheWaitResponse" \/ ~q.live THEN f
          ELSE [f EXCEPT !.valid = TRUE, !.data = q.line,
                  !.status = IF f.drainStall THEN "Blocked" ELSE "IcacheAccessComplete"]
  /\ UNCHANGED <<phase, sc, tlb, rob, c, sig, x, cpuVars>>

\* Fetch::recvReqRetry
RecvReqRetry ==
  /\ phase = "events" /\ f.cacheBlocked
  /\ IF f.retryPkt # 0
     THEN /\ f' = [f EXCEPT !.status = "IcacheWaitResponse", !.retryPkt = 0,
                            !.cacheBlocked = FALSE]
          /\ icache' = icache \cup {[line |-> f.retryPkt, live |-> TRUE]}
     ELSE /\ f' = [f EXCEPT !.cacheBlocked = FALSE]
          /\ UNCHANGED icache
  /\ UNCHANGED <<phase, sc, tlb, rob, c, sig, x, cpuVars>>

-----------------------------------------------------------------------------
(* Execution and the outside, between ticks.                               *)

\* A load may miss; the one that caused the last runahead period hits.
Execute(k) ==
  /\ phase = "events" /\ k \in DOMAIN rob
  /\ rob[k].state = "wait" /\ ~rob[k].squashed
  /\ \/ /\ rob' = [rob EXCEPT ![k].state = "done", ![k].redirect = rob[k].wrong]
        /\ x' = IF rob[k].runahead /\ x.on THEN [x EXCEPT !.regs = "runahead"] ELSE x
     \/ /\ prog[rob[k].pos].kind = "load" /\ rob[k].pos # x.warm
        /\ rob' = [rob EXCEPT ![k].state = "sent"]
        /\ UNCHANGED x
  /\ UNCHANGED <<phase, sc, f, tlb, icache, c, sig, cpuVars>>

\* The memory's answer to a load that is still waiting for it.
Respond(k) ==
  /\ phase = "events" /\ k \in DOMAIN rob
  /\ rob[k].state = "sent"
  /\ rob' = [rob EXCEPT ![k].state = "done"]
  /\ UNCHANGED <<phase, sc, f, tlb, icache, c, sig, x, cpuVars>>

\* The load that caused runahead has returned and the exit policy is satisfied.
ExitDue ==
  /\ phase = "events" /\ x.on /\ ~x.exit
  /\ x' = [x EXCEPT !.exit = TRUE]
  /\ UNCHANGED <<phase, sc, f, tlb, icache, rob, c, sig, cpuVars>>

\* Commit::processTrapEvent
ProcessTrapEvent ==
  /\ phase = "events" /\ c.trap = "event"
  /\ c' = [c EXCEPT !.trap = "squash"]
  /\ UNCHANGED <<phase, sc, f, tlb, icache, rob, sig, x, cpuVars>>

\* A device posts an interrupt or withdraws it; a mask has the same effect.
PostInterrupt ==
  /\ phase = "events" /\ sc.interrupts
  /\ raised' = ~raised
  /\ UNCHANGED <<phase, sc, f, tlb, icache, rob, c, sig, x,
                 removed, removeList, drainState, seen>>

\* CPU::drain, of a CPU that is not drained yet, and Commit::drain
Drain ==
  /\ phase = "events" /\ sc.drains /\ drainState = "Running"
  /\ drainState' = "Draining"
  /\ c' = [c EXCEPT !.drainPending = TRUE]
  /\ UNCHANGED <<phase, sc, f, tlb, icache, rob, sig, x, raised, removed, removeList, seen>>

Tick ==
  /\ phase = "events" /\ drainState # "Drained"
  /\ phase' = "fetch"
  /\ UNCHANGED <<sc, f, tlb, icache, rob, c, sig, x, cpuVars>>

-----------------------------------------------------------------------------
(* Commit.                                                                 *)

\* The reorder buffer has finished squashing, or goes on (Commit::tick); then
\* Commit::propagateInterrupt.
Walk ==
  /\ phase = "walk" /\ phase' = "squash"
  /\ LET status == IF c.status = "ROBSquashing" /\ c.walk = 0 THEN "Running" ELSE c.status
         propagate == /\ raised /\ status # "TrapPending" /\ ~c.interrupt
                      /\ c.trap # "squash" /\ ~c.drainImminent
                      /\ ~x.on /\ ~x.restoreNow /\ ~x.restoreNext
     IN  /\ c' = [c EXCEPT !.status = status, !.walk = IF @ = 0 THEN 0 ELSE @ - 1,
                           !.interrupt = @ \/ propagate]
         /\ sig' = [sig EXCEPT !.interrupt = propagate]
  /\ UNCHANGED <<sc, f, tlb, icache, rob, x, cpuVars>>

\* ROB::squash of everything behind the first `keep`; its walk takes some cycles.
SquashBehind(keep) ==
  rob' = [k \in DOMAIN rob |-> [rob[k] EXCEPT !.squashed = @ \/ k > keep, !.redirect = FALSE]]

\* The cycles of the walk after the first.
WalkLength(keep) == IF Len(rob) = keep THEN 0 ELSE (Len(rob) - keep - 1) \div SquashWidth

Redirect(keep, pc, trap) ==
  /\ SquashBehind(keep)
  /\ c' = [c EXCEPT !.status = "ROBSquashing", !.walk = WalkLength(keep), !.trap = trap,
                    !.pc = IF keep = 0 THEN pc ELSE @]
  /\ sig' = [sig EXCEPT !.squash = TRUE, !.pc = pc]
  /\ phase' = "end"

\* The instructions whose squash IEW has sent and that are not squashed.
Redirects == {k \in DOMAIN rob : rob[k].redirect /\ ~rob[k].squashed}

\* Commit::getInsts: some of what has been renamed by now.
GetInsts ==
  \E n \in 0..(Len(f.queue) - f.fresh) :
    /\ n > 0 => Len(rob) + n <= RobSize /\ c.status # "TrapPending"
    /\ rob' = [k \in DOMAIN rob |-> [rob[k] EXCEPT !.redirect = FALSE]]
              \o SubSeq(f.queue, 1, n)
    /\ f' = [f EXCEPT !.queue = SubSeq(@, n + 1, Len(@))]

\* The choice of one squash in Commit::commit, and the instructions from rename.
Squash ==
  /\ phase = "squash"
  /\ \/ /\ \/ c.trap = "squash"                   \* squashFromTrap
           \/ c.status = "SquashAfterPending"     \* squashFromSquashAfter
        /\ Redirect(0, c.pc, IF c.trap = "squash" THEN "none" ELSE c.trap)
        /\ UNCHANGED <<f, x>>
     \/ /\ c.trap # "squash" /\ c.status # "SquashAfterPending" /\ x.exit
        /\ Redirect(0, x.storedPc, "none")        \* squashFromRunaheadExit
        /\ x' = [x EXCEPT !.on = FALSE, !.exit = FALSE, !.restoreNext = TRUE,
                          !.warm = x.storedPc]
        /\ UNCHANGED f
     \/ /\ c.trap # "squash" /\ c.status # "SquashAfterPending" /\ ~x.exit
        /\ \/ /\ Redirects # {} /\ c.status # "TrapPending"   \* from IEW
              /\ LET k == Min(Redirects) IN Redirect(k, Succ(rob[k].pos), c.trap)
              /\ f' = [f EXCEPT !.trained = TRUE]
           \/ /\ Redirects = {} \/ c.status = "TrapPending"
              /\ IF c.status = "ROBSquashing"
                 THEN phase' = "end" /\ UNCHANGED <<rob, f>>
                 ELSE phase' = "insts" /\ GetInsts
              /\ UNCHANGED <<c, sig>>
        /\ UNCHANGED x
  /\ UNCHANGED <<sc, tlb, icache, cpuVars>>

\* Mutant: the registers of runahead are no hazard.
NoRunaheadHazard == FALSE

\* runaheadHazard in Commit::handleInterrupt
RunaheadHazard == x.on \/ x.restoreNext \/ x.restoreNow

CanTakeInterrupt == c.canHandleInterrupts /\ ~RunaheadHazard /\ InstListEmpty

\* An iteration of commitInsts's loop begins, with Commit::handleInterrupt first.
InLoop == phase = "insts" /\ c.n < CommitWidth

\* Mutant: fetch is not told that the interrupt has gone.
ClearInterruptQuietly ==
  /\ InLoop /\ c.interrupt /\ ~raised
  /\ c' = [c EXCEPT !.interrupt = FALSE, !.avoidQuiesceLiveLock = TRUE]
  /\ UNCHANGED <<phase, sc, f, tlb, icache, rob, sig, x, cpuVars>>

ClearInterrupt ==
  /\ InLoop /\ c.interrupt /\ ~raised
  /\ c' = [c EXCEPT !.interrupt = FALSE, !.avoidQuiesceLiveLock = TRUE]
  /\ sig' = [sig EXCEPT !.clear = TRUE]
  /\ UNCHANGED <<phase, sc, f, tlb, icache, rob, x, cpuVars>>

\* The interrupt is taken, with CPU::processInterrupts; the loop ends, for lack
\* of instructions.
TakeInterrupt ==
  /\ InLoop /\ c.interrupt /\ raised /\ CanTakeInterrupt
  /\ c' = [c EXCEPT !.interrupt = FALSE, !.avoidQuiesceLiveLock = FALSE,
                    !.status = "TrapPending", !.trap = "event"]
  /\ sig' = [sig EXCEPT !.clear = TRUE]
  /\ raised' = FALSE
  /\ seen' = [pc |-> c.pc, regs |-> x.regs]
  /\ phase' = "end"
  /\ UNCHANGED <<sc, f, tlb, icache, rob, x, removed, removeList, drainState>>

\* The head of the reorder buffer is looked at.
AtHead ==
  /\ InLoop /\ c.status = "Running" /\ rob # <<>>
  /\ ~(c.interrupt /\ (~raised \/ CanTakeInterrupt))

LiveHead(state) ==
  rob # <<>> /\ ~Head(rob).squashed /\ Head(rob).state = state
HeadOp == prog[Head(rob).pos]

RetireSquashed ==
  /\ AtHead /\ Head(rob).squashed
  /\ rob' = Tail(rob)
  /\ removed' = TRUE /\ removeList' = TRUE
  /\ UNCHANGED <<phase, sc, f, tlb, icache, c, sig, x, raised, drainState, seen>>

\* An instruction is retired or pseudoretired.  Draining stalls fetch and squashes
\* what follows; so does an interrupt that was withdrawn before and is back.
CommitHead ==
  /\ AtHead /\ LiveHead("done") /\ HeadOp.kind # "fault"
  /\ LET next == Succ(Head(rob).pos)
         drained == /\ c.drainPending /\ Boundary(next)
                    /\ ~c.interrupt /\ c.trap = "none"
         back == /\ ~c.interrupt /\ c.avoidQuiesceLiveLock /\ ~HeadOp.mid /\ raised
     IN  /\ c' = [c EXCEPT !.pc = next, !.n = @ + 1, !.canHandleInterrupts = ~HeadOp.mid,
                           !.status = IF drained \/ back THEN "SquashAfterPending" ELSE @,
                           !.drainImminent = @ \/ drained]
         /\ f' = [f EXCEPT !.drainStall = @ \/ drained]
  /\ x' = IF ~x.on /\ x.warm = Head(rob).pos
          THEN [x EXCEPT !.warm = 0] ELSE x
  /\ rob' = Tail(rob)
  /\ removed' = TRUE /\ removeList' = TRUE
  /\ UNCHANGED <<phase, sc, tlb, icache, sig, raised, drainState, seen>>

\* A fault traps, as the first of a cycle; its handler returns behind it.
TrapHead ==
  /\ AtHead /\ LiveHead("done") /\ HeadOp.kind = "fault" /\ ~Head(rob).runahead /\ c.n = 0
  /\ c' = [c EXCEPT !.status = "TrapPending", !.trap = "event", !.pc = Succ(@)]
  /\ phase' = "end"
  /\ UNCHANGED <<sc, f, tlb, icache, rob, sig, x, cpuVars>>

\* CPU::enterRunahead; its policy may refuse.
EnterRunahead ==
  /\ AtHead /\ LiveHead("sent") /\ ~x.on
  /\ x' = [x EXCEPT !.on = TRUE, !.storedPc = c.pc, !.regs = "runahead"]
  /\ rob' = [k \in DOMAIN rob |->
               [rob[k] EXCEPT !.runahead = TRUE, !.state = IF k = 1 THEN "done" ELSE @]]
  /\ f' = [f EXCEPT !.queue = [k \in DOMAIN @ |-> [@[k] EXCEPT !.runahead = TRUE]]]
  /\ phase' = "end"
  /\ UNCHANGED <<sc, tlb, icache, c, sig, cpuVars>>

\* A load that misses in runahead: CPU::handleRunaheadLLL.
PoisonRunaheadLLL ==
  /\ AtHead /\ LiveHead("sent") /\ x.on
  /\ rob' = [rob EXCEPT ![1].state = "done"]
  /\ phase' = "end"
  /\ UNCHANGED <<sc, f, tlb, icache, c, sig, x, cpuVars>>

\* The loop ends with nothing else to do; a fault in runahead is ignored.
StopCommit ==
  /\ phase = "insts" /\ phase' = "end"
  /\ \/ c.n = CommitWidth
     \/ /\ ~(c.interrupt /\ (~raised \/ CanTakeInterrupt))
        /\ \/ c.status # "Running" \/ rob = <<>>
           \/ LiveHead("wait")
           \/ LiveHead("sent") /\ ~x.on
           \/ LiveHead("done") /\ HeadOp.kind = "fault" /\ (Head(rob).runahead \/ c.n > 0)
  /\ UNCHANGED <<sc, f, tlb, icache, rob, c, sig, x, cpuVars>>

-----------------------------------------------------------------------------
\* CPU::isCpuDrained
IsEmpty ==
  /\ rob = <<>> /\ f.queue = <<>> /\ f.status = "Blocked" /\ f.drainStall
  /\ Boundary(c.pc) /\ ~c.interrupt

IsCpuDrained == IsEmpty /\ ~removeList

\* Commit::updateRunaheadState, the time buffers, cleanUpRemovedInsts (which does
\* not empty removeList) and tryDrain.
EndOfTick ==
  /\ phase = "end" /\ phase' = "events"
  /\ x' = [x EXCEPT !.restoreNow = x.restoreNext, !.restoreNext = FALSE,
                    !.regs = IF x.restoreNow THEN "arch" ELSE @]
  /\ removed' = FALSE
  /\ c' = [c EXCEPT !.n = 0]
  /\ f' = [f EXCEPT !.fresh = 0]
  /\ drainState' = IF drainState = "Draining" /\ IsCpuDrained THEN "Drained" ELSE drainState
  /\ seen' = Nobody
  /\ UNCHANGED <<sc, tlb, icache, rob, sig, raised, removeList>>

Commit ==
  Walk \/ Squash \/ ClearInterrupt \/ TakeInterrupt \/ RetireSquashed \/ CommitHead
    \/ TrapHead \/ EnterRunahead \/ PoisonRunaheadLLL \/ StopCommit

Answer ==
  \/ \E t \in tlb : FinishTranslation(t)
  \/ \E q \in icache : ProcessCacheCompletion(q)
  \/ RecvReqRetry

Next ==
  \/ Tick \/ FetchTick \/ Commit \/ EndOfTick
  \/ Answer
  \/ \E k \in DOMAIN rob : Execute(k) \/ Respond(k)
  \/ ExitDue \/ ProcessTrapEvent \/ PostInterrupt \/ Drain

Spec == Init /\ [][Next]_vars

\* Cycles go on; the load that caused a runahead period returns; and what the
\* pipeline waits for comes in the end, if only because nothing else is left: the
\* memory answers, the units finish, the trap event fires, rename delivers.
Fairness ==
  /\ WF_vars(Tick \/ FetchTick \/ Commit \/ EndOfTick)
  /\ SF_vars(ExitDue)
  /\ SF_vars(\/ Answer \/ Execute(1) \/ Respond(1) \/ ProcessTrapEvent
             \/ Squash /\ Len(rob') > Len(rob))

FairSpec == Spec /\ Fairness

-----------------------------------------------------------------------------
(* Properties.                                                             *)

\* Types, and three assertions of the code: a packet is kept for a retry only in
\* the state that waits for it (fetch.cc:1451); the buffer holds the line it is
\* said to hold; commit drains one instruction only, so that fetch is told to
\* stall once (fetch.cc:488).
FetchSound ==
  /\ f.status \in {"Running", "Squashing", "Blocked", "ItlbWait", "IcacheWaitResponse",
                   "IcacheWaitRetry", "IcacheAccessComplete"}
  /\ f.pc \in Pos /\ c.pc \in Pos /\ Len(f.queue) <= QueueSize /\ Len(rob) <= RobSize
  /\ c.status \in {"Running", "ROBSquashing", "TrapPending", "SquashAfterPending"}
  /\ f.retryPkt # 0 => f.status = "IcacheWaitRetry" /\ f.cacheBlocked
  /\ f.valid => f.data = f.line
  /\ c.drainImminent /\ c.status = "Running" =>
       f.queue = <<>> /\ \A k \in DOMAIN rob : rob[k].squashed

\* The pipeline has drained but for removeList.
Halted ==
  /\ IsEmpty /\ c.status = "Running"
  /\ ~x.on /\ ~x.restoreNext /\ ~x.restoreNow

\* To the outside the CPU is a PreciseMachine: interrupts are taken, and the CPU
\* drains, between two instructions of the program, with its registers, and inside
\* a macro-op never but for an interrupt where a runahead period has gone back to:
\* canHandleInterrupts is only assigned where an instruction retires (commit.cc:1440),
\* pseudoretires included, and is not taken back at the exit.
Precise == INSTANCE PreciseMachine WITH
  pc <- IF x.on THEN x.storedPc ELSE c.pc,
  back <- x.warm,
  halted <- Halted,
  seen <- IF Halted THEN [pc |-> f.pc, regs |-> x.regs] ELSE seen

PreciseStates == Precise!Spec

\* An interrupt that stays posted is taken, unless draining shuts it out, and a
\* drain request empties the pipeline if no interrupt comes in between.  The latter
\* is asked of programs in which the loads that may miss begin their macro-ops: an
\* instruction that pseudoretires can be the one commit drains at (commit.cc:1475),
\* fetch is told to stall, and if the exit then goes back into a macro-op, the rest
\* of it is never fetched and microPC stays off 0.
Settles ==
  /\ (raised /\ drainState = "Running") ~> (~raised \/ drainState # "Running")
  /\ (drainState = "Draining") ~> (Halted \/ raised)

\* "The pipeline will be drained once all in-flight instructions have retired"
\* (CPU::drain).
DrainCompletes == Halted ~> drainState = "Drained"
=============================================================================
