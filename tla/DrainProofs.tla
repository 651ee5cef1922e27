---------------------------- MODULE DrainProofs ----------------------------
(***************************************************************************)
(* What fetch may rely on, and what an interrupt or a drained CPU shows of *)
(* the program, for every program, width and buffer size.                  *)
(***************************************************************************)
EXTENDS DrainInvariant, TLAPS, SequenceTheorems, WellFoundedInduction

-----------------------------------------------------------------------------
(* Programs and sequences.                                                 *)

\* The program, and the positions in it.
LEMMA ProgramFacts ==
  ASSUME sc \in Scenarios
  PROVE  /\ prog \in Seq(Op) /\ Len(prog) \in Nat \ {0} /\ Pos = 1..Len(prog)
         /\ \A p \in Pos : prog[p] \in Op
         /\ \A p \in Pos : Succ(p) \in Pos /\ Pred(p) \in Pos /\ Pred(Succ(p)) = p
         /\ 1 \in Pos /\ Boundary(1)
         /\ \A p \in Pos : prog[p].kind = "fault" => ~prog[p].mid
<1>1. prog \in Program
  BY DrainScenarioAssumption DEF Scenario, prog
<1>2. prog \in Seq(Op) /\ prog # <<>> /\ ~prog[Len(prog)].mid
  BY <1>1 DEF Program
<1>3. \A p \in DOMAIN prog : prog[p].kind = "fault" => ~prog[p].mid
  BY <1>1 DEF Program
<1>4. Len(prog) \in Nat \ {0} /\ Pos = 1..Len(prog) /\ \A p \in Pos : prog[p] \in Op
  BY <1>2 DEF Pos
<1>5. 1 \in Pos /\ Boundary(1)
  BY <1>2, <1>4 DEF Boundary, Pred
<1>6. \A p \in Pos : Succ(p) \in Pos /\ Pred(p) \in Pos /\ Pred(Succ(p)) = p
  BY <1>4 DEF Succ, Pred
<1> QED BY <1>2, <1>3, <1>4, <1>5, <1>6 DEF Pos

\* A number bounded set of numbers with 0 in it has a maximum.
LEMMA MaxInSet ==
  ASSUME NEW n \in Nat, NEW W \in SUBSET (0..n), 0 \in W
  PROVE  Max(W) \in W
<1> DEFINE R == OpToRel(<, Nat)
           T == {n - k : k \in W}
<1>1. T \subseteq Nat /\ n \in T
  OBVIOUS
<1>2. \E m \in T : \A y \in T : ~(<<y, m>> \in R)
  <2> HIDE DEF T, R
  <2>1. IsWellFoundedOn(R, Nat)
    BY NatLessThanWellFounded DEF R
  <2>2. T # {}
    BY <1>1
  <2> QED BY <1>1, <2>1, <2>2, WFMin
<1>3. PICK m \in T : \A y \in T : ~(<<y, m>> \in R)
  BY <1>2
<1>4. \A y \in T : m <= y
  <2> HIDE DEF T
  <2> TAKE y \in T
  <2>1. m \in Nat /\ y \in Nat /\ ~(<<y, m>> \in R)
    BY <1>1, <1>3
  <2> QED BY <2>1 DEF R, OpToRel
<1>5. \E k \in W : \A j \in W : k >= j
  <2>1. PICK k \in W : m = n - k
    OBVIOUS
  <2>2. ASSUME NEW j \in W PROVE k >= j
    <3>1. n - k <= n - j
      BY <1>4, <2>1
    <3> QED BY <3>1
  <2> QED BY <2>2
<1> QED BY <1>5 DEF Max

\* The sets of states stay the same.
LEMMA SameSets ==
  ASSUME sc' = sc
  PROVE  /\ prog' = prog /\ Pos' = Pos /\ Inst' = Inst
         /\ FetchState' = FetchState /\ CommitState' = CommitState
         /\ Signal' = Signal /\ Mode' = Mode
BY DEF prog, Pos, Inst, FetchState, CommitState, Signal, Mode

LEMMA FetchFields ==
  ASSUME NEW g \in FetchState
  PROVE  /\ g.status \in FetchStatuses /\ g.pc \in Pos /\ g.macroop \in BOOLEAN
         /\ g.line \in Nat /\ g.valid \in BOOLEAN /\ g.data \in Nat /\ g.retryPkt \in Nat
         /\ g.cacheBlocked \in BOOLEAN /\ g.drainStall \in BOOLEAN
         /\ g.interruptPending \in BOOLEAN /\ g.delayedCommit \in BOOLEAN
         /\ g.queue \in Seq(Inst) /\ g.fresh \in Nat /\ g.trained \in BOOLEAN
BY DEF FetchState

LEMMA CommitFields ==
  ASSUME NEW d \in CommitState
  PROVE  /\ d.status \in {"Running", "ROBSquashing", "TrapPending", "SquashAfterPending"}
         /\ d.pc \in Pos /\ d.walk \in Int /\ d.canHandleInterrupts \in BOOLEAN
         /\ d.interrupt \in BOOLEAN /\ d.avoidQuiesceLiveLock \in BOOLEAN
         /\ d.trap \in {"none", "event", "squash"} /\ d.drainPending \in BOOLEAN
         /\ d.drainImminent \in BOOLEAN /\ d.n \in Nat
BY DEF CommitState

LEMMA InstFields ==
  ASSUME NEW i \in Inst
  PROVE  /\ i.pos \in Pos /\ i.runahead \in BOOLEAN /\ i.squashed \in BOOLEAN
         /\ i.state \in {"wait", "sent", "done"} /\ i.redirect \in BOOLEAN
         /\ i.wrong \in BOOLEAN
BY DEF Inst

\* A sequence whose instructions are changed one by one.
LEMMA EachInst ==
  ASSUME NEW s \in Seq(Inst), NEW t, DOMAIN t = DOMAIN s, t = [k \in DOMAIN s |-> t[k]],
         \A k \in DOMAIN s : t[k] \in Inst
  PROVE  t \in Seq(Inst) /\ Len(t) = Len(s)
<1>1. DOMAIN s = 1..Len(s) /\ Len(s) \in Nat
  OBVIOUS
<1>2. t \in [1..Len(s) -> Inst]
  BY <1>1
<1> QED BY <1>1, <1>2

-----------------------------------------------------------------------------
(* What Fetch::tick does.                                                   *)

Checked == CheckInterruptSignals(CheckSignals(f))

\* Signals: a squash clears fetch; without one it goes on as it was, or is held
\* back by a drain.
LEMMA CheckedFacts ==
  ASSUME f \in FetchState, sig \in Signal
  PROVE  /\ Checked \in FetchState
         /\ Checked.line = f.line /\ Checked.valid = f.valid /\ Checked.data = f.data
         /\ Checked.cacheBlocked = f.cacheBlocked /\ Checked.drainStall = f.drainStall
         /\ Checked.fresh = f.fresh
         /\ sig.squash => /\ Checked.pc = sig.pc /\ Checked.queue = <<>>
                          /\ Checked.status = "Squashing" /\ Checked.retryPkt = 0
         /\ ~sig.squash => /\ Checked.pc = f.pc /\ Checked.queue = f.queue
                           /\ Checked.retryPkt = f.retryPkt
                           /\ Checked.status \in {f.status, "Blocked", "Running"}
                           /\ f.status \in Waiting => Checked.status = f.status
                           /\ f.drainStall /\ f.status \notin Waiting =>
                                Checked.status = "Blocked"
<1> DEFINE h == CheckSignals(f)
<1>1. sig.squash \in BOOLEAN /\ sig.pc \in Pos /\ sig.interrupt \in BOOLEAN
      /\ sig.clear \in BOOLEAN
  BY DEF Signal
<1>2. CASE sig.squash
  <2>1. h = DoSquash(f)
    BY <1>2 DEF CheckSignals
  <2>2. DoSquash(f) \in FetchState
    <3>1. <<>> \in Seq(Inst)
      OBVIOUS
    <3>2. "Squashing" \in FetchStatuses
      BY DEF FetchStatuses
    <3> QED BY <1>1, <3>1, <3>2 DEF DoSquash, FetchState
  <2>3. h \in FetchState /\ h.pc = sig.pc /\ h.queue = <<>> /\ h.status = "Squashing"
        /\ h.retryPkt = 0 /\ h.line = f.line /\ h.valid = f.valid /\ h.data = f.data
        /\ h.cacheBlocked = f.cacheBlocked /\ h.drainStall = f.drainStall
        /\ h.fresh = f.fresh
    BY <2>1, <2>2 DEF DoSquash, FetchState
  <2>4. Checked = CheckInterruptSignals(h)
    BY DEF Checked
  <2> HIDE DEF h
  <2> QED BY <1>1, <1>2, <2>3, <2>4 DEF CheckInterruptSignals, FetchState
<1>3. CASE ~sig.squash
  <2>1. PICK st : /\ h = [f EXCEPT !.status = st] /\ st \in {f.status, "Blocked", "Running"}
                  /\ f.status \in Waiting => st = f.status
                  /\ f.drainStall /\ f.status \notin Waiting => st = "Blocked"
    <3> DEFINE st == IF f.drainStall /\ f.status \notin Waiting THEN "Blocked"
                     ELSE IF f.status \in {"Blocked", "Squashing"} THEN "Running"
                     ELSE f.status
    <3>1. h = [f EXCEPT !.status = st]
      BY <1>3 DEF CheckSignals
    <3>2. /\ st \in {f.status, "Blocked", "Running"}
          /\ f.status \in Waiting => st = f.status
          /\ f.drainStall /\ f.status \notin Waiting => st = "Blocked"
      BY DEF Waiting
    <3> HIDE DEF st, h
    <3> QED BY <3>1, <3>2
  <2>2. st \in FetchStatuses
    BY <2>1 DEF FetchState, FetchStatuses
  <2>3. h \in FetchState /\ h.pc = f.pc /\ h.queue = f.queue /\ h.status = st
        /\ h.retryPkt = f.retryPkt /\ h.line = f.line /\ h.valid = f.valid
        /\ h.data = f.data /\ h.cacheBlocked = f.cacheBlocked
        /\ h.drainStall = f.drainStall /\ h.fresh = f.fresh
    <3> HIDE DEF h
    <3> QED BY <2>1, <2>2 DEF FetchState
  <2>4. Checked = CheckInterruptSignals(h)
    BY DEF Checked
  <2> HIDE DEF h
  <2> QED BY ZenonT(60), <1>1, <1>3, <2>1, <2>3, <2>4 DEF CheckInterruptSignals, FetchState
<1> QED BY <1>1, <1>2, <1>3

\* The loop fits the program and the queue.
LEMMA GroupFits ==
  ASSUME NEW g \in FetchState, sc \in Scenarios, Len(g.queue) <= QueueSize
  PROVE  /\ GroupSize(g) \in Nat /\ GroupSize(g) <= QueueSize - Len(g.queue)
         /\ g.pc + GroupSize(g) <= Len(prog) + 1
<1> DEFINE W == {n \in 0..FetchWidth :
                  /\ n <= QueueSize - Len(g.queue)
                  /\ g.pc + n <= Len(prog) + 1
                  /\ \A k \in 0..(n - 1) :
                       \/ InBuffer(g, Ahead(g, k))
                       \/ IF k = 0 THEN g.macroop ELSE prog[Ahead(g, k - 1)].mid}
<1>1. g.pc \in Pos /\ Len(g.queue) \in Nat /\ Pos = 1..Len(prog) /\ Len(prog) \in Nat
  BY FetchFields, ProgramFacts
<1>2. FetchWidth \in Nat /\ QueueSize \in Nat
  BY WidthAssumption
<1>3. W \in SUBSET (0..FetchWidth)
  OBVIOUS
<1>4. 0 \in W
  BY <1>1, <1>2
<1>5. GroupSize(g) = Max(W)
  BY DEF GroupSize
<1>6. GroupSize(g) \in W
  <2> HIDE DEF W
  <2> QED BY <1>2, <1>3, <1>4, <1>5, MaxInSet
<1> QED BY <1>2, <1>6

\* What is built follows the program from where fetch is.
Follows(s, from, to) ==
  /\ s = <<>> => to = from
  /\ s # <<>> => s[1].pos = from /\ to = Succ(s[Len(s)].pos)
  /\ \A k \in 1..(Len(s) - 1) : s[k + 1].pos = Succ(s[k].pos)

\* Fetch builds live instructions of the mode, in program order.
LEMMA FetchedFacts ==
  ASSUME NEW g \in FetchState, NEW wrong, sc \in Scenarios, x.on \in BOOLEAN,
         Len(g.queue) <= QueueSize
  PROVE  \E s \in Seq(Inst) :
           /\ Fetched(g, wrong) \in FetchState
           /\ Fetched(g, wrong).queue = g.queue \o s
           /\ Len(g.queue \o s) <= QueueSize
           /\ \A k \in DOMAIN s : /\ ~s[k].squashed /\ s[k].state = "wait"
                                  /\ s[k].runahead = x.on
           /\ Follows(s, g.pc, Fetched(g, wrong).pc)
           /\ Fetched(g, wrong).status = "Running"
           /\ Fetched(g, wrong).line = g.line /\ Fetched(g, wrong).valid = g.valid
           /\ Fetched(g, wrong).data = g.data /\ Fetched(g, wrong).retryPkt = g.retryPkt
           /\ Fetched(g, wrong).cacheBlocked = g.cacheBlocked
           /\ Fetched(g, wrong).drainStall = g.drainStall
<1> DEFINE n == GroupSize(g)
           last == prog[Ahead(g, n - 1)]
           New(k) == [pos |-> Ahead(g, k - 1), runahead |-> x.on, squashed |-> FALSE,
                      state |-> "wait", redirect |-> FALSE, wrong |-> k \in wrong]
           h == [g EXCEPT !.status = "Running"]
           s == [k \in 1..n |-> New(k)]
           r == Fetched(g, wrong)
<1>1. /\ g.status \in FetchStatuses /\ g.pc \in Pos /\ g.macroop \in BOOLEAN
      /\ g.queue \in Seq(Inst) /\ g.fresh \in Nat
  BY FetchFields
<1>2. n \in Nat /\ n <= QueueSize - Len(g.queue) /\ g.pc + n <= Len(prog) + 1
  BY GroupFits
<1>3. /\ Pos = 1..Len(prog) /\ Len(prog) \in Nat \ {0} /\ \A p \in Pos : prog[p] \in Op
      /\ 1 \in Pos
  BY ProgramFacts
<1>4. h \in FetchState /\ h.queue = g.queue /\ h.pc = g.pc /\ h.status = "Running"
      /\ h.line = g.line /\ h.valid = g.valid /\ h.data = g.data
      /\ h.retryPkt = g.retryPkt /\ h.cacheBlocked = g.cacheBlocked
      /\ h.drainStall = g.drainStall
  BY DEF FetchState, FetchStatuses
<1>5. CASE n = 0
  <2>1. r = h
    BY <1>5 DEF Fetched
  <2>2. <<>> \in Seq(Inst) /\ g.queue \o <<>> = g.queue
    BY <1>1
  <2>3. Follows(<<>>, g.pc, h.pc)
    BY <1>4 DEF Follows
  <2>4. Len(g.queue) <= QueueSize
    OBVIOUS
  <2> HIDE DEF n, h, r
  <2> WITNESS <<>> \in Seq(Inst)
  <2> QED BY <1>4, <2>1, <2>2, <2>3, <2>4 DEF r
<1>6. CASE n # 0
  <2>0. /\ g.pc \in 1..Len(prog) /\ Len(prog) \in Nat /\ n \in Nat
        /\ g.pc + n <= Len(prog) + 1
    BY <1>1, <1>2, <1>3
  <2>1. \A k \in 0..n : Ahead(g, k) \in Pos
    <3> HIDE DEF n
    <3>1. \A k \in 0..n : Ahead(g, k) \in 1..Len(prog)
      BY <2>0 DEF Ahead
    <3> QED BY <1>3, <3>1
  <2>2. \A k \in 0..(n - 1) : Ahead(g, k) = g.pc + k /\ Ahead(g, k + 1) = Succ(Ahead(g, k))
    <3> HIDE DEF n
    <3> QED BY SMTT(60), <2>0 DEF Ahead, Succ
  <2>3. s \in Seq(Inst) /\ Len(s) = n
    <3>1. \A k \in 1..n : New(k) \in Inst
      BY <1>2, <2>1 DEF Inst
    <3> HIDE DEF New
    <3> QED BY <1>2, <3>1
  <2>4. \A k \in 1..n : s[k].pos = Ahead(g, k - 1) /\ ~s[k].squashed
                        /\ s[k].state = "wait" /\ s[k].runahead = x.on
    BY <1>2
  <2>5. r = [h EXCEPT !.queue = @ \o s, !.fresh = n,
                      !.pc = Ahead(g, n), !.macroop = last.mid, !.delayedCommit = last.mid]
    BY <1>6 DEF Fetched
  <2>6. last.mid \in BOOLEAN
    BY <1>2, <1>3, <1>6, <2>1 DEF Op
  <2>7. Ahead(g, n) \in Pos
    BY <1>2, <2>1
  <2>8. g.queue \o s \in Seq(Inst) /\ Len(g.queue \o s) = Len(g.queue) + n
    <3> HIDE DEF s, n
    <3> QED BY <1>1, <2>3, ConcatProperties
  <2>9. Len(g.queue \o s) <= QueueSize
    BY <1>1, <1>2, <2>8, WidthAssumption
  <2>10. Follows(s, g.pc, Ahead(g, n))
    <3>1. s # <<>> /\ s[1].pos = g.pc
      BY <1>2, <1>6, <2>2, <2>3, <2>4, <1>1, <1>3
    <3>2. Ahead(g, n) = Succ(s[Len(s)].pos)
      <4>1. n - 1 \in 0..(n - 1) /\ n \in 1..n /\ (n - 1) + 1 = n
        BY <1>2, <1>6
      <4> QED BY <2>2, <2>3, <2>4, <4>1
    <3>3. ASSUME NEW k \in 1..(Len(s) - 1) PROVE s[k + 1].pos = Succ(s[k].pos)
      <4>1. k \in 1..n /\ k + 1 \in 1..n /\ k - 1 \in 0..(n - 1) /\ (k - 1) + 1 = k
            /\ (k + 1) - 1 = k
        BY <1>2, <2>3, <3>3
      <4> QED BY <2>2, <2>4, <4>1
    <3> HIDE DEF s
    <3> QED BY <3>1, <3>2, <3>3 DEF Follows
  <2> HIDE DEF h, n, s, last
  <2>11. r \in FetchState /\ r.queue = g.queue \o s /\ r.pc = Ahead(g, n)
         /\ r.status = "Running" /\ r.line = g.line /\ r.valid = g.valid
         /\ r.data = g.data /\ r.retryPkt = g.retryPkt
         /\ r.cacheBlocked = g.cacheBlocked /\ r.drainStall = g.drainStall
    <3> HIDE DEF r
    <3> QED BY <1>2, <1>4, <2>5, <2>6, <2>7, <2>8 DEF FetchState
  <2>12. \A k \in DOMAIN s : ~s[k].squashed /\ s[k].state = "wait" /\ s[k].runahead = x.on
    BY <2>3, <2>4
  <2>13. Follows(s, g.pc, r.pc)
    BY <2>10, <2>11
  <2> HIDE DEF r
  <2> QED BY <2>3, <2>9, <2>11, <2>12, <2>13 DEF r
<1> QED BY <1>5, <1>6

-----------------------------------------------------------------------------
(* FetchInv, action by action.                                              *)

\* What the rest of FetchInv' asks when instructions, fetch and its accesses are
\* as they were.
LEMMA CommitOnly ==
  ASSUME FetchInv, UNCHANGED <<sc, f, tlb, icache, rob>>,
         phase' \in Phases, c' \in CommitState, sig' \in Signal, x' \in Mode,
         TrapPaired', SquashHeard', x'.on => x.on, sig'.squash = sig.squash,
         c'.drainImminent = c.drainImminent, c'.drainImminent => ~c'.interrupt,
         c'.status = c.status
  PROVE  FetchInv'
<1>1. Types'
  BY SameSets DEF FetchInv, Types
<1>2. OneAccess'
  BY DEF FetchInv, OneAccess
<1>3. InstsSound'
  BY SameSets DEF FetchInv, InstsSound
<1>4. DrainStops'
  BY DEF FetchInv, DrainStops
<1> QED BY <1>1, <1>2, <1>3, <1>4 DEF FetchInv

LEMMA QuietFetch ==
  ASSUME FetchInv,
         Tick \/ PostInterrupt \/ Drain \/ ProcessTrapEvent \/ ExitDue \/ ClearInterrupt
           \/ StopCommit
  PROVE  FetchInv'
<1>1. /\ UNCHANGED <<sc, f, tlb, icache, rob>>
      /\ phase' = phase \/ (phase = "events" /\ phase' = "fetch")
                        \/ (phase = "insts" /\ phase' = "end")
      /\ c' = c \/ c' = [c EXCEPT !.drainPending = TRUE]
                \/ (c.trap = "event" /\ c' = [c EXCEPT !.trap = "squash"])
                \/ c' = [c EXCEPT !.interrupt = FALSE, !.avoidQuiesceLiveLock = TRUE]
      /\ sig' = sig \/ sig' = [sig EXCEPT !.clear = TRUE]
      /\ x' = x \/ (x.on /\ x' = [x EXCEPT !.exit = TRUE])
  BY DEF Tick, PostInterrupt, Drain, ProcessTrapEvent, ExitDue, ClearInterrupt, InLoop,
         StopCommit, cpuVars
<1>2. phase \in Phases /\ c \in CommitState /\ sig \in Signal /\ x \in Mode
  BY DEF FetchInv, Types
<1>3. /\ c' \in CommitState /\ c'.status = c.status /\ c'.drainImminent = c.drainImminent
      /\ c.trap = "none" <=> c'.trap = "none"
      /\ c'.interrupt => c.interrupt
  BY <1>1, <1>2 DEF CommitState
<1>4. sig' \in Signal /\ sig'.squash = sig.squash
  BY <1>1, <1>2 DEF Signal
<1>5. x' \in Mode /\ x'.on = x.on /\ (x'.exit => x.exit \/ x.on)
  BY <1>1, <1>2 DEF Mode
<1>6. phase' \in Phases
  BY <1>1, <1>2 DEF Phases
<1>7. TrapPaired' /\ SquashHeard'
  BY <1>1, <1>3, <1>4, <1>5 DEF FetchInv, TrapPaired, SquashHeard
<1>8. c'.drainImminent => ~c'.interrupt
  BY <1>3 DEF FetchInv, DrainStops
<1> QED BY <1>1, <1>3, <1>4, <1>5, <1>6, <1>7, <1>8, CommitOnly

\* What the rest of FetchInv' asks when only fetch's accesses change.
LEMMA AccessOnly ==
  ASSUME FetchInv, UNCHANGED <<phase, sc, rob, c, sig, x>>,
         f' \in FetchState, f'.queue = f.queue, f'.drainStall = f.drainStall,
         tlb' \subseteq Request, icache' \subseteq Request, OneAccess'
  PROVE  FetchInv'
<1>1. Types'
  BY SameSets DEF FetchInv, Types
<1>2. InstsSound'
  BY SameSets DEF FetchInv, InstsSound
<1>3. TrapPaired' /\ SquashHeard'
  BY DEF FetchInv, TrapPaired, SquashHeard
<1>4. DrainStops'
  BY DEF FetchInv, DrainStops
<1> QED BY <1>1, <1>2, <1>3, <1>4 DEF FetchInv

LEMMA AnswerFetch ==
  ASSUME FetchInv, Answer
  PROVE  FetchInv'
<1>1. f \in FetchState /\ tlb \subseteq Request /\ icache \subseteq Request /\ OneAccess
  BY DEF FetchInv, Types
<1>2. CASE \E t \in tlb : FinishTranslation(t)
  <2>1. PICK t \in tlb : FinishTranslation(t)
    BY <1>2
  <2>2. UNCHANGED <<phase, sc, rob, c, sig, x>> /\ tlb' = tlb \ {t}
    BY <2>1 DEF FinishTranslation
  <2>3. t.line \in Nat /\ t.line # 0 /\ t.live \in BOOLEAN /\ t \in Request
    BY <1>1 DEF Request
  <2>4. CASE f.status = "ItlbWait" /\ t.live
    <3> DEFINE g == [f EXCEPT !.line = t.line, !.valid = FALSE]
    <3>1. \A q \in icache : ~q.live
      BY <1>1, <2>4 DEF OneAccess
    <3>2. f.retryPkt = 0
      BY <1>1, <2>4 DEF OneAccess
    <3>3. \/ /\ f' = [g EXCEPT !.status = "IcacheWaitResponse"]
             /\ icache' = icache \cup {t}
          \/ /\ f' = [g EXCEPT !.status = "IcacheWaitRetry", !.retryPkt = t.line,
                               !.cacheBlocked = TRUE]
             /\ icache' = icache
      BY <2>1, <2>4 DEF FinishTranslation
    <3>4. f' \in FetchState /\ f'.queue = f.queue /\ f'.drainStall = f.drainStall
      BY ZenonT(60), <1>1, <2>3, <3>3 DEF FetchState, FetchStatuses, Waiting
    <3>5. f'.line = t.line /\ ~f'.valid
      BY <1>1, <3>3 DEF FetchState
    <3>6. \/ f'.status = "IcacheWaitResponse" /\ f'.retryPkt = 0
          \/ f'.status = "IcacheWaitRetry" /\ f'.retryPkt = t.line /\ f'.cacheBlocked
             /\ icache' = icache
      BY <1>1, <3>2, <3>3 DEF FetchState
    <3>7. \A q \in icache' : q.live => q.line = t.line /\ icache' = icache \cup {t}
      BY <3>1, <3>3
    <3>8. OneAccess'
      BY <3>1, <3>5, <3>6, <3>7 DEF OneAccess
    <3> QED BY <1>1, <2>2, <2>3, <3>3, <3>4, <3>8, AccessOnly
  <2>5. CASE ~(f.status = "ItlbWait" /\ t.live)
    <3>1. f' = f /\ icache' = icache
      BY <2>1, <2>5 DEF FinishTranslation
    <3>2. OneAccess'
      BY <1>1, <3>1 DEF OneAccess
    <3> QED BY <1>1, <2>2, <3>1, <3>2, AccessOnly
  <2> QED BY <2>4, <2>5
<1>3. CASE \E q \in icache : ProcessCacheCompletion(q)
  <2>1. PICK q \in icache : ProcessCacheCompletion(q)
    BY <1>3
  <2>2. UNCHANGED <<phase, sc, rob, c, sig, x, tlb>> /\ icache' = icache \ {q}
    BY <2>1 DEF ProcessCacheCompletion
  <2>3. CASE f.status # "IcacheWaitResponse" \/ ~q.live
    <3>1. f' = f
      BY <2>1, <2>3 DEF ProcessCacheCompletion
    <3>2. OneAccess'
      BY <1>1, <2>2, <3>1 DEF OneAccess
    <3> QED BY <1>1, <2>2, <3>1, <3>2, AccessOnly
  <2>4. CASE f.status = "IcacheWaitResponse" /\ q.live
    <3>1. PICK st \in {"Blocked", "IcacheAccessComplete"} :
            f' = [f EXCEPT !.valid = TRUE, !.data = q.line, !.status = st]
      BY <2>1, <2>4 DEF ProcessCacheCompletion
    <3>2. q.line = f.line /\ f.retryPkt = 0 /\ q.line \in Nat
      BY <1>1, <2>4 DEF OneAccess, Request
    <3>3. f' \in FetchState /\ f'.queue = f.queue /\ f'.drainStall = f.drainStall
      BY <1>1, <3>1, <3>2 DEF FetchState, FetchStatuses
    <3>4. f'.line = f.line /\ f'.data = f.line /\ f'.retryPkt = 0
      BY <1>1, <3>1, <3>2 DEF FetchState
    <3>5. \A r \in icache' : ~r.live
      <4> SUFFICES ASSUME NEW r \in icache', r.live PROVE FALSE
        OBVIOUS
      <4>1. r \in Request /\ q \in Request /\ r.line = q.line /\ r.live = q.live
        BY <1>1, <2>2, <2>4, <3>2 DEF OneAccess, Request
      <4>2. r = q
        BY <4>1 DEF Request
      <4> QED BY <2>2, <4>2
    <3>6. OneAccess'
      BY <3>4, <3>5 DEF OneAccess
    <3> QED BY <1>1, <2>2, <3>3, <3>6, AccessOnly
  <2> QED BY <2>3, <2>4
<1>4. CASE RecvReqRetry
  <2>1. UNCHANGED <<phase, sc, rob, c, sig, x, tlb>>
    BY <1>4 DEF RecvReqRetry
  <2>2. CASE f.retryPkt # 0
    <3>1. f' = [f EXCEPT !.status = "IcacheWaitResponse", !.retryPkt = 0,
                         !.cacheBlocked = FALSE]
          /\ icache' = icache \cup {[line |-> f.retryPkt, live |-> TRUE]}
      BY <1>4, <2>2 DEF RecvReqRetry
    <3>2. f.retryPkt = f.line /\ f.status = "IcacheWaitRetry" /\ (f.valid => f.data = f.line)
          /\ \A q \in icache : ~q.live
      BY <1>1, <2>2 DEF OneAccess
    <3>3. f' \in FetchState /\ f'.queue = f.queue /\ f'.drainStall = f.drainStall
      BY <1>1, <3>1 DEF FetchState, FetchStatuses, Waiting
    <3>4. f'.line = f.line /\ f'.data = f.data /\ f'.valid = f.valid /\ f'.retryPkt = 0
          /\ f'.status = "IcacheWaitResponse"
      BY <1>1, <3>1 DEF FetchState
    <3>5. icache' \subseteq Request
      <4>1. f.retryPkt \in Nat \ {0}
        BY <1>1, <2>2, FetchFields
      <4>2. [line |-> f.retryPkt, live |-> TRUE] \in Request
        BY <4>1 DEF Request
      <4> QED BY <1>1, <3>1, <4>2
    <3>6. OneAccess'
      BY <3>1, <3>2, <3>4 DEF OneAccess
    <3> QED BY <1>1, <2>1, <3>3, <3>5, <3>6, AccessOnly
  <2>3. CASE f.retryPkt = 0
    <3>1. f' = [f EXCEPT !.cacheBlocked = FALSE] /\ icache' = icache
      BY <1>4, <2>3 DEF RecvReqRetry
    <3>2. f' \in FetchState /\ f'.queue = f.queue /\ f'.drainStall = f.drainStall
          /\ f'.line = f.line /\ f'.data = f.data /\ f'.valid = f.valid
          /\ f'.retryPkt = 0 /\ f'.status = f.status
      BY <1>1, <2>3, <3>1 DEF FetchState
    <3>3. OneAccess'
      BY <1>1, <3>1, <3>2 DEF OneAccess
    <3> QED BY <1>1, <2>1, <3>1, <3>2, <3>3, AccessOnly
  <2> QED BY <2>2, <2>3
<1> QED BY <1>2, <1>3, <1>4 DEF Answer

\* A cycle of fetch: what it builds, and which of its accesses stay.
LEMMA FetchTickFacts ==
  ASSUME FetchInv, FetchTick
  PROVE  /\ phase = "fetch" /\ phase' = "walk" /\ sig' = NoSignal
         /\ UNCHANGED <<sc, rob, c, x, raised, drainState, seen>>
         /\ tlb' \subseteq Request /\ icache' \subseteq Request
         /\ \A q \in icache' : q.live =>
              q \in icache /\ ~(sig.squash /\ f.status = "IcacheWaitResponse")
         /\ f' \in FetchState
         /\ f'.line = f.line /\ f'.valid = f.valid /\ f'.data = f.data
         /\ f'.cacheBlocked = f.cacheBlocked /\ f'.drainStall = f.drainStall
         /\ f'.retryPkt = IF sig.squash THEN 0 ELSE f.retryPkt
         /\ f.status \in Waiting /\ ~sig.squash => f'.status = f.status
         /\ f.drainStall /\ ~sig.squash /\ f.status \notin Waiting => f'.status = "Blocked"
         /\ \E s \in Seq(Inst) :
              /\ f'.queue = (IF sig.squash THEN <<>> ELSE f.queue) \o s
              /\ Len(f'.queue) <= QueueSize
              /\ \A k \in DOMAIN s : /\ ~s[k].squashed /\ s[k].state = "wait"
                                     /\ s[k].runahead = x.on
              /\ Follows(s, FetchNext, f'.pc)
              /\ sig.squash \/ f.drainStall => s = <<>>
         /\ sig.squash => f'.status = "Squashing"
<1> DEFINE g == Checked
           dead == sig.squash /\ f.status \in {"ItlbWait", "IcacheWaitResponse"}
           walks == IF dead THEN Dead(tlb) ELSE tlb
<1>1. /\ f \in FetchState /\ sig \in Signal /\ x.on \in BOOLEAN /\ sc \in Scenarios
      /\ tlb \subseteq Request /\ icache \subseteq Request /\ Len(f.queue) <= QueueSize
  BY DEF FetchInv, Types, Mode
<1>2. /\ phase = "fetch" /\ phase' = "walk" /\ sig' = NoSignal
      /\ UNCHANGED <<sc, rob, c, x, raised, drainState, seen>>
  BY DEF FetchTick
<1>3. PICK wrong, h, ask :
        /\ ask \in BOOLEAN
        /\ h = IF MayFetch(g) THEN Fetched(g, wrong) ELSE g
        /\ ask => Wanted(g, h)
        /\ f' = IF ask THEN [h EXCEPT !.status = "ItlbWait"] ELSE h
        /\ tlb' = IF ask THEN walks \cup {[line |-> prog[h.pc].line, live |-> TRUE]}
                  ELSE walks
        /\ icache' = IF dead THEN Dead(icache) ELSE icache
  <2>1. PICK wrong : LET h == IF MayFetch(g) THEN Fetched(g, wrong) ELSE g
                         ask == Wanted(g, h) /\ CanFetchLine(h)
                     IN  /\ f' = IF ask THEN [h EXCEPT !.status = "ItlbWait"] ELSE h
                         /\ tlb' = IF ask
                                   THEN walks \cup {[line |-> prog[h.pc].line, live |-> TRUE]}
                                   ELSE walks
                         /\ icache' = IF dead THEN Dead(icache) ELSE icache
    BY DEF FetchTick, Checked
  <2> DEFINE h == IF MayFetch(g) THEN Fetched(g, wrong) ELSE g
             ask == Wanted(g, h) /\ CanFetchLine(h)
  <2>2. ask \in BOOLEAN /\ (ask => Wanted(g, h))
    OBVIOUS
  <2>3. /\ f' = IF ask THEN [h EXCEPT !.status = "ItlbWait"] ELSE h
        /\ tlb' = IF ask THEN walks \cup {[line |-> prog[h.pc].line, live |-> TRUE]}
                  ELSE walks
        /\ icache' = IF dead THEN Dead(icache) ELSE icache
    BY <2>1
  <2>4. h = IF MayFetch(g) THEN Fetched(g, wrong) ELSE g
    OBVIOUS
  <2> HIDE DEF g, h, ask, walks, dead
  <2> QED BY <2>2, <2>3, <2>4
<1>4. /\ g \in FetchState
      /\ g.line = f.line /\ g.valid = f.valid /\ g.data = f.data
      /\ g.cacheBlocked = f.cacheBlocked /\ g.drainStall = f.drainStall
      /\ g.retryPkt = (IF sig.squash THEN 0 ELSE f.retryPkt)
      /\ g.queue = (IF sig.squash THEN <<>> ELSE f.queue)
      /\ g.pc = FetchNext
      /\ sig.squash => g.status = "Squashing"
      /\ ~sig.squash => /\ g.status \in {f.status, "Blocked", "Running"}
                        /\ f.status \in Waiting => g.status = f.status
                        /\ f.drainStall /\ f.status \notin Waiting => g.status = "Blocked"
  BY <1>1, CheckedFacts DEF FetchNext
<1>5. Len(g.queue) <= QueueSize /\ g.queue \in Seq(Inst)
  <2>1. Len(<<>>) <= QueueSize
    BY WidthAssumption
  <2> QED BY <1>1, <1>4, <2>1, FetchFields
<1> HIDE DEF g
<1>6. MayFetch(g) => /\ g.status \in {"Running", "IcacheAccessComplete"}
                     /\ ~sig.squash /\ ~f.drainStall /\ f.status \notin Waiting
  BY <1>4 DEF MayFetch, Waiting
<1>7. ask => /\ ~sig.squash /\ f.status \notin Waiting /\ ~f.drainStall
  BY <1>3, <1>4, <1>6 DEF Wanted, Waiting
<1>8. PICK s \in Seq(Inst) :
        /\ h \in FetchState /\ h.queue = g.queue \o s /\ Len(g.queue \o s) <= QueueSize
        /\ \A k \in DOMAIN s : /\ ~s[k].squashed /\ s[k].state = "wait"
                               /\ s[k].runahead = x.on
        /\ Follows(s, g.pc, h.pc)
        /\ h.line = g.line /\ h.valid = g.valid /\ h.data = g.data
        /\ h.retryPkt = g.retryPkt /\ h.cacheBlocked = g.cacheBlocked
        /\ h.drainStall = g.drainStall
        /\ ~MayFetch(g) => h.status = g.status /\ s = <<>>
  <2>1. CASE MayFetch(g)
    <3> DEFINE r == Fetched(g, wrong)
    <3>1. \E t \in Seq(Inst) :
            /\ r \in FetchState /\ r.queue = g.queue \o t /\ Len(g.queue \o t) <= QueueSize
            /\ \A k \in DOMAIN t : /\ ~t[k].squashed /\ t[k].state = "wait"
                                   /\ t[k].runahead = x.on
            /\ Follows(t, g.pc, r.pc)
            /\ r.line = g.line /\ r.valid = g.valid /\ r.data = g.data
            /\ r.retryPkt = g.retryPkt /\ r.cacheBlocked = g.cacheBlocked
            /\ r.drainStall = g.drainStall
      <4>1. g \in FetchState /\ sc \in Scenarios /\ x.on \in BOOLEAN
            /\ Len(g.queue) <= QueueSize
        BY <1>1, <1>4, <1>5
      <4>2. PICK t \in Seq(Inst) :
              /\ Fetched(g, wrong) \in FetchState
              /\ Fetched(g, wrong).queue = g.queue \o t
              /\ Len(g.queue \o t) <= QueueSize
              /\ \A k \in DOMAIN t : /\ ~t[k].squashed /\ t[k].state = "wait"
                                     /\ t[k].runahead = x.on
              /\ Follows(t, g.pc, Fetched(g, wrong).pc)
              /\ Fetched(g, wrong).status = "Running"
              /\ Fetched(g, wrong).line = g.line /\ Fetched(g, wrong).valid = g.valid
              /\ Fetched(g, wrong).data = g.data /\ Fetched(g, wrong).retryPkt = g.retryPkt
              /\ Fetched(g, wrong).cacheBlocked = g.cacheBlocked
              /\ Fetched(g, wrong).drainStall = g.drainStall
        BY <4>1, FetchedFacts
      <4> WITNESS t \in Seq(Inst)
      <4> QED BY <4>2
    <3>2. h = r
      BY <1>3, <2>1
    <3> HIDE DEF r
    <3> QED BY <2>1, <3>1, <3>2
  <2>2. CASE ~MayFetch(g)
    <3>1. h = g /\ <<>> \in Seq(Inst) /\ g.queue \o <<>> = g.queue
      BY <1>3, <1>5, <2>2
    <3>2. Follows(<<>>, g.pc, h.pc)
      BY <3>1 DEF Follows
    <3> WITNESS <<>> \in Seq(Inst)
    <3> QED BY <1>4, <1>5, <2>2, <3>1, <3>2
  <2> QED BY <2>1, <2>2
<1>9. /\ f' \in FetchState /\ f'.queue = h.queue /\ f'.pc = h.pc
      /\ f'.line = h.line /\ f'.valid = h.valid /\ f'.data = h.data
      /\ f'.retryPkt = h.retryPkt /\ f'.cacheBlocked = h.cacheBlocked
      /\ f'.drainStall = h.drainStall
      /\ f'.status = IF ask THEN "ItlbWait" ELSE h.status
  <2>1. f' = IF ask THEN [h EXCEPT !.status = "ItlbWait"] ELSE h
    BY <1>3
  <2>2. h \in FetchState
    BY <1>8
  <2> QED BY <2>1, <2>2 DEF FetchState, FetchStatuses, Waiting
<1>10. \A W : W \subseteq Request => Dead(W) \subseteq Request /\ \A q \in Dead(W) : ~q.live
  BY DEF Dead, Request
<1>11. icache' \subseteq Request
       /\ \A q \in icache' : q.live =>
            q \in icache /\ ~(sig.squash /\ f.status = "IcacheWaitResponse")
  <2>1. CASE dead
    BY <1>1, <1>3, <1>10, <2>1
  <2>2. CASE ~dead
    BY <1>1, <1>3, <2>2
  <2> QED BY <2>1, <2>2
<1>12. tlb' \subseteq Request
  <2>1. walks \subseteq Request
    BY <1>1, <1>10
  <2>2. [line |-> prog[h.pc].line, live |-> TRUE] \in Request
    <3>1. h.pc \in Pos
      BY <1>8, FetchFields
    <3>2. prog[h.pc].line \in Nat \ {0}
      BY <1>1, <3>1, ProgramFacts DEF Op
    <3> QED BY <3>2 DEF Request
  <2> HIDE DEF walks
  <2> QED BY <1>3, <2>1, <2>2
<1>13. /\ f.status \in Waiting /\ ~sig.squash => f'.status = f.status
       /\ sig.squash => f'.status = "Squashing"
       /\ f.drainStall /\ ~sig.squash /\ f.status \notin Waiting => f'.status = "Blocked"
       /\ sig.squash \/ f.drainStall => s = <<>>
  BY <1>4, <1>6, <1>7, <1>8, <1>9
<1>14. \E t \in Seq(Inst) :
         /\ f'.queue = (IF sig.squash THEN <<>> ELSE f.queue) \o t
         /\ Len(f'.queue) <= QueueSize
         /\ \A k \in DOMAIN t : /\ ~t[k].squashed /\ t[k].state = "wait"
                                /\ t[k].runahead = x.on
         /\ Follows(t, FetchNext, f'.pc)
         /\ sig.squash \/ f.drainStall => t = <<>>
  BY <1>4, <1>8, <1>9, <1>13
<1>15. /\ f'.line = f.line /\ f'.valid = f.valid /\ f'.data = f.data
       /\ f'.cacheBlocked = f.cacheBlocked /\ f'.drainStall = f.drainStall
       /\ f'.retryPkt = IF sig.squash THEN 0 ELSE f.retryPkt
  BY <1>4, <1>8, <1>9
<1> QED BY <1>2, <1>9, <1>11, <1>12, <1>13, <1>14, <1>15

LEMMA FetchTickFetch ==
  ASSUME FetchInv, FetchTick
  PROVE  FetchInv'
<1>1. /\ phase = "fetch" /\ phase' = "walk" /\ sig' = NoSignal
      /\ UNCHANGED <<sc, rob, c, x>>
      /\ tlb' \subseteq Request /\ icache' \subseteq Request
      /\ \A q \in icache' : q.live =>
           q \in icache /\ ~(sig.squash /\ f.status = "IcacheWaitResponse")
      /\ f' \in FetchState
      /\ f'.line = f.line /\ f'.valid = f.valid /\ f'.data = f.data
      /\ f'.cacheBlocked = f.cacheBlocked /\ f'.drainStall = f.drainStall
      /\ f'.retryPkt = (IF sig.squash THEN 0 ELSE f.retryPkt)
      /\ f.status \in Waiting /\ ~sig.squash => f'.status = f.status
  BY FetchTickFacts
<1>2. PICK s \in Seq(Inst) :
        /\ f'.queue = (IF sig.squash THEN <<>> ELSE f.queue) \o s
        /\ Len(f'.queue) <= QueueSize
        /\ \A k \in DOMAIN s : /\ ~s[k].squashed /\ s[k].state = "wait"
                               /\ s[k].runahead = x.on
        /\ sig.squash \/ f.drainStall => s = <<>>
  BY FetchTickFacts
<1>3. sig' \in Signal /\ ~sig'.squash
  <2>1. 1 \in Pos
    BY ProgramFacts DEF FetchInv, Types
  <2> QED BY <1>1, <2>1 DEF NoSignal, Signal
<1>4. Types'
  BY <1>1, <1>2, <1>3, SameSets DEF FetchInv, Types, Phases
<1>5. OneAccess'
  BY <1>1 DEF FetchInv, OneAccess, Waiting
<1>6. TrapPaired' /\ SquashHeard'
  BY <1>1, <1>3 DEF FetchInv, TrapPaired, SquashHeard
<1>7. f.queue \in Seq(Inst) /\ <<>> \in Seq(Inst)
  BY FetchFields DEF FetchInv, Types
<1>8. \A k \in DOMAIN f'.queue :
        \/ \E j \in DOMAIN f.queue : f'.queue[k] = f.queue[j]
        \/ \E j \in DOMAIN s : f'.queue[k] = s[j]
  <2>1. CASE sig.squash
    BY <1>2, <1>7, <2>1, ConcatProperties
  <2>2. CASE ~sig.squash
    <3>1. f'.queue = f.queue \o s
      BY <1>2, <2>2
    <3>2. Len(f'.queue) = Len(f.queue) + Len(s) /\ f'.queue \in Seq(Inst)
          /\ \A k \in 1..(Len(f.queue) + Len(s)) :
               f'.queue[k] = IF k <= Len(f.queue) THEN f.queue[k] ELSE s[k - Len(f.queue)]
      BY <1>7, <3>1, ConcatProperties
    <3> TAKE k \in DOMAIN f'.queue
    <3>3. k \in 1..(Len(f.queue) + Len(s)) /\ Len(f.queue) \in Nat /\ Len(s) \in Nat
      BY <1>7, <3>2
    <3>4. CASE k <= Len(f.queue)
      BY <1>7, <3>2, <3>3, <3>4
    <3>5. CASE k > Len(f.queue)
      <4>1. k - Len(f.queue) \in DOMAIN s /\ f'.queue[k] = s[k - Len(f.queue)]
        BY <3>2, <3>3, <3>5
      <4> QED BY <4>1
    <3> QED BY <3>3, <3>4, <3>5
  <2> QED BY <2>1, <2>2
<1>9. InstsSound'
  <2>1. \A k \in DOMAIN f'.queue : ~f'.queue[k].squashed /\ f'.queue[k].state = "wait"
                                   /\ (x.on => f'.queue[k].runahead)
    BY <1>2, <1>8 DEF FetchInv, InstsSound
  <2>2. x.on' = x.on
    BY <1>1
  <2> QED BY <1>1, <2>1, SameSets DEF FetchInv, InstsSound
<1>10. DrainStops'
  <2>1. c.drainImminent /\ c.status # "SquashAfterPending" => f'.queue = <<>>
    <3> SUFFICES ASSUME c.drainImminent, c.status # "SquashAfterPending"
                 PROVE  f'.queue = <<>>
      OBVIOUS
    <3>1. f.drainStall /\ (sig.squash \/ f.queue = <<>>)
      BY DEF FetchInv, DrainStops
    <3>2. s = <<>>
      BY <1>2, <3>1
    <3> QED BY <1>2, <1>7, <3>1, <3>2
  <2> QED BY <1>1, <2>1 DEF FetchInv, DrainStops
<1> QED BY <1>4, <1>5, <1>6, <1>9, <1>10 DEF FetchInv

-----------------------------------------------------------------------------
(* The reorder buffer.                                                      *)

\* t is s with its instructions in their places, further on.
Kept(s, t) ==
  /\ t \in Seq(Inst) /\ Len(t) = Len(s)
  /\ \A k \in DOMAIN s :
       /\ t[k].pos = s[k].pos
       /\ s[k].squashed => t[k].squashed
       /\ s[k].runahead => t[k].runahead
       /\ t[k].state = "sent" => s[k].state = "sent" \/ prog[s[k].pos].kind = "load"

SameMarks(s, t) == \A k \in DOMAIN s : t[k].squashed <=> s[k].squashed

LEMMA Domains ==
  ASSUME NEW s \in Seq(Inst)
  PROVE  /\ DOMAIN s = 1..Len(s) /\ Len(s) \in Nat /\ \A k \in DOMAIN s : s[k] \in Inst
OBVIOUS

\* One instruction changes.
LEMMA OneChanged ==
  ASSUME NEW s \in Seq(Inst), NEW k \in DOMAIN s, NEW i \in Inst,
         i.pos = s[k].pos, i.squashed = s[k].squashed, i.runahead = s[k].runahead,
         i.state = "sent" => s[k].state = "sent" \/ prog[s[k].pos].kind = "load"
  PROVE  Kept(s, [s EXCEPT ![k] = i]) /\ SameMarks(s, [s EXCEPT ![k] = i])
<1> DEFINE t == [s EXCEPT ![k] = i]
<1>1. DOMAIN s = 1..Len(s) /\ Len(s) \in Nat /\ \A j \in DOMAIN s : s[j] \in Inst
  BY Domains
<1>2. t = [j \in DOMAIN s |-> t[j]] /\ DOMAIN t = DOMAIN s
  OBVIOUS
<1>3. \A j \in DOMAIN s : t[j] = IF j = k THEN i ELSE s[j]
  BY <1>1
<1>4. t \in Seq(Inst) /\ Len(t) = Len(s)
  <2> HIDE DEF t
  <2>1. \A j \in DOMAIN s : t[j] \in Inst
    BY <1>1, <1>3
  <2> QED BY <1>2, <2>1, EachInst
<1> HIDE DEF t
<1>5. Kept(s, t) /\ SameMarks(s, t)
  BY <1>1, <1>3, <1>4 DEF Kept, SameMarks
<1> QED BY <1>5 DEF t

\* Every instruction may change.
LEMMA AllChanged ==
  ASSUME NEW s \in Seq(Inst), NEW t, DOMAIN t = DOMAIN s, t = [k \in DOMAIN s |-> t[k]],
         \A k \in DOMAIN s :
           /\ t[k] \in Inst /\ t[k].pos = s[k].pos
           /\ s[k].squashed => t[k].squashed
           /\ s[k].runahead => t[k].runahead
           /\ t[k].state = "sent" => s[k].state = "sent" \/ prog[s[k].pos].kind = "load"
  PROVE  Kept(s, t)
<1>1. t \in Seq(Inst) /\ Len(t) = Len(s)
  BY EachInst
<1> QED BY <1>1 DEF Kept

\* Execution, answers and the poison of a load in runahead.
RobEvent == (\E k \in DOMAIN rob : Execute(k) \/ Respond(k)) \/ PoisonRunaheadLLL

LEMMA RobEventFacts ==
  ASSUME FetchInv, RobEvent
  PROVE  /\ Kept(rob, rob') /\ SameMarks(rob, rob')
         /\ UNCHANGED <<sc, f, tlb, icache, c, sig, raised, seen>>
         /\ phase' = phase \/ (phase = "insts" /\ phase' = "end")
         /\ x' = x \/ (x.on /\ x' = [x EXCEPT !.regs = "runahead"])
<1>1. rob \in Seq(Inst) /\ \A k \in DOMAIN rob : rob[k] \in Inst
  BY Domains DEF FetchInv, Types
<1>2. CASE \E k \in DOMAIN rob : Execute(k)
  <2>1. PICK k \in DOMAIN rob : Execute(k)
    BY <1>2
  <2>2. PICK i : /\ rob' = [rob EXCEPT ![k] = i]
                 /\ \/ i = [[rob[k] EXCEPT !.state = "done"] EXCEPT !.redirect = rob[k].wrong]
                    \/ i = [rob[k] EXCEPT !.state = "sent"]
                       /\ prog[rob[k].pos].kind = "load"
    <3>1. \/ rob' = [rob EXCEPT ![k].state = "done", ![k].redirect = rob[k].wrong]
          \/ rob' = [rob EXCEPT ![k].state = "sent"] /\ prog[rob[k].pos].kind = "load"
      BY <2>1 DEF Execute
    <3>2. CASE rob' = [rob EXCEPT ![k].state = "sent"] /\ prog[rob[k].pos].kind = "load"
      BY <3>2
    <3>3. CASE rob' = [rob EXCEPT ![k].state = "done", ![k].redirect = rob[k].wrong]
      <4>1. rob' = [rob EXCEPT ![k] = [[rob[k] EXCEPT !.state = "done"]
                                         EXCEPT !.redirect = rob[k].wrong]]
        BY <1>1, <3>3
      <4> QED BY <4>1
    <3> QED BY <3>1, <3>2, <3>3
  <2>3. i \in Inst /\ i.pos = rob[k].pos /\ i.squashed = rob[k].squashed
        /\ i.runahead = rob[k].runahead
        /\ (i.state = "sent" => prog[rob[k].pos].kind = "load")
    <3>1. rob[k] \in Inst
      BY <1>1
    <3> QED BY <2>2, <3>1 DEF Inst
  <2>4. Kept(rob, rob') /\ SameMarks(rob, rob')
    <3>1. Kept(rob, [rob EXCEPT ![k] = i]) /\ SameMarks(rob, [rob EXCEPT ![k] = i])
      BY <1>1, <2>3, OneChanged
    <3> QED BY <2>2, <3>1
  <2> QED BY <2>1, <2>4 DEF Execute, cpuVars
<1>3. CASE (\E k \in DOMAIN rob : Respond(k)) \/ PoisonRunaheadLLL
  <2>1. PICK k \in DOMAIN rob : rob' = [rob EXCEPT ![k].state = "done"]
    <3>1. CASE PoisonRunaheadLLL
      <4>1. rob # <<>> /\ rob' = [rob EXCEPT ![1].state = "done"]
        BY <3>1 DEF PoisonRunaheadLLL, AtHead
      <4>2. 1 \in DOMAIN rob
        BY <1>1, <4>1
      <4> QED BY <4>1, <4>2
    <3> QED BY <1>3, <3>1 DEF Respond
  <2>2. [rob[k] EXCEPT !.state = "done"] \in Inst
        /\ [rob[k] EXCEPT !.state = "done"].pos = rob[k].pos
        /\ [rob[k] EXCEPT !.state = "done"].squashed = rob[k].squashed
        /\ [rob[k] EXCEPT !.state = "done"].runahead = rob[k].runahead
        /\ [rob[k] EXCEPT !.state = "done"].state # "sent"
    <3>1. rob[k] \in Inst
      BY <1>1
    <3> QED BY <3>1 DEF Inst
  <2>3. rob' = [rob EXCEPT ![k] = [rob[k] EXCEPT !.state = "done"]]
    BY <2>1
  <2>4. Kept(rob, rob') /\ SameMarks(rob, rob')
    <3> DEFINE i == [rob[k] EXCEPT !.state = "done"]
    <3>1. i \in Inst /\ i.pos = rob[k].pos /\ i.squashed = rob[k].squashed
          /\ i.runahead = rob[k].runahead /\ i.state # "sent" /\ rob' = [rob EXCEPT ![k] = i]
      BY <2>2, <2>3
    <3> HIDE DEF i
    <3>2. Kept(rob, [rob EXCEPT ![k] = i]) /\ SameMarks(rob, [rob EXCEPT ![k] = i])
      BY <1>1, <3>1, OneChanged
    <3> QED BY <3>1, <3>2
  <2> QED BY <1>3, <2>4 DEF Respond, PoisonRunaheadLLL, cpuVars, AtHead, InLoop
<1> QED BY <1>2, <1>3 DEF RobEvent

\* What the rest of FetchInv' asks when instructions stay where they are.
LEMMA KeptFetch ==
  ASSUME FetchInv, Kept(rob, rob'), UNCHANGED <<sc, f, tlb, icache, sig>>,
         phase' \in Phases, c' \in CommitState, x' \in Mode,
         TrapPaired', SquashHeard', x'.on => x.on,
         c'.drainImminent = c.drainImminent, c'.drainImminent => ~c'.interrupt,
         c'.status = c.status
  PROVE  FetchInv'
<1>1. rob \in Seq(Inst) /\ DOMAIN rob' = DOMAIN rob /\ Len(rob') = Len(rob)
      /\ rob' \in Seq(Inst)
  BY Domains DEF FetchInv, Types, Kept
<1>2. Types'
  BY <1>1, SameSets DEF FetchInv, Types
<1>3. OneAccess'
  BY DEF FetchInv, OneAccess
<1>4. InstsSound'
  <2>1. \A k \in DOMAIN rob' : /\ rob'[k].state = "sent" => prog[rob'[k].pos].kind = "load"
                               /\ x.on => rob'[k].runahead
    BY <1>1 DEF FetchInv, InstsSound, Kept
  <2> QED BY <1>1, <2>1, SameSets DEF FetchInv, InstsSound
<1>5. DrainStops'
  <2>1. \A k \in DOMAIN rob' : rob[k].squashed => rob'[k].squashed
    BY <1>1 DEF Kept
  <2> QED BY <1>1, <2>1 DEF FetchInv, DrainStops
<1> QED BY <1>2, <1>3, <1>4, <1>5 DEF FetchInv

LEMMA RobEventFetch ==
  ASSUME FetchInv, RobEvent
  PROVE  FetchInv'
<1>1. /\ Kept(rob, rob') /\ UNCHANGED <<sc, f, tlb, icache, c, sig>>
      /\ phase' = phase \/ (phase = "insts" /\ phase' = "end")
      /\ x' = x \/ (x.on /\ x' = [x EXCEPT !.regs = "runahead"])
  BY RobEventFacts
<1>2. x' \in Mode /\ x'.on = x.on /\ x'.exit = x.exit /\ c' \in CommitState
      /\ phase' \in Phases
  BY <1>1 DEF FetchInv, Types, Mode, Phases
<1>3. TrapPaired' /\ SquashHeard' /\ (c'.drainImminent => ~c'.interrupt)
  BY <1>1, <1>2 DEF FetchInv, TrapPaired, SquashHeard, DrainStops
<1> QED BY <1>1, <1>2, <1>3, KeptFetch

\* The head leaves the reorder buffer.
LEMMA TailFacts ==
  ASSUME NEW s \in Seq(Inst), s # <<>>
  PROVE  /\ Tail(s) \in Seq(Inst) /\ Len(Tail(s)) = Len(s) - 1 /\ Head(s) = s[1]
         /\ 1 \in DOMAIN s
         /\ \A k \in DOMAIN Tail(s) : k + 1 \in DOMAIN s /\ Tail(s)[k] = s[k + 1]
<1>1. Tail(s) \in Seq(Inst) /\ Len(Tail(s)) = Len(s) - 1
      /\ \A k \in 1..Len(Tail(s)) : Tail(s)[k] = s[k + 1]
  BY HeadTailProperties
<1>2. Len(s) \in Nat \ {0} /\ Head(s) = s[1]
  OBVIOUS
<1> QED BY <1>1, <1>2

\* The kinds of instructions that are at the head.
LEMMA HeadFacts ==
  ASSUME FetchInv, AtHead
  PROVE  /\ rob \in Seq(Inst) /\ rob # <<>> /\ Head(rob) = rob[1] /\ rob[1] \in Inst
         /\ 1 \in DOMAIN rob /\ rob[1].pos \in Pos
         /\ phase = "insts" /\ c.status = "Running" /\ c.trap = "none" /\ ~sig.squash
<1>1. rob \in Seq(Inst) /\ rob # <<>> /\ phase = "insts" /\ c.status = "Running"
  BY DEF FetchInv, Types, AtHead, InLoop
<1>2. Head(rob) = rob[1] /\ 1 \in DOMAIN rob /\ rob[1] \in Inst
  BY <1>1, TailFacts, Domains
<1>3. rob[1].pos \in Pos
  BY <1>2, InstFields
<1>4. c.trap = "none" /\ ~sig.squash
  BY <1>1 DEF FetchInv, TrapPaired, SquashHeard
<1> QED BY <1>1, <1>2, <1>3, <1>4

\* What the rest of FetchInv' asks when the head leaves.
LEMMA HeadLeaves ==
  ASSUME FetchInv, AtHead, rob' = Tail(rob), UNCHANGED <<phase, sc, tlb, icache, sig>>,
         f' = f \/ \E b \in BOOLEAN : f' = [f EXCEPT !.drainStall = b],
         c' \in CommitState, x' \in Mode, x'.on = x.on, x'.exit = x.exit,
         c'.trap = "none", c'.status # "TrapPending",
         f'.drainStall <=> c'.drainImminent,
         c'.drainImminent => ~c'.interrupt,
         c'.drainImminent => \/ c.drainImminent /\ c'.status = "Running"
                             \/ c'.status = "SquashAfterPending"
  PROVE  FetchInv'
<1>1. rob \in Seq(Inst) /\ rob # <<>> /\ phase = "insts" /\ ~sig.squash
      /\ c.status = "Running"
  BY HeadFacts
<1>2. rob' \in Seq(Inst) /\ Len(rob') = Len(rob) - 1
      /\ \A k \in DOMAIN rob' : k + 1 \in DOMAIN rob /\ rob'[k] = rob[k + 1]
  BY <1>1, TailFacts
<1>3. f \in FetchState
  BY DEF FetchInv, Types
<1>4. /\ f' \in FetchState /\ f'.queue = f.queue /\ f'.status = f.status
      /\ f'.line = f.line /\ f'.valid = f.valid /\ f'.data = f.data
      /\ f'.retryPkt = f.retryPkt /\ f'.cacheBlocked = f.cacheBlocked
  BY <1>3 DEF FetchState
<1>5. Types'
  <2>1. Len(rob') <= RobSize
    BY <1>1, <1>2, WidthAssumption DEF FetchInv, Types
  <2> QED BY <1>2, <1>4, <2>1, SameSets DEF FetchInv, Types
<1>6. OneAccess'
  BY <1>4 DEF FetchInv, OneAccess
<1>7. InstsSound'
  BY <1>2, <1>4, SameSets DEF FetchInv, InstsSound
<1>8. DrainStops'
  <2>1. c'.drainImminent /\ c'.status # "SquashAfterPending" =>
          (\A k \in DOMAIN rob' : rob'[k].squashed) /\ f'.queue = <<>>
    BY <1>1, <1>2, <1>4 DEF FetchInv, DrainStops
  <2> QED BY <2>1 DEF DrainStops
<1>9. TrapPaired' /\ SquashHeard'
  BY <1>1 DEF FetchInv, TrapPaired, SquashHeard
<1> QED BY <1>5, <1>6, <1>7, <1>8, <1>9 DEF FetchInv

LEMMA RetireSquashedFetch ==
  ASSUME FetchInv, RetireSquashed
  PROVE  FetchInv'
<1>1. AtHead /\ rob' = Tail(rob) /\ UNCHANGED <<phase, sc, tlb, icache, sig, f, c, x>>
  BY DEF RetireSquashed
<1>2. c.trap = "none" /\ c.status = "Running"
  BY <1>1, HeadFacts
<1>3. c' \in CommitState /\ x' \in Mode /\ (f'.drainStall <=> c'.drainImminent)
      /\ (c'.drainImminent => ~c'.interrupt)
  BY <1>1 DEF FetchInv, Types, DrainStops
<1> QED BY <1>1, <1>2, <1>3, HeadLeaves

\* An instruction retires, and may be the last before a drain or an interrupt.
LEMMA CommitHeadFacts ==
  ASSUME FetchInv, CommitHead
  PROVE  /\ AtHead /\ rob' = Tail(rob) /\ ~rob[1].squashed
         /\ UNCHANGED <<phase, sc, tlb, icache, sig, raised, seen>>
         /\ \E b \in BOOLEAN : f' = [f EXCEPT !.drainStall = b]
         /\ c' \in CommitState /\ c'.pc = Succ(rob[1].pos) /\ c'.trap = "none"
         /\ c'.canHandleInterrupts = ~prog[rob[1].pos].mid
         /\ c'.interrupt = c.interrupt
         /\ c'.status \in {"Running", "SquashAfterPending"}
         /\ f'.drainStall <=> c'.drainImminent
         /\ c'.drainImminent => ~c'.interrupt /\ c'.status = "SquashAfterPending"
         /\ ~c.drainImminent
         /\ x' \in Mode /\ x'.on = x.on /\ x'.exit = x.exit /\ x'.storedPc = x.storedPc
         /\ x'.regs = x.regs /\ x'.restoreNext = x.restoreNext
         /\ x'.restoreNow = x.restoreNow
         /\ x'.warm = IF ~x.on /\ x.warm = rob[1].pos THEN 0 ELSE x.warm
<1> DEFINE next == Succ(Head(rob).pos)
           drained == /\ c.drainPending /\ Boundary(next) /\ ~c.interrupt /\ c.trap = "none"
           back == /\ ~c.interrupt /\ c.avoidQuiesceLiveLock /\ ~HeadOp.mid /\ raised
<1>1. /\ AtHead /\ rob' = Tail(rob) /\ LiveHead("done")
      /\ UNCHANGED <<phase, sc, tlb, icache, sig, raised, seen>>
      /\ c' = [c EXCEPT !.pc = next, !.n = @ + 1, !.canHandleInterrupts = ~HeadOp.mid,
                        !.status = IF drained \/ back THEN "SquashAfterPending" ELSE @,
                        !.drainImminent = @ \/ drained]
      /\ f' = [f EXCEPT !.drainStall = @ \/ drained]
      /\ x' = IF ~x.on /\ x.warm = Head(rob).pos THEN [x EXCEPT !.warm = 0] ELSE x
  BY DEF CommitHead
<1>2. /\ rob[1].pos \in Pos /\ Head(rob) = rob[1] /\ c.status = "Running"
      /\ c.trap = "none" /\ 1 \in DOMAIN rob
  BY <1>1, HeadFacts
<1>3. sc \in Scenarios /\ f \in FetchState /\ c \in CommitState /\ x \in Mode
  BY DEF FetchInv, Types
<1>4. Succ(rob[1].pos) \in Pos /\ prog[rob[1].pos].mid \in BOOLEAN
  BY <1>2, <1>3, ProgramFacts DEF Op
<1>5. ~rob[1].squashed
  BY <1>1, <1>2 DEF LiveHead
<1>6. ~c.drainImminent /\ ~f.drainStall
  BY <1>2, <1>5 DEF FetchInv, DrainStops
<1>7. drained \in BOOLEAN /\ back \in BOOLEAN /\ next = Succ(rob[1].pos)
      /\ HeadOp.mid = prog[rob[1].pos].mid /\ (drained => ~c.interrupt)
  BY <1>2 DEF HeadOp
<1> HIDE DEF drained, back, next
<1>8. /\ c' \in CommitState /\ c'.pc = Succ(rob[1].pos) /\ c'.trap = "none"
      /\ c'.canHandleInterrupts = ~prog[rob[1].pos].mid
      /\ c'.interrupt = c.interrupt
      /\ c'.status = (IF drained \/ back THEN "SquashAfterPending" ELSE "Running")
      /\ c'.drainImminent = drained
  <2>1. PICK st, mid, dr, pc, n :
          /\ mid \in BOOLEAN /\ dr \in BOOLEAN
          /\ c' = [c EXCEPT !.pc = pc, !.n = n, !.canHandleInterrupts = mid,
                            !.status = st, !.drainImminent = dr]
          /\ st = IF drained \/ back THEN "SquashAfterPending" ELSE "Running"
          /\ pc = Succ(rob[1].pos) /\ n = c.n + 1
          /\ mid = ~prog[rob[1].pos].mid /\ dr = drained
    <3> DEFINE st == IF drained \/ back THEN "SquashAfterPending" ELSE "Running"
    <3>1. c' = [c EXCEPT !.pc = next, !.n = c.n + 1, !.canHandleInterrupts = ~HeadOp.mid,
                         !.status = IF drained \/ back THEN "SquashAfterPending" ELSE c.status,
                         !.drainImminent = c.drainImminent \/ drained]
      BY <1>1, <1>3 DEF CommitState
    <3> QED BY ZenonT(60), <1>2, <1>4, <1>6, <1>7, <3>1
  <2>2. c.n + 1 \in Nat
    BY <1>3, CommitFields
  <2>3. c'.pc = pc /\ c'.trap = c.trap /\ c'.canHandleInterrupts = mid
        /\ c'.interrupt = c.interrupt /\ c'.status = st /\ c'.drainImminent = dr
    BY <1>3, <2>1 DEF CommitState
  <2>4. c' \in CommitState
    BY ZenonT(60), <1>3, <1>4, <2>1, <2>2 DEF CommitState
  <2> QED BY <1>2, <2>1, <2>3, <2>4
<1>9. f'.drainStall = drained /\ f' = [f EXCEPT !.drainStall = drained]
  BY <1>1, <1>3, <1>6, <1>7 DEF FetchState
<1>10. /\ x' \in Mode /\ x'.on = x.on /\ x'.exit = x.exit /\ x'.storedPc = x.storedPc
       /\ x'.regs = x.regs /\ x'.restoreNext = x.restoreNext
       /\ x'.restoreNow = x.restoreNow
       /\ x'.warm = IF ~x.on /\ x.warm = rob[1].pos THEN 0 ELSE x.warm
  <2>1. CASE ~x.on /\ x.warm = rob[1].pos
    BY <1>1, <1>2, <1>3, <2>1 DEF Mode
  <2>2. CASE ~(~x.on /\ x.warm = rob[1].pos)
    BY <1>1, <1>2, <1>3, <2>2 DEF Mode
  <2> QED BY <2>1, <2>2
<1> QED BY <1>1, <1>5, <1>6, <1>7, <1>8, <1>9, <1>10

LEMMA CommitHeadFetch ==
  ASSUME FetchInv, CommitHead
  PROVE  FetchInv'
BY CommitHeadFacts, HeadLeaves

\* What the rest of FetchInv' asks when commit comes to a trap.
LEMMA Traps ==
  ASSUME FetchInv, UNCHANGED <<sc, f, tlb, icache, rob, x>>,
         phase = "insts", phase' = "end", c' \in CommitState, sig' \in Signal,
         c'.trap # "none", c'.status = "TrapPending", c'.drainImminent = c.drainImminent,
         ~c.drainImminent, ~x.on, sig'.squash = sig.squash
  PROVE  FetchInv'
<1>1. Types'
  BY SameSets DEF FetchInv, Types, Phases
<1>2. OneAccess'
  BY DEF FetchInv, OneAccess
<1>3. InstsSound'
  BY SameSets DEF FetchInv, InstsSound
<1>4. TrapPaired' /\ SquashHeard' /\ DrainStops'
  BY DEF FetchInv, TrapPaired, SquashHeard, DrainStops
<1> QED BY <1>1, <1>2, <1>3, <1>4 DEF FetchInv

LEMMA TrapHeadFacts ==
  ASSUME FetchInv, TrapHead
  PROVE  /\ AtHead /\ UNCHANGED <<sc, f, tlb, icache, rob, x, sig, raised, seen>>
         /\ phase = "insts" /\ phase' = "end" /\ ~x.on
         /\ ~rob[1].squashed /\ prog[rob[1].pos].kind = "fault"
         /\ c' \in CommitState /\ c'.trap = "event" /\ c'.status = "TrapPending"
         /\ c'.drainImminent = c.drainImminent /\ ~c.drainImminent
         /\ c'.canHandleInterrupts = c.canHandleInterrupts
         /\ c'.pc = Succ(c.pc)
<1>1. /\ AtHead /\ LiveHead("done") /\ HeadOp.kind = "fault" /\ ~Head(rob).runahead
      /\ UNCHANGED <<sc, f, tlb, icache, rob, x, sig, raised, seen>> /\ phase' = "end"
      /\ c' = [c EXCEPT !.status = "TrapPending", !.trap = "event", !.pc = Succ(@)]
  BY DEF TrapHead, cpuVars
<1>2. Head(rob) = rob[1] /\ 1 \in DOMAIN rob /\ phase = "insts" /\ c.status = "Running"
  BY <1>1, HeadFacts
<1>3. ~rob[1].squashed /\ ~rob[1].runahead /\ prog[rob[1].pos].kind = "fault"
  BY <1>1, <1>2 DEF LiveHead, HeadOp
<1>4. ~x.on /\ ~c.drainImminent
  BY <1>2, <1>3 DEF FetchInv, InstsSound, DrainStops
<1>5. sc \in Scenarios /\ c \in CommitState /\ c.pc \in Pos
  BY CommitFields DEF FetchInv, Types
<1>6. Succ(c.pc) \in Pos
  BY <1>5, ProgramFacts
<1>7. /\ c' \in CommitState /\ c'.trap = "event" /\ c'.status = "TrapPending"
      /\ c'.drainImminent = c.drainImminent /\ c'.pc = Succ(c.pc)
      /\ c'.canHandleInterrupts = c.canHandleInterrupts
  BY <1>1, <1>5, <1>6 DEF CommitState
<1> QED BY <1>1, <1>2, <1>3, <1>4, <1>7

LEMMA TakeInterruptFacts ==
  ASSUME FetchInv, TakeInterrupt
  PROVE  /\ UNCHANGED <<sc, f, tlb, icache, rob, x>>
         /\ phase = "insts" /\ phase' = "end" /\ CanTakeInterrupt /\ ~x.on
         /\ c' \in CommitState /\ c'.trap = "event" /\ c'.status = "TrapPending"
         /\ c'.drainImminent = c.drainImminent /\ ~c.drainImminent
         /\ c'.canHandleInterrupts = c.canHandleInterrupts /\ c'.pc = c.pc
         /\ sig' \in Signal /\ sig'.squash = sig.squash
         /\ seen' = [pc |-> c.pc, regs |-> x.regs]
<1>1. /\ UNCHANGED <<sc, f, tlb, icache, rob, x>>
      /\ phase = "insts" /\ phase' = "end" /\ CanTakeInterrupt /\ c.interrupt
      /\ c' = [c EXCEPT !.interrupt = FALSE, !.avoidQuiesceLiveLock = FALSE,
                        !.status = "TrapPending", !.trap = "event"]
      /\ sig' = [sig EXCEPT !.clear = TRUE]
      /\ seen' = [pc |-> c.pc, regs |-> x.regs]
  BY DEF TakeInterrupt, InLoop
<1>2. ~x.on /\ ~c.drainImminent
  BY <1>1 DEF CanTakeInterrupt, RunaheadHazard, FetchInv, DrainStops
<1>3. c \in CommitState /\ sig \in Signal
  BY DEF FetchInv, Types
<1>4. /\ c' \in CommitState /\ c'.trap = "event" /\ c'.status = "TrapPending"
      /\ c'.drainImminent = c.drainImminent /\ c'.pc = c.pc
      /\ c'.canHandleInterrupts = c.canHandleInterrupts
  BY <1>1, <1>3 DEF CommitState
<1>5. sig' \in Signal /\ sig'.squash = sig.squash
  BY <1>1, <1>3 DEF Signal
<1> QED BY <1>1, <1>2, <1>4, <1>5

LEMMA TrapsFetch ==
  ASSUME FetchInv, TrapHead \/ TakeInterrupt
  PROVE  FetchInv'
<1>1. CASE TrapHead
  <2>1. sig' \in Signal /\ sig'.squash = sig.squash
    BY <1>1, TrapHeadFacts DEF FetchInv, Types
  <2> QED BY <1>1, <2>1, TrapHeadFacts, Traps
<1>2. CASE TakeInterrupt
  BY <1>2, TakeInterruptFacts, Traps
<1> QED BY <1>1, <1>2

\* Entering runahead marks everything in flight.
LEMMA EnterFacts ==
  ASSUME FetchInv, EnterRunahead
  PROVE  /\ AtHead /\ ~x.on /\ ~rob[1].squashed /\ prog[rob[1].pos].kind = "load"
         /\ UNCHANGED <<sc, tlb, icache, c, sig, raised, seen>>
         /\ phase = "insts" /\ phase' = "end"
         /\ Kept(rob, rob') /\ SameMarks(rob, rob')
         /\ \A k \in DOMAIN rob : rob'[k].runahead
         /\ Kept(f.queue, f'.queue) /\ SameMarks(f.queue, f'.queue)
         /\ \A k \in DOMAIN f.queue : f'.queue[k].runahead /\ f'.queue[k].state = f.queue[k].state
         /\ f' = [f EXCEPT !.queue = f'.queue]
         /\ f' \in FetchState /\ f'.pc = f.pc
         /\ x' \in Mode /\ x'.on /\ x'.exit = x.exit /\ x'.storedPc = c.pc
         /\ x'.warm = x.warm
<1> DEFINE Mark(i) == [i EXCEPT !.runahead = TRUE]
           r == [k \in DOMAIN rob |->
                   [rob[k] EXCEPT !.runahead = TRUE, !.state = IF k = 1 THEN "done" ELSE @]]
           q == [k \in DOMAIN f.queue |-> [f.queue[k] EXCEPT !.runahead = TRUE]]
<1>1. /\ AtHead /\ LiveHead("sent") /\ ~x.on /\ phase' = "end"
      /\ UNCHANGED <<sc, tlb, icache, c, sig, raised, seen>>
      /\ x' = [x EXCEPT !.on = TRUE, !.storedPc = c.pc, !.regs = "runahead"]
      /\ rob' = r
      /\ f' = [f EXCEPT !.queue = q]
  BY DEF EnterRunahead, cpuVars
<1>2. /\ rob \in Seq(Inst) /\ Head(rob) = rob[1] /\ 1 \in DOMAIN rob /\ phase = "insts"
  BY <1>1, HeadFacts
<1>3. f \in FetchState /\ f.queue \in Seq(Inst) /\ x \in Mode /\ c.pc \in Pos
  BY FetchFields, CommitFields DEF FetchInv, Types
<1>4. ~rob[1].squashed /\ prog[rob[1].pos].kind = "load"
  BY <1>1, <1>2 DEF LiveHead, FetchInv, InstsSound
<1>5. \A k \in DOMAIN rob :
        /\ r[k] \in Inst /\ r[k].pos = rob[k].pos /\ r[k].squashed = rob[k].squashed
        /\ r[k].runahead /\ (r[k].state = "sent" => rob[k].state = "sent")
  <2> TAKE k \in DOMAIN rob
  <2>1. rob[k] \in Inst
    BY <1>2, Domains
  <2>2. r[k] = [rob[k] EXCEPT !.runahead = TRUE,
                              !.state = IF k = 1 THEN "done" ELSE rob[k].state]
    BY <2>1 DEF Inst
  <2> QED BY <2>1, <2>2 DEF Inst
<1>6. \A k \in DOMAIN f.queue :
        /\ q[k] \in Inst /\ q[k].pos = f.queue[k].pos /\ q[k].squashed = f.queue[k].squashed
        /\ q[k].runahead /\ q[k].state = f.queue[k].state
  <2> TAKE k \in DOMAIN f.queue
  <2>1. f.queue[k] \in Inst
    BY <1>3, Domains
  <2> QED BY <2>1 DEF Inst
<1>7. DOMAIN r = DOMAIN rob /\ r = [k \in DOMAIN rob |-> r[k]]
      /\ DOMAIN q = DOMAIN f.queue /\ q = [k \in DOMAIN f.queue |-> q[k]]
  OBVIOUS
<1> HIDE DEF r, q
<1>8. Kept(rob, r) /\ SameMarks(rob, r)
  <2>1. Kept(rob, r)
    BY SMTT(60), <1>2, <1>5, <1>7, AllChanged
  <2>2. SameMarks(rob, r)
    BY <1>5 DEF SameMarks
  <2> QED BY <2>1, <2>2
<1>9. Kept(f.queue, q) /\ SameMarks(f.queue, q)
  <2>1. \A k \in DOMAIN f.queue :
          /\ q[k] \in Inst /\ q[k].pos = f.queue[k].pos
          /\ f.queue[k].squashed => q[k].squashed
          /\ f.queue[k].runahead => q[k].runahead
          /\ q[k].state = "sent" => \/ f.queue[k].state = "sent"
                                   \/ prog[f.queue[k].pos].kind = "load"
    BY <1>6
  <2>2. Kept(f.queue, q)
    <3> DEFINE s == f.queue
    <3>1. s \in Seq(Inst) /\ DOMAIN q = DOMAIN s /\ q = [k \in DOMAIN s |-> q[k]]
      BY <1>3, <1>7
    <3>2. \A k \in DOMAIN s :
            /\ q[k] \in Inst /\ q[k].pos = s[k].pos
            /\ s[k].squashed => q[k].squashed
            /\ s[k].runahead => q[k].runahead
            /\ q[k].state = "sent" => s[k].state = "sent" \/ prog[s[k].pos].kind = "load"
      BY <2>1
    <3> HIDE DEF s
    <3>3. Kept(s, q)
      BY <3>1, <3>2, AllChanged
    <3> QED BY <3>3 DEF s
  <2>3. SameMarks(f.queue, q)
    BY <1>6 DEF SameMarks
  <2> QED BY <2>2, <2>3
<1>10. f'.queue = q /\ f'.pc = f.pc /\ f' \in FetchState
  <2>1. q \in Seq(Inst)
    BY <1>9 DEF Kept
  <2> QED BY <1>1, <1>3, <2>1 DEF FetchState
<1>11. x' \in Mode /\ x'.on /\ x'.exit = x.exit /\ x'.storedPc = c.pc /\ x'.warm = x.warm
  BY <1>1, <1>3 DEF Mode
<1>12. rob' = r /\ f' = [f EXCEPT !.queue = f'.queue]
  BY <1>1, <1>10
<1> QED BY <1>1, <1>2, <1>4, <1>5, <1>6, <1>8, <1>9, <1>10, <1>11, <1>12

LEMMA EnterFetch ==
  ASSUME FetchInv, EnterRunahead
  PROVE  FetchInv'
<1>1. /\ AtHead /\ ~x.on /\ ~rob[1].squashed
      /\ UNCHANGED <<sc, tlb, icache, c, sig>> /\ phase' = "end"
      /\ Kept(rob, rob')
      /\ \A k \in DOMAIN rob : rob'[k].runahead
      /\ Kept(f.queue, f'.queue) /\ SameMarks(f.queue, f'.queue)
      /\ \A k \in DOMAIN f.queue : f'.queue[k].runahead /\ f'.queue[k].state = f.queue[k].state
      /\ f' = [f EXCEPT !.queue = f'.queue] /\ f' \in FetchState
      /\ x' \in Mode /\ x'.on /\ x'.exit = x.exit
  BY EnterFacts
<1>2. /\ rob \in Seq(Inst) /\ 1 \in DOMAIN rob /\ c.trap = "none" /\ ~sig.squash
      /\ f \in FetchState /\ f.queue \in Seq(Inst)
  BY <1>1, HeadFacts, FetchFields DEF FetchInv, Types
<1>3. /\ DOMAIN rob' = DOMAIN rob /\ Len(rob') = Len(rob) /\ rob' \in Seq(Inst)
      /\ DOMAIN f'.queue = DOMAIN f.queue /\ Len(f'.queue) = Len(f.queue)
      /\ f'.queue \in Seq(Inst)
  BY <1>1, <1>2, Domains DEF Kept
<1>4. /\ f'.status = f.status /\ f'.line = f.line /\ f'.valid = f.valid /\ f'.data = f.data
      /\ f'.retryPkt = f.retryPkt /\ f'.cacheBlocked = f.cacheBlocked
      /\ f'.drainStall = f.drainStall
  BY <1>1, <1>2 DEF FetchState
<1>5. Types'
  BY <1>1, <1>3, SameSets DEF FetchInv, Types, Phases
<1>6. OneAccess'
  BY <1>1, <1>4 DEF FetchInv, OneAccess
<1>7. TrapPaired' /\ SquashHeard'
  BY <1>1, <1>2 DEF FetchInv, TrapPaired, SquashHeard
<1>8. InstsSound'
  <2>1. \A k \in DOMAIN rob' : rob'[k].state = "sent" => prog[rob'[k].pos].kind = "load"
    BY <1>1, <1>3 DEF FetchInv, InstsSound, Kept
  <2>2. \A k \in DOMAIN f'.queue : ~f'.queue[k].squashed /\ f'.queue[k].state = "wait"
    BY <1>1, <1>3 DEF FetchInv, InstsSound, SameMarks
  <2> QED BY <1>1, <1>3, <2>1, <2>2, SameSets DEF InstsSound
<1>9. DrainStops'
  <2>1. ~c.drainImminent
    BY <1>1, <1>2, HeadFacts DEF FetchInv, DrainStops
  <2> QED BY <1>1, <1>4, <2>1 DEF FetchInv, DrainStops
<1> QED BY <1>5, <1>6, <1>7, <1>8, <1>9 DEF FetchInv

\* The walk goes on, and an interrupt is told to fetch.
LEMMA WalkFacts ==
  ASSUME FetchInv, Walk
  PROVE  /\ phase = "walk" /\ phase' = "squash"
         /\ UNCHANGED <<sc, f, tlb, icache, rob, x, raised, seen>>
         /\ c' \in CommitState /\ c'.pc = c.pc /\ c'.trap = c.trap
         /\ c'.canHandleInterrupts = c.canHandleInterrupts
         /\ c'.drainImminent = c.drainImminent
         /\ \/ c'.status = c.status
            \/ c.status = "ROBSquashing" /\ c'.status = "Running"
         /\ c.drainImminent => c'.interrupt = c.interrupt
         /\ sig' \in Signal /\ sig'.squash = sig.squash /\ ~sig.squash
<1> DEFINE status == IF c.status = "ROBSquashing" /\ c.walk = 0 THEN "Running" ELSE c.status
           propagate == /\ raised /\ status # "TrapPending" /\ ~c.interrupt
                        /\ c.trap # "squash" /\ ~c.drainImminent
                        /\ ~x.on /\ ~x.restoreNow /\ ~x.restoreNext
           walk == IF c.walk = 0 THEN 0 ELSE c.walk - 1
           interrupt == c.interrupt \/ propagate
<1>1. /\ phase = "walk" /\ phase' = "squash"
      /\ UNCHANGED <<sc, f, tlb, icache, rob, x, raised, seen>>
      /\ c' = [c EXCEPT !.status = status, !.walk = IF @ = 0 THEN 0 ELSE @ - 1,
                        !.interrupt = @ \/ propagate]
      /\ sig' = [sig EXCEPT !.interrupt = propagate]
  BY DEF Walk, cpuVars
<1>2. c \in CommitState /\ sig \in Signal
  BY DEF FetchInv, Types
<1>3. c' = [c EXCEPT !.status = status, !.walk = walk, !.interrupt = interrupt]
  BY <1>1, <1>2 DEF CommitState
<1>4. /\ propagate \in BOOLEAN /\ interrupt \in BOOLEAN /\ walk \in Int
      /\ status = c.status \/ (c.status = "ROBSquashing" /\ status = "Running")
      /\ c.drainImminent => interrupt = c.interrupt
  BY <1>2, CommitFields
<1> HIDE DEF status, propagate, walk, interrupt
<1>5. status \in {"Running", "ROBSquashing", "TrapPending", "SquashAfterPending"}
  BY <1>2, <1>4 DEF CommitState
<1>6. /\ c' \in CommitState /\ c'.pc = c.pc /\ c'.trap = c.trap /\ c'.status = status
      /\ c'.canHandleInterrupts = c.canHandleInterrupts
      /\ c'.drainImminent = c.drainImminent /\ c'.interrupt = interrupt
  BY <1>2, <1>3, <1>4, <1>5 DEF CommitState
<1>7. sig' \in Signal /\ sig'.squash = sig.squash /\ ~sig.squash
  BY <1>1, <1>2, <1>4 DEF Signal, FetchInv, SquashHeard
<1> QED BY <1>1, <1>4, <1>6, <1>7

LEMMA WalkFetch ==
  ASSUME FetchInv, Walk
  PROVE  FetchInv'
<1>1. /\ phase' = "squash" /\ UNCHANGED <<sc, f, tlb, icache, rob, x>>
      /\ c' \in CommitState /\ c'.trap = c.trap /\ c'.drainImminent = c.drainImminent
      /\ \/ c'.status = c.status
         \/ c.status = "ROBSquashing" /\ c'.status = "Running"
      /\ c.drainImminent => c'.interrupt = c.interrupt
      /\ sig' \in Signal /\ sig'.squash = sig.squash /\ ~sig.squash
  BY WalkFacts
<1>2. Types'
  BY <1>1, SameSets DEF FetchInv, Types, Phases
<1>3. OneAccess'
  BY <1>1 DEF FetchInv, OneAccess
<1>4. InstsSound'
  BY <1>1, SameSets DEF FetchInv, InstsSound
<1>5. TrapPaired' /\ SquashHeard'
  BY <1>1 DEF FetchInv, TrapPaired, SquashHeard
<1>6. DrainStops'
  BY <1>1 DEF FetchInv, DrainStops
<1> QED BY <1>2, <1>3, <1>4, <1>5, <1>6 DEF FetchInv

LEMMA EndFacts ==
  ASSUME FetchInv, EndOfTick
  PROVE  /\ phase = "end" /\ phase' = "events" /\ seen' = Nobody
         /\ UNCHANGED <<sc, tlb, icache, rob, sig, raised>>
         /\ x' \in Mode /\ x'.on = x.on /\ x'.exit = x.exit /\ x'.storedPc = x.storedPc
         /\ x'.restoreNow = x.restoreNext /\ ~x'.restoreNext /\ x'.warm = x.warm
         /\ x'.regs = IF x.restoreNow THEN "arch" ELSE x.regs
         /\ c' \in CommitState /\ c' = [c EXCEPT !.n = 0]
         /\ c'.status = c.status /\ c'.pc = c.pc /\ c'.trap = c.trap
         /\ c'.canHandleInterrupts = c.canHandleInterrupts /\ c'.interrupt = c.interrupt
         /\ c'.drainImminent = c.drainImminent
         /\ f' \in FetchState /\ f'.status = f.status /\ f'.pc = f.pc
         /\ f'.line = f.line /\ f'.valid = f.valid /\ f'.data = f.data
         /\ f'.retryPkt = f.retryPkt /\ f'.cacheBlocked = f.cacheBlocked
         /\ f'.drainStall = f.drainStall /\ f'.queue = f.queue
<1>1. /\ phase = "end" /\ phase' = "events" /\ seen' = Nobody
      /\ UNCHANGED <<sc, tlb, icache, rob, sig, raised>>
      /\ x' = [x EXCEPT !.restoreNow = x.restoreNext, !.restoreNext = FALSE,
                        !.regs = IF x.restoreNow THEN "arch" ELSE @]
      /\ c' = [c EXCEPT !.n = 0]
      /\ f' = [f EXCEPT !.fresh = 0]
  BY DEF EndOfTick
<1>2. f \in FetchState /\ c \in CommitState /\ x \in Mode
  BY DEF FetchInv, Types
<1>3. /\ x' \in Mode /\ x'.on = x.on /\ x'.exit = x.exit /\ x'.storedPc = x.storedPc
      /\ x'.restoreNow = x.restoreNext /\ ~x'.restoreNext /\ x'.warm = x.warm
      /\ x'.regs = IF x.restoreNow THEN "arch" ELSE x.regs
  BY <1>1, <1>2 DEF Mode
<1>4. /\ c' \in CommitState /\ c'.status = c.status /\ c'.pc = c.pc /\ c'.trap = c.trap
      /\ c'.canHandleInterrupts = c.canHandleInterrupts /\ c'.interrupt = c.interrupt
      /\ c'.drainImminent = c.drainImminent
  BY <1>1, <1>2 DEF CommitState
<1>5. /\ f' \in FetchState /\ f'.status = f.status /\ f'.pc = f.pc
      /\ f'.line = f.line /\ f'.valid = f.valid /\ f'.data = f.data
      /\ f'.retryPkt = f.retryPkt /\ f'.cacheBlocked = f.cacheBlocked
      /\ f'.drainStall = f.drainStall /\ f'.queue = f.queue
  BY <1>1, <1>2 DEF FetchState
<1> QED BY <1>1, <1>3, <1>4, <1>5

LEMMA EndFetch ==
  ASSUME FetchInv, EndOfTick
  PROVE  FetchInv'
<1>1. Types'
  BY EndFacts, SameSets DEF FetchInv, Types, Phases
<1>2. OneAccess'
  BY EndFacts DEF FetchInv, OneAccess
<1>3. InstsSound'
  BY EndFacts, SameSets DEF FetchInv, InstsSound
<1>4. TrapPaired' /\ SquashHeard'
  BY EndFacts DEF FetchInv, TrapPaired, SquashHeard
<1>5. DrainStops'
  BY EndFacts DEF FetchInv, DrainStops
<1> QED BY <1>1, <1>2, <1>3, <1>4, <1>5 DEF FetchInv

\* A squash of commit, of everything behind the first keep instructions.
LEMMA RedirectFacts ==
  ASSUME FetchInv, phase = "squash", NEW keep \in 0..Len(rob), NEW pc \in Pos, NEW trap,
         trap = "none", Redirect(keep, pc, trap)
  PROVE  /\ phase' = "end" /\ sig' \in Signal /\ sig'.squash /\ sig'.pc = pc
         /\ c' \in CommitState /\ c'.status = "ROBSquashing" /\ c'.trap = "none"
         /\ c'.pc = (IF keep = 0 THEN pc ELSE c.pc)
         /\ c'.canHandleInterrupts = c.canHandleInterrupts /\ c'.interrupt = c.interrupt
         /\ c'.drainImminent = c.drainImminent
         /\ Kept(rob, rob')
         /\ \A k \in DOMAIN rob : rob'[k].squashed <=> rob[k].squashed \/ k > keep
<1> DEFINE r == [k \in DOMAIN rob |->
                   [rob[k] EXCEPT !.squashed = @ \/ k > keep, !.redirect = FALSE]]
           walk == WalkLength(keep)
<1>1. /\ phase' = "end" /\ sig' = [sig EXCEPT !.squash = TRUE, !.pc = pc]
      /\ c' = [c EXCEPT !.status = "ROBSquashing", !.walk = walk, !.trap = "none",
                        !.pc = IF keep = 0 THEN pc ELSE @]
      /\ rob' = r
  BY DEF Redirect, SquashBehind
<1>2. rob \in Seq(Inst) /\ c \in CommitState /\ sig \in Signal
  BY DEF FetchInv, Types
<1>3. sig' \in Signal /\ sig'.squash /\ sig'.pc = pc
  BY <1>1, <1>2 DEF Signal
<1>4. walk \in Int
  <2>1. Len(rob) \in Nat /\ SquashWidth \in Nat \ {0} /\ keep \in Int
    BY <1>2, WidthAssumption
  <2> QED BY <2>1 DEF WalkLength
<1>5. /\ c' \in CommitState /\ c'.status = "ROBSquashing" /\ c'.trap = "none"
      /\ c'.pc = (IF keep = 0 THEN pc ELSE c.pc)
      /\ c'.canHandleInterrupts = c.canHandleInterrupts /\ c'.interrupt = c.interrupt
      /\ c'.drainImminent = c.drainImminent
  <2> HIDE DEF walk
  <2>1. PICK p \in Pos : p = IF keep = 0 THEN pc ELSE c.pc
    BY <1>2, CommitFields
  <2>2. c' = [c EXCEPT !.status = "ROBSquashing", !.walk = walk, !.trap = "none", !.pc = p]
    BY <1>1, <1>2, <2>1 DEF CommitState
  <2> QED BY <1>2, <1>4, <2>1, <2>2 DEF CommitState
<1>6. \A k \in DOMAIN rob :
        /\ r[k] \in Inst /\ r[k].pos = rob[k].pos /\ r[k].runahead = rob[k].runahead
        /\ r[k].state = rob[k].state
        /\ r[k].squashed <=> rob[k].squashed \/ k > keep
  <2> TAKE k \in DOMAIN rob
  <2>1. rob[k] \in Inst
    BY <1>2, Domains
  <2>2. PICK b \in BOOLEAN : b <=> rob[k].squashed \/ k > keep
    OBVIOUS
  <2>3. r[k] = [rob[k] EXCEPT !.squashed = rob[k].squashed \/ k > keep, !.redirect = FALSE]
    BY <2>1 DEF Inst
  <2>4. (rob[k].squashed \/ k > keep) = b
    BY <2>1, <2>2, InstFields
  <2>5. r[k] = [rob[k] EXCEPT !.squashed = b, !.redirect = FALSE]
    BY <2>3, <2>4
  <2> HIDE DEF r
  <2> QED BY <2>1, <2>2, <2>5 DEF Inst
<1>7. DOMAIN r = DOMAIN rob /\ r = [k \in DOMAIN rob |-> r[k]]
  OBVIOUS
<1> HIDE DEF r
<1>8. \A k \in DOMAIN rob :
        /\ r[k] \in Inst /\ r[k].pos = rob[k].pos
        /\ rob[k].squashed => r[k].squashed
        /\ rob[k].runahead => r[k].runahead
        /\ r[k].state = "sent" => rob[k].state = "sent" \/ prog[rob[k].pos].kind = "load"
  BY <1>6
<1>9. Kept(rob, r)
  BY <1>2, <1>7, <1>8, AllChanged
<1>10. \A k \in DOMAIN rob : r[k].squashed <=> rob[k].squashed \/ k > keep
  BY <1>6
<1> QED BY <1>1, <1>3, <1>5, <1>9, <1>10

\* The squashes commit chooses from: all, at an exit all, or behind a branch.
RedirectsAll ==
  /\ UNCHANGED <<f, x>>
  /\ Redirect(0, c.pc, "none")

RedirectsExit ==
  /\ x.exit /\ UNCHANGED f
  /\ x' = [x EXCEPT !.on = FALSE, !.exit = FALSE, !.restoreNext = TRUE, !.warm = x.storedPc]
  /\ Redirect(0, x.storedPc, "none")

RedirectsBehind(k) ==
  /\ k \in DOMAIN rob /\ ~rob[k].squashed
  /\ c.trap = "none" /\ ~c.drainImminent /\ UNCHANGED x
  /\ f' = [f EXCEPT !.trained = TRUE]
  /\ Redirect(k, Succ(rob[k].pos), "none")

Stays == phase' = "end" /\ UNCHANGED <<rob, f, c, sig, x>>

Receives == phase' = "insts" /\ GetInsts /\ UNCHANGED <<c, sig, x>>

LEMMA SquashChoices ==
  ASSUME FetchInv, Squash
  PROVE  /\ phase = "squash" /\ ~sig.squash /\ UNCHANGED <<sc, tlb, icache, raised, seen>>
         /\ \/ RedirectsAll
            \/ RedirectsExit
            \/ \E k \in DOMAIN rob : RedirectsBehind(k)
            \/ Stays
            \/ Receives
<1>1. phase = "squash" /\ UNCHANGED <<sc, tlb, icache, raised, seen>>
  BY DEF Squash, cpuVars
<1>2. ~sig.squash
  BY <1>1 DEF FetchInv, SquashHeard
<1>3. rob \in Seq(Inst) /\ c.trap \in {"none", "event", "squash"}
  BY CommitFields DEF FetchInv, Types
<1>4. c.trap # "none" <=> c.status = "TrapPending"
  BY DEF FetchInv, TrapPaired
<1>5. CASE c.trap = "squash" \/ c.status = "SquashAfterPending"
  <2>1. Redirect(0, c.pc, IF c.trap = "squash" THEN "none" ELSE c.trap) /\ UNCHANGED <<f, x>>
    BY <1>5 DEF Squash
  <2>2. (IF c.trap = "squash" THEN "none" ELSE c.trap) = "none"
    BY <1>4, <1>5
  <2>3. Redirect(0, c.pc, "none")
    BY <2>1, <2>2
  <2> QED BY <1>1, <1>2, <2>1, <2>3 DEF RedirectsAll
<1>6. CASE c.trap # "squash" /\ c.status # "SquashAfterPending" /\ x.exit
  BY <1>1, <1>2, <1>6 DEF Squash, RedirectsExit
<1>7. CASE c.trap # "squash" /\ c.status # "SquashAfterPending" /\ ~x.exit
  <2>1. UNCHANGED x
    BY <1>7 DEF Squash
  <2>2. CASE Redirects # {} /\ c.status # "TrapPending"
    <3>1. Redirect(Min(Redirects), Succ(rob[Min(Redirects)].pos), c.trap)
          /\ f' = [f EXCEPT !.trained = TRUE]
      BY <1>7, <2>2 DEF Squash
    <3>2. Min(Redirects) \in Redirects
      <4>1. Redirects \subseteq Nat
        BY <1>3, Domains DEF Redirects
      <4>2. \E k \in Redirects : \A j \in Redirects : k <= j
        <5> DEFINE R == OpToRel(<, Nat)
        <5>1. \E k \in Redirects : \A j \in Redirects : ~(<<j, k>> \in R)
          <6>1. IsWellFoundedOn(R, Nat)
            BY NatLessThanWellFounded
          <6> HIDE DEF R
          <6> QED BY <2>2, <4>1, <6>1, WFMin
        <5>2. PICK k \in Redirects : \A j \in Redirects : ~(<<j, k>> \in R)
          BY <5>1
        <5>3. ASSUME NEW j \in Redirects PROVE k <= j
          <6>1. k \in Nat /\ j \in Nat /\ ~(<<j, k>> \in R)
            BY <4>1, <5>2
          <6> QED BY <6>1 DEF OpToRel
        <5> HIDE DEF R
        <5> QED BY <5>3
      <4> QED BY <4>2 DEF Min
    <3>3. PICK k : k = Min(Redirects)
      OBVIOUS
    <3>4. k \in DOMAIN rob /\ ~rob[k].squashed
      BY <3>2, <3>3 DEF Redirects
    <3>5. c.trap = "none"
      BY <1>4, <2>2
    <3>6. ~c.drainImminent
      BY <1>7, <3>4 DEF FetchInv, DrainStops
    <3>7. RedirectsBehind(k)
      BY <2>1, <3>1, <3>3, <3>4, <3>5, <3>6 DEF RedirectsBehind
    <3> QED BY <1>1, <1>2, <3>4, <3>7
  <2>3. CASE Redirects = {} \/ c.status = "TrapPending"
    BY <1>1, <1>2, <1>7, <2>3 DEF Squash, Stays, Receives
  <2> QED BY <2>2, <2>3
<1> QED BY <1>3, <1>5, <1>6, <1>7

\* What rename delivers goes from the queue to the end of the reorder buffer.
LEMMA ReceivesFacts ==
  ASSUME FetchInv, Receives
  PROVE  /\ rob \in Seq(Inst) /\ f.queue \in Seq(Inst)
         /\ rob' \in Seq(Inst) /\ f' \in FetchState /\ f'.pc = f.pc
         /\ f'.status = f.status /\ f'.line = f.line /\ f'.valid = f.valid
         /\ f'.data = f.data /\ f'.retryPkt = f.retryPkt
         /\ f'.cacheBlocked = f.cacheBlocked /\ f'.drainStall = f.drainStall
         /\ \E n \in 0..Len(f.queue) :
              /\ n > 0 => c.status # "TrapPending"
              /\ Len(rob') = Len(rob) + n /\ Len(rob') <= RobSize
              /\ Len(f'.queue) = Len(f.queue) - n
              /\ \A k \in DOMAIN rob :
                   /\ rob'[k].pos = rob[k].pos /\ rob'[k].state = rob[k].state
                   /\ rob'[k].squashed <=> rob[k].squashed
                   /\ rob'[k].runahead <=> rob[k].runahead
              /\ \A k \in 1..n : rob'[Len(rob) + k] = f.queue[k]
              /\ \A k \in DOMAIN f'.queue : f'.queue[k] = f.queue[n + k]
<1>1. /\ rob \in Seq(Inst) /\ f \in FetchState /\ f.queue \in Seq(Inst) /\ f.fresh \in Nat
      /\ Len(rob) <= RobSize /\ RobSize \in Nat
  BY FetchFields, WidthAssumption DEF FetchInv, Types
<1> DEFINE r == [k \in DOMAIN rob |-> [rob[k] EXCEPT !.redirect = FALSE]]
<1>2. PICK n \in 0..(Len(f.queue) - f.fresh) :
        /\ n > 0 => Len(rob) + n <= RobSize /\ c.status # "TrapPending"
        /\ rob' = r \o SubSeq(f.queue, 1, n)
        /\ f' = [f EXCEPT !.queue = SubSeq(@, n + 1, Len(@))]
  BY DEF Receives, GetInsts
<1>3. n \in 0..Len(f.queue) /\ Len(f.queue) \in Nat /\ Len(rob) \in Nat
  BY <1>1
<1>4. \A k \in DOMAIN rob :
        /\ r[k] \in Inst /\ r[k].pos = rob[k].pos /\ r[k].state = rob[k].state
        /\ r[k].squashed <=> rob[k].squashed
        /\ r[k].runahead <=> rob[k].runahead
  <2> TAKE k \in DOMAIN rob
  <2>1. rob[k] \in Inst
    BY <1>1, Domains
  <2> QED BY <2>1 DEF Inst
<1>5. DOMAIN r = DOMAIN rob /\ r = [k \in DOMAIN rob |-> r[k]]
  OBVIOUS
<1> HIDE DEF r
<1>6. r \in Seq(Inst) /\ Len(r) = Len(rob)
  BY <1>1, <1>4, <1>5, EachInst
<1> DEFINE a == SubSeq(f.queue, 1, n)
           b == SubSeq(f.queue, n + 1, Len(f.queue))
<1>7. a \in Seq(Inst) /\ Len(a) = n /\ \A k \in 1..n : a[k] = f.queue[k]
  <2>1. \A i \in 1..n : f.queue[i] \in Inst
    BY <1>1, <1>3
  <2>2. a \in Seq(Inst) /\ Len(a) = (IF 1 <= n THEN n - 1 + 1 ELSE 0)
        /\ \A i \in 1..(n - 1 + 1) : a[i] = f.queue[1 + i - 1]
    BY <1>3, <2>1, SubSeqProperties
  <2> HIDE DEF a
  <2> QED BY <1>3, <2>2
<1>8. /\ b \in Seq(Inst) /\ Len(b) = Len(f.queue) - n
      /\ \A k \in 1..(Len(f.queue) - n) : b[k] = f.queue[n + k]
  <2>1. \A i \in (n + 1)..Len(f.queue) : f.queue[i] \in Inst
    BY <1>1, <1>3
  <2>2. /\ b \in Seq(Inst)
        /\ Len(b) = (IF n + 1 <= Len(f.queue) THEN Len(f.queue) - (n + 1) + 1 ELSE 0)
        /\ \A i \in 1..(Len(f.queue) - (n + 1) + 1) : b[i] = f.queue[(n + 1) + i - 1]
    <3>1. n + 1 \in Int /\ Len(f.queue) \in Int
      BY <1>3
    <3> QED BY <2>1, <3>1, SubSeqProperties
  <2> HIDE DEF b
  <2> QED BY <1>3, <2>2
<1>9. rob' = r \o a /\ f' = [f EXCEPT !.queue = b]
  BY <1>1, <1>2 DEF FetchState
<1> HIDE DEF a, b
<1>10. /\ rob' \in Seq(Inst) /\ Len(rob') = Len(rob) + n
       /\ \A k \in 1..(Len(rob) + n) :
            rob'[k] = IF k <= Len(rob) THEN r[k] ELSE a[k - Len(rob)]
  <2>1. /\ r \o a \in Seq(Inst) /\ Len(r \o a) = Len(r) + Len(a)
        /\ \A k \in 1..(Len(r) + Len(a)) :
             (r \o a)[k] = IF k <= Len(r) THEN r[k] ELSE a[k - Len(r)]
    BY <1>6, <1>7, ConcatProperties
  <2> QED BY <1>6, <1>7, <1>9, <2>1
<1>11. /\ f' \in FetchState /\ f'.pc = f.pc /\ f'.queue = b
       /\ f'.status = f.status /\ f'.line = f.line /\ f'.valid = f.valid
       /\ f'.data = f.data /\ f'.retryPkt = f.retryPkt
       /\ f'.cacheBlocked = f.cacheBlocked /\ f'.drainStall = f.drainStall
  BY <1>1, <1>8, <1>9 DEF FetchState
<1>12. Len(rob') <= RobSize
  BY <1>1, <1>2, <1>3, <1>10
<1>13. ASSUME NEW k \in DOMAIN rob PROVE rob'[k] = r[k]
  BY <1>1, <1>3, <1>10
<1>14. ASSUME NEW k \in 1..n PROVE rob'[Len(rob) + k] = f.queue[k]
  <2>1. Len(rob) + k \in 1..(Len(rob) + n) /\ ~(Len(rob) + k <= Len(rob))
        /\ (Len(rob) + k) - Len(rob) = k
    BY <1>3
  <2> QED BY <1>7, <1>10, <2>1
<1>15. ASSUME NEW k \in DOMAIN f'.queue PROVE f'.queue[k] = f.queue[n + k]
  BY <1>3, <1>8, <1>11
<1>16. /\ n > 0 => c.status # "TrapPending"
       /\ Len(rob') = Len(rob) + n /\ Len(rob') <= RobSize
       /\ Len(f'.queue) = Len(f.queue) - n
       /\ \A k \in DOMAIN rob :
            /\ rob'[k].pos = rob[k].pos /\ rob'[k].state = rob[k].state
            /\ rob'[k].squashed <=> rob[k].squashed
            /\ rob'[k].runahead <=> rob[k].runahead
       /\ \A k \in 1..n : rob'[Len(rob) + k] = f.queue[k]
       /\ \A k \in DOMAIN f'.queue : f'.queue[k] = f.queue[n + k]
  BY ZenonT(60), <1>2, <1>4, <1>8, <1>10, <1>11, <1>12, <1>13, <1>14, <1>15
<1> QED BY <1>1, <1>3, <1>10, <1>11, <1>16

\* What the rest of FetchInv' asks after a squash of commit.
LEMMA RedirectFetch ==
  ASSUME FetchInv, phase = "squash", UNCHANGED <<sc, tlb, icache>>,
         NEW keep \in 0..Len(rob), NEW pc \in Pos, Redirect(keep, pc, "none"),
         c.drainImminent => keep = 0,
         f' = f \/ f' = [f EXCEPT !.trained = TRUE],
         x' \in Mode, x'.on => x.on, x'.exit => x'.on
  PROVE  FetchInv'
<1>1. /\ phase' = "end" /\ sig' \in Signal /\ sig'.squash
      /\ c' \in CommitState /\ c'.status = "ROBSquashing" /\ c'.trap = "none"
      /\ c'.interrupt = c.interrupt /\ c'.drainImminent = c.drainImminent
      /\ Kept(rob, rob')
      /\ \A k \in DOMAIN rob : rob'[k].squashed <=> rob[k].squashed \/ k > keep
  BY RedirectFacts
<1>2. rob \in Seq(Inst) /\ f \in FetchState
  BY DEF FetchInv, Types
<1>3. DOMAIN rob' = DOMAIN rob /\ Len(rob') = Len(rob) /\ rob' \in Seq(Inst)
      /\ DOMAIN rob = 1..Len(rob)
  BY <1>1, <1>2, Domains DEF Kept
<1>4. /\ f' \in FetchState /\ f'.queue = f.queue
      /\ f'.status = f.status /\ f'.line = f.line /\ f'.valid = f.valid
      /\ f'.data = f.data /\ f'.retryPkt = f.retryPkt
      /\ f'.cacheBlocked = f.cacheBlocked /\ f'.drainStall = f.drainStall
  BY <1>2 DEF FetchState
<1>5. Types'
  BY <1>1, <1>3, <1>4, SameSets DEF FetchInv, Types, Phases
<1>6. OneAccess'
  BY <1>4 DEF FetchInv, OneAccess
<1>7. TrapPaired' /\ SquashHeard'
  BY <1>1 DEF TrapPaired, SquashHeard
<1>8. InstsSound'
  <2>1. \A k \in DOMAIN rob' : /\ rob'[k].state = "sent" => prog[rob'[k].pos].kind = "load"
                               /\ x.on => rob'[k].runahead
    BY <1>1, <1>3 DEF FetchInv, InstsSound, Kept
  <2> QED BY <1>3, <1>4, <2>1, SameSets DEF FetchInv, InstsSound
<1>9. DrainStops'
  <2>1. c.drainImminent => \A k \in DOMAIN rob' : rob'[k].squashed
    BY <1>1, <1>3
  <2> QED BY <1>1, <1>4, <2>1 DEF FetchInv, DrainStops
<1> QED BY <1>5, <1>6, <1>7, <1>8, <1>9 DEF FetchInv

LEMMA SquashFetch ==
  ASSUME FetchInv, Squash
  PROVE  FetchInv'
<1>1. /\ phase = "squash" /\ ~sig.squash /\ UNCHANGED <<sc, tlb, icache>>
      /\ \/ RedirectsAll
         \/ RedirectsExit
         \/ \E k \in DOMAIN rob : RedirectsBehind(k)
         \/ Stays
         \/ Receives
  BY SquashChoices
<1>2. /\ sc \in Scenarios /\ rob \in Seq(Inst) /\ c \in CommitState /\ x \in Mode
      /\ c.pc \in Pos /\ x.storedPc \in Pos /\ Len(rob) \in Nat
  BY CommitFields DEF FetchInv, Types, Mode
<1>3. CASE RedirectsAll
  <2>1. 0 \in 0..Len(rob) /\ x' = x /\ f' = f /\ Redirect(0, c.pc, "none")
    BY <1>2, <1>3 DEF RedirectsAll
  <2>2. x' \in Mode /\ (x'.on => x.on) /\ (x'.exit => x'.on)
    BY <1>2, <2>1 DEF FetchInv, TrapPaired
  <2> QED BY <1>1, <1>2, <2>1, <2>2, RedirectFetch
<1>4. CASE RedirectsExit
  <2>1. 0 \in 0..Len(rob) /\ f' = f /\ Redirect(0, x.storedPc, "none")
    BY <1>2, <1>4 DEF RedirectsExit
  <2>2. x' \in Mode /\ ~x'.on /\ ~x'.exit
    <3>1. x.storedPc \in Nat
      BY <1>2, ProgramFacts
    <3>2. x' = [x EXCEPT !.on = FALSE, !.exit = FALSE, !.restoreNext = TRUE,
                         !.warm = x.storedPc]
      BY <1>4 DEF RedirectsExit
    <3> QED BY <1>2, <3>1, <3>2 DEF Mode
  <2> QED BY <1>1, <1>2, <2>1, <2>2, RedirectFetch
<1>5. CASE \E k \in DOMAIN rob : RedirectsBehind(k)
  <2>1. PICK k \in DOMAIN rob : RedirectsBehind(k)
    BY <1>5
  <2>2. /\ k \in 0..Len(rob) /\ Redirect(k, Succ(rob[k].pos), "none") /\ x' = x
        /\ f' = [f EXCEPT !.trained = TRUE] /\ ~c.drainImminent
    BY <1>2, <2>1 DEF RedirectsBehind
  <2>3. Succ(rob[k].pos) \in Pos
    BY <1>2, Domains, InstFields, ProgramFacts
  <2>4. x' \in Mode /\ (x'.on => x.on) /\ (x'.exit => x'.on)
    BY <1>2, <2>2 DEF FetchInv, TrapPaired
  <2> QED BY <1>1, <2>2, <2>3, <2>4, RedirectFetch
<1>6. CASE Stays
  <2>1. phase' = "end" /\ UNCHANGED <<rob, f, c, sig, x>>
    BY <1>6 DEF Stays
  <2>2. TrapPaired' /\ SquashHeard' /\ (c'.drainImminent => ~c'.interrupt)
    BY <2>1 DEF FetchInv, TrapPaired, SquashHeard, DrainStops
  <2>3. phase' \in Phases /\ c' \in CommitState /\ sig' \in Signal /\ x' \in Mode
    BY <2>1 DEF FetchInv, Types, Phases
  <2> QED BY <1>1, <2>1, <2>2, <2>3, CommitOnly
<1>7. CASE Receives
  <2>1. phase' = "insts" /\ UNCHANGED <<c, sig, x>>
    BY <1>7 DEF Receives
  <2>2. /\ rob \in Seq(Inst) /\ f.queue \in Seq(Inst)
        /\ rob' \in Seq(Inst) /\ f' \in FetchState
        /\ f'.status = f.status /\ f'.line = f.line /\ f'.valid = f.valid
        /\ f'.data = f.data /\ f'.retryPkt = f.retryPkt
        /\ f'.cacheBlocked = f.cacheBlocked /\ f'.drainStall = f.drainStall
    BY <1>7, ReceivesFacts
  <2>3. PICK n \in 0..Len(f.queue) :
          /\ Len(rob') = Len(rob) + n /\ Len(rob') <= RobSize
          /\ Len(f'.queue) = Len(f.queue) - n
          /\ \A k \in DOMAIN rob :
               /\ rob'[k].pos = rob[k].pos /\ rob'[k].state = rob[k].state
               /\ rob'[k].squashed <=> rob[k].squashed
               /\ rob'[k].runahead <=> rob[k].runahead
          /\ \A k \in 1..n : rob'[Len(rob) + k] = f.queue[k]
          /\ \A k \in DOMAIN f'.queue : f'.queue[k] = f.queue[n + k]
    BY <1>7, ReceivesFacts
  <2>4. f'.queue \in Seq(Inst) /\ Len(f.queue) \in Nat /\ Len(rob) \in Nat
    BY <2>2, FetchFields
  <2>5. Types'
    <3>1. Len(f'.queue) <= QueueSize
      BY <2>3, <2>4, WidthAssumption DEF FetchInv, Types
    <3> QED BY <1>1, <2>1, <2>2, <2>3, <3>1, SameSets DEF FetchInv, Types, Phases
  <2>6. OneAccess'
    BY <1>1, <2>2 DEF FetchInv, OneAccess
  <2>7. TrapPaired' /\ SquashHeard'
    BY <1>1, <2>1 DEF FetchInv, TrapPaired, SquashHeard
  <2>8. \A k \in DOMAIN rob' :
          \/ k \in DOMAIN rob /\ rob'[k].pos = rob[k].pos /\ rob'[k].state = rob[k].state
             /\ (rob'[k].runahead <=> rob[k].runahead)
          \/ \E j \in DOMAIN f.queue : rob'[k] = f.queue[j]
    <3> TAKE k \in DOMAIN rob'
    <3>1. k \in 1..(Len(rob) + n)
      BY <2>2, <2>3
    <3>2. CASE k <= Len(rob)
      BY <2>2, <2>3, <2>4, <3>1, <3>2
    <3>3. CASE k > Len(rob)
      <4> DEFINE j == k - Len(rob)
      <4>1. j \in 1..n /\ Len(rob) + j = k
        BY <2>3, <2>4, <3>1, <3>3
      <4>2. j \in DOMAIN f.queue
        BY <2>2, <2>3, <2>4, <4>1
      <4>3. rob'[Len(rob) + j] = f.queue[j]
        BY <2>3, <4>1
      <4> HIDE DEF j
      <4> QED BY <4>1, <4>2, <4>3
    <3> QED BY <2>4, <3>1, <3>2, <3>3
  <2>9. \A k \in DOMAIN f'.queue : \E j \in DOMAIN f.queue : f'.queue[k] = f.queue[j]
    <3> TAKE k \in DOMAIN f'.queue
    <3>1. n + k \in DOMAIN f.queue
      BY <2>2, <2>3, <2>4
    <3> QED BY <2>3, <3>1
  <2>10. InstsSound'
    <3>1. \A k \in DOMAIN rob' : rob'[k].state = "sent" => prog[rob'[k].pos].kind = "load"
      BY <2>8 DEF FetchInv, InstsSound
    <3>2. x.on => \A k \in DOMAIN rob' : rob'[k].runahead
      BY <2>8 DEF FetchInv, InstsSound
    <3>3. \A k \in DOMAIN f'.queue : /\ ~f'.queue[k].squashed /\ f'.queue[k].state = "wait"
                                     /\ x.on => f'.queue[k].runahead
      BY <2>9 DEF FetchInv, InstsSound
    <3> QED BY <1>1, <2>1, <3>1, <3>2, <3>3, SameSets DEF InstsSound
  <2>11. DrainStops'
    <3>1. c.drainImminent /\ c.status # "SquashAfterPending" =>
            (\A k \in DOMAIN rob' : rob'[k].squashed) /\ f'.queue = <<>>
      <4> SUFFICES ASSUME c.drainImminent, c.status # "SquashAfterPending"
                   PROVE  (\A k \in DOMAIN rob' : rob'[k].squashed) /\ f'.queue = <<>>
        OBVIOUS
      <4>1. (\A k \in DOMAIN rob : rob[k].squashed) /\ f.queue = <<>>
        BY <1>1 DEF FetchInv, DrainStops
      <4>2. n = 0 /\ Len(f'.queue) = 0
        BY <2>3, <4>1
      <4>3. DOMAIN rob' = DOMAIN rob
        BY <2>2, <2>3, <4>2
      <4> QED BY <2>3, <2>4, <4>1, <4>2, <4>3
    <3> QED BY <2>1, <2>2, <3>1 DEF FetchInv, DrainStops
  <2> QED BY <2>5, <2>6, <2>7, <2>10, <2>11 DEF FetchInv
<1> QED BY <1>1, <1>3, <1>4, <1>5, <1>6, <1>7

-----------------------------------------------------------------------------
(* FetchInv is inductive.                                                  *)

LEMMA InitFetch == Init => FetchInv
<1> SUFFICES ASSUME Init PROVE FetchInv
  OBVIOUS
<1>1. sc \in Scenarios /\ 1 \in Pos
  BY ProgramFacts DEF Init
<1>2. /\ phase = "events" /\ tlb = {} /\ icache = {} /\ rob = <<>>
      /\ f = [status |-> "Running", pc |-> 1, macroop |-> FALSE,
              line |-> 0, valid |-> FALSE, data |-> 0, retryPkt |-> 0,
              cacheBlocked |-> FALSE, drainStall |-> FALSE, interruptPending |-> FALSE,
              delayedCommit |-> FALSE, queue |-> <<>>, fresh |-> 0, trained |-> FALSE]
      /\ c = [status |-> "Running", pc |-> 1, walk |-> 0, canHandleInterrupts |-> TRUE,
              interrupt |-> FALSE, avoidQuiesceLiveLock |-> FALSE, trap |-> "none",
              drainPending |-> FALSE, drainImminent |-> FALSE, n |-> 0]
      /\ sig = [squash |-> FALSE, pc |-> 1, interrupt |-> FALSE, clear |-> FALSE]
      /\ x = [on |-> FALSE, exit |-> FALSE, storedPc |-> 1,
              restoreNext |-> FALSE, restoreNow |-> FALSE, regs |-> "arch", warm |-> 0]
  BY DEF Init, NoSignal
<1>3. <<>> \in Seq(Inst) /\ Len(<<>>) = 0
  OBVIOUS
<1>4. f \in FetchState
  BY <1>1, <1>2, <1>3 DEF FetchState, FetchStatuses
<1>5. c \in CommitState /\ sig \in Signal /\ x \in Mode
  BY <1>1, <1>2 DEF CommitState, Signal, Mode
<1>6. Types
  <2>1. Len(f.queue) <= QueueSize /\ Len(rob) <= RobSize
    BY <1>2, <1>3, WidthAssumption
  <2> QED BY <1>1, <1>2, <1>3, <1>4, <1>5, <2>1 DEF Types, Phases
<1>7. OneAccess /\ TrapPaired /\ SquashHeard /\ DrainStops
  BY <1>2 DEF OneAccess, TrapPaired, SquashHeard, DrainStops
<1>8. InstsSound
  BY <1>2 DEF InstsSound
<1> QED BY <1>6, <1>7, <1>8 DEF FetchInv

LEMMA StutterFetch ==
  ASSUME FetchInv, UNCHANGED vars
  PROVE  FetchInv'
<1>1. UNCHANGED <<phase, sc, f, tlb, icache, rob, c, sig, x>>
  BY DEF vars
<1>2. phase \in Phases /\ c \in CommitState /\ sig \in Signal /\ x \in Mode
  BY DEF FetchInv, Types
<1>3. TrapPaired' /\ SquashHeard' /\ (c'.drainImminent => ~c'.interrupt)
  BY <1>1 DEF FetchInv, TrapPaired, SquashHeard, DrainStops
<1>4. phase' \in Phases /\ c' \in CommitState /\ sig' \in Signal /\ x' \in Mode
  BY <1>1, <1>2 DEF Phases, CommitState, Signal, Mode
<1> QED BY <1>1, <1>3, <1>4, CommitOnly

LEMMA StepFetch == FetchInv /\ [Next]_vars => FetchInv'
<1> SUFFICES ASSUME FetchInv, [Next]_vars PROVE FetchInv'
  OBVIOUS
<1>1. CASE \/ Tick \/ PostInterrupt \/ Drain \/ ProcessTrapEvent \/ ExitDue
           \/ ClearInterrupt \/ StopCommit
  BY <1>1, QuietFetch
<1>2. CASE FetchTick
  BY <1>2, FetchTickFetch
<1>3. CASE Answer
  BY <1>3, AnswerFetch
<1>4. CASE (\E k \in DOMAIN rob : Execute(k) \/ Respond(k)) \/ PoisonRunaheadLLL
  BY <1>4, RobEventFetch DEF RobEvent
<1>5. CASE RetireSquashed
  BY <1>5, RetireSquashedFetch
<1>6. CASE CommitHead
  BY <1>6, CommitHeadFetch
<1>7. CASE TrapHead \/ TakeInterrupt
  BY <1>7, TrapsFetch
<1>8. CASE EnterRunahead
  BY <1>8, EnterFetch
<1>9. CASE Walk
  BY <1>9, WalkFetch
<1>10. CASE Squash
  BY <1>10, SquashFetch
<1>11. CASE EndOfTick
  BY <1>11, EndFetch
<1>12. CASE UNCHANGED vars
  BY <1>12, StutterFetch
<1> QED BY <1>1, <1>2, <1>3, <1>4, <1>5, <1>6, <1>7, <1>8, <1>9, <1>10, <1>11, <1>12
           DEF Next, Commit

\* Fetch and commit stay within their types; fetch takes the answer to the one
\* access of its line and no other, keeps a packet just for the retry it waits for
\* (fetch.cc:1451), and once commit has said that it drains nothing is left to
\* retire (commit.cc:1483, fetch.cc:488).
THEOREM FetchInvariance == Spec => []FetchInv
BY InitFetch, StepFetch, PTL DEF Spec

\* FetchSound holds in every state, for every program, width and buffer size: the
\* assertions of Fetch::recvReqRetry and of the drain signals never fail.
THEOREM FetchSoundInvariant == Spec => []FetchSound
<1>1. FetchInv => FetchSound
  <2> SUFFICES ASSUME FetchInv PROVE FetchSound
    OBVIOUS
  <2>1. f \in FetchState /\ c \in CommitState
    BY DEF FetchInv, Types
  <2>2. /\ f.status \in {"Running", "Squashing", "Blocked", "ItlbWait", "IcacheWaitResponse",
                         "IcacheWaitRetry", "IcacheAccessComplete"}
        /\ f.pc \in Pos /\ c.pc \in Pos
        /\ c.status \in {"Running", "ROBSquashing", "TrapPending", "SquashAfterPending"}
    BY <2>1, FetchFields, CommitFields DEF FetchStatuses, Waiting
  <2>3. /\ Len(f.queue) <= QueueSize /\ Len(rob) <= RobSize
        /\ f.retryPkt # 0 => f.status = "IcacheWaitRetry" /\ f.cacheBlocked
        /\ f.valid => f.data = f.line
    BY DEF FetchInv, Types, OneAccess
  <2>4. c.drainImminent /\ c.status = "Running" =>
          f.queue = <<>> /\ \A k \in DOMAIN rob : rob[k].squashed
    BY DEF FetchInv, SquashHeard, DrainStops
  <2> QED BY <2>2, <2>3, <2>4 DEF FetchSound
<1> QED BY <1>1, FetchInvariance, PTL

-----------------------------------------------------------------------------
(* Connected streams.                                                      *)

LEMMA ConcatFacts ==
  ASSUME NEW s \in Seq(Inst), NEW t \in Seq(Inst)
  PROVE  /\ s \o t \in Seq(Inst) /\ Len(s \o t) = Len(s) + Len(t)
         /\ Len(s) \in Nat /\ Len(t) \in Nat
         /\ DOMAIN s = 1..Len(s) /\ DOMAIN t = 1..Len(t)
         /\ DOMAIN (s \o t) = 1..(Len(s) + Len(t))
         /\ \A k \in DOMAIN s : (s \o t)[k] = s[k]
         /\ \A k \in DOMAIN t : (s \o t)[Len(s) + k] = t[k]
<1>1. /\ s \o t \in Seq(Inst) /\ Len(s \o t) = Len(s) + Len(t)
      /\ \A i \in 1..(Len(s) + Len(t)) :
           (s \o t)[i] = IF i <= Len(s) THEN s[i] ELSE t[i - Len(s)]
  BY ConcatProperties
<1>2. /\ Len(s) \in Nat /\ Len(t) \in Nat /\ DOMAIN s = 1..Len(s) /\ DOMAIN t = 1..Len(t)
  OBVIOUS
<1> DEFINE u == s \o t
<1>3. DOMAIN u = 1..Len(u)
  BY <1>1
<1> HIDE DEF u
<1>4. \A k \in DOMAIN s : u[k] = s[k]
  BY <1>1, <1>2 DEF u
<1>5. ASSUME NEW k \in DOMAIN t PROVE u[Len(s) + k] = t[k]
  <2>1. /\ Len(s) + k \in 1..(Len(s) + Len(t)) /\ ~(Len(s) + k <= Len(s))
        /\ (Len(s) + k) - Len(s) = k
    BY <1>2
  <2> QED BY <1>1, <2>1 DEF u
<1> QED BY <1>1, <1>2, <1>3, <1>4, <1>5 DEF u

LEMMA ConcatGroups ==
  ASSUME NEW r \in Seq(Inst), NEW s \in Seq(Inst), NEW t \in Seq(Inst)
  PROVE  (r \o s) \o t = r \o (s \o t)
<1> DEFINE u == (r \o s) \o t
           v == r \o (s \o t)
<1>1. /\ u \in Seq(Inst) /\ Len(u) = Len(r) + Len(s) + Len(t)
      /\ \A k \in 1..Len(r) : u[k] = r[k]
      /\ \A k \in 1..Len(s) : u[Len(r) + k] = s[k]
      /\ \A k \in 1..Len(t) : u[Len(r) + Len(s) + k] = t[k]
  <2> DEFINE w == r \o s
  <2>1. /\ w \in Seq(Inst) /\ Len(w) = Len(r) + Len(s) /\ DOMAIN w = 1..(Len(r) + Len(s))
        /\ Len(r) \in Nat /\ Len(s) \in Nat /\ DOMAIN r = 1..Len(r) /\ DOMAIN s = 1..Len(s)
        /\ \A k \in DOMAIN r : w[k] = r[k]
        /\ \A k \in DOMAIN s : w[Len(r) + k] = s[k]
    BY ConcatFacts
  <2> HIDE DEF w
  <2>2. /\ w \o t \in Seq(Inst) /\ Len(w \o t) = Len(w) + Len(t) /\ DOMAIN t = 1..Len(t)
        /\ \A k \in DOMAIN w : (w \o t)[k] = w[k]
        /\ \A k \in DOMAIN t : (w \o t)[Len(w) + k] = t[k]
    BY <2>1, ConcatFacts
  <2>3. u = w \o t
    BY DEF w
  <2>4. \A k \in 1..Len(r) : u[k] = r[k]
    BY <2>1, <2>2, <2>3
  <2>5. ASSUME NEW k \in 1..Len(s) PROVE u[Len(r) + k] = s[k]
    <3>1. Len(r) + k \in DOMAIN w
      BY <2>1
    <3>2. (w \o t)[Len(r) + k] = w[Len(r) + k] /\ w[Len(r) + k] = s[k]
      BY <2>1, <2>2, <3>1
    <3> QED BY <2>3, <3>2
  <2>6. \A k \in 1..Len(t) : u[Len(r) + Len(s) + k] = t[k]
    BY <2>1, <2>2, <2>3
  <2>7. u \in Seq(Inst) /\ Len(u) = Len(r) + Len(s) + Len(t)
    BY <2>1, <2>2, <2>3
  <2> HIDE DEF u
  <2> QED BY <2>4, <2>5, <2>6, <2>7
<1>2. /\ v \in Seq(Inst) /\ Len(v) = Len(r) + Len(s) + Len(t)
      /\ \A k \in 1..Len(r) : v[k] = r[k]
      /\ \A k \in 1..Len(s) : v[Len(r) + k] = s[k]
      /\ \A k \in 1..Len(t) : v[Len(r) + Len(s) + k] = t[k]
  <2> DEFINE w == s \o t
  <2>1. /\ w \in Seq(Inst) /\ Len(w) = Len(s) + Len(t) /\ DOMAIN w = 1..(Len(s) + Len(t))
        /\ Len(s) \in Nat /\ Len(t) \in Nat /\ DOMAIN s = 1..Len(s) /\ DOMAIN t = 1..Len(t)
        /\ \A k \in DOMAIN s : w[k] = s[k]
        /\ \A k \in DOMAIN t : w[Len(s) + k] = t[k]
    BY ConcatFacts
  <2> HIDE DEF w
  <2>2. /\ r \o w \in Seq(Inst) /\ Len(r \o w) = Len(r) + Len(w) /\ DOMAIN r = 1..Len(r)
        /\ Len(r) \in Nat
        /\ \A k \in DOMAIN r : (r \o w)[k] = r[k]
        /\ \A k \in DOMAIN w : (r \o w)[Len(r) + k] = w[k]
    BY <2>1, ConcatFacts
  <2>3. v = r \o w
    BY DEF w
  <2>4. ASSUME NEW k \in 1..Len(t) PROVE v[Len(r) + Len(s) + k] = t[k]
    <3>1. Len(s) + k \in DOMAIN w /\ Len(r) + (Len(s) + k) = Len(r) + Len(s) + k
      BY <2>1, <2>2
    <3>2. (r \o w)[Len(r) + (Len(s) + k)] = w[Len(s) + k] /\ w[Len(s) + k] = t[k]
      BY <2>1, <2>2, <3>1
    <3> QED BY <2>3, <3>1, <3>2
  <2> QED BY <2>1, <2>2, <2>3, <2>4
<1>3. Len(r) \in Nat /\ Len(s) \in Nat /\ Len(t) \in Nat
  OBVIOUS
<1> HIDE DEF u, v
<1>4. ASSUME NEW k \in 1..Len(u) PROVE u[k] = v[k]
  <2>1. CASE k <= Len(r)
    BY <1>1, <1>2, <1>3, <2>1
  <2>2. CASE k > Len(r) /\ k <= Len(r) + Len(s)
    <3> DEFINE j == k - Len(r)
    <3>1. j \in 1..Len(s) /\ Len(r) + j = k
      BY <1>1, <1>3, <2>2
    <3> HIDE DEF j
    <3> QED BY <1>1, <1>2, <3>1
  <2>3. CASE k > Len(r) + Len(s)
    <3> DEFINE j == k - (Len(r) + Len(s))
    <3>1. j \in 1..Len(t) /\ Len(r) + Len(s) + j = k
      BY <1>1, <1>3, <2>3
    <3> HIDE DEF j
    <3> QED BY <1>1, <1>2, <3>1
  <2> QED BY <1>1, <1>3, <2>1, <2>2, <2>3
<1>5. u = v
  BY <1>1, <1>2, <1>4, SeqEqual
<1> QED BY <1>5 DEF u, v

\* Nothing is live.
LEMMA NoneConnected ==
  ASSUME NEW s, NEW a, Live(s) = {}
  PROVE  Connected(s, a, a)
BY DEF Connected

\* Only positions and squashes count.
LEMMA SameConnected ==
  ASSUME NEW s \in Seq(Inst), NEW t \in Seq(Inst), NEW a, NEW z, Connected(s, a, z),
         Len(t) = Len(s),
         \A k \in DOMAIN s : t[k].pos = s[k].pos /\ (t[k].squashed <=> s[k].squashed)
  PROVE  Connected(t, a, z)
<1>1. DOMAIN t = DOMAIN s
  BY Domains
<1>2. Live(t) = Live(s) /\ \A k \in Live(s) : t[k].pos = s[k].pos
  BY <1>1 DEF Live
<1> QED BY <1>2 DEF Connected

\* What is fetched continues the stream.
LEMMA AppendConnected ==
  ASSUME NEW s \in Seq(Inst), NEW t \in Seq(Inst), NEW a, NEW m, NEW z,
         Connected(s, a, m), Follows(t, m, z), \A k \in DOMAIN t : ~t[k].squashed
  PROVE  Connected(s \o t, a, z)
<1> DEFINE u == s \o t
           n == Len(s)
           l == Len(t)
<1>1. /\ n \in Nat /\ l \in Nat /\ DOMAIN s = 1..n /\ DOMAIN t = 1..l /\ DOMAIN u = 1..(n + l)
      /\ \A k \in 1..n : u[k] = s[k]
      /\ \A k \in 1..l : u[n + k] = t[k]
  BY ConcatFacts
<1>2. CASE t = <<>>
  <2>1. z = m /\ l = 0
    BY <1>2 DEF Follows
  <2>2. u \in Seq(Inst) /\ Len(u) = Len(s)
    BY <1>1, <2>1, ConcatFacts
  <2> HIDE DEF u, n, l
  <2>3. Connected(u, a, m)
    BY <1>1, <2>1, <2>2, SameConnected DEF n
  <2> QED BY <2>1, <2>3 DEF u
<1>3. CASE t # <<>>
  <2>1. /\ l >= 1 /\ t[1].pos = m /\ z = Succ(t[l].pos)
        /\ \A k \in 1..(l - 1) : t[k + 1].pos = Succ(t[k].pos)
    BY <1>1, <1>3 DEF Follows
  <2> HIDE DEF u, n, l
  <2>2. ASSUME NEW k \in (n + 1)..(n + l) PROVE u[k] = t[k - n] /\ k - n \in 1..l
    <3>1. k - n \in 1..l /\ n + (k - n) = k
      BY <1>1
    <3>2. u[n + (k - n)] = t[k - n]
      BY <1>1, <3>1
    <3> QED BY <3>1, <3>2
  <2>3. Live(s) \subseteq 1..n /\ \A k \in 1..n : k \in Live(s) <=> k \in Live(u)
    BY <1>1 DEF Live
  <2>4. Live(u) = Live(s) \cup ((n + 1)..(n + l))
    <3>1. ASSUME NEW k \in (n + 1)..(n + l) PROVE k \in Live(u)
      <4>1. k \in DOMAIN u
        BY <1>1
      <4>2. ~u[k].squashed
        <5>1. k - n \in DOMAIN t /\ u[k] = t[k - n]
          BY <1>1, <2>2
        <5> QED BY <5>1
      <4> QED BY <4>1, <4>2 DEF Live
    <3>2. Live(u) \subseteq 1..(n + l)
      BY <1>1 DEF Live
    <3> QED BY <1>1, <2>3, <3>1, <3>2
  <2>5. n + 1 \in Live(u) /\ n + l \in Live(u) /\ u[n + 1].pos = m /\ z = Succ(u[n + l].pos)
    <3>1. n + 1 \in (n + 1)..(n + l) /\ n + l \in (n + 1)..(n + l) /\ 1 \in 1..l /\ l \in 1..l
      BY <1>1, <2>1
    <3>2. u[n + 1] = t[1] /\ u[n + l] = t[l]
      BY <1>1, <3>1
    <3> QED BY <2>1, <2>4, <3>1, <3>2
  <2>6. ASSUME NEW k \in Live(u), \A j \in Live(u) : k <= j PROVE u[k].pos = a
    <3>1. CASE k \in Live(s)
      <4>1. k \in 1..n /\ \A j \in Live(s) : k <= j
        BY <2>3, <2>4, <2>6, <3>1
      <4>2. s[k].pos = a
        BY <3>1, <4>1 DEF Connected
      <4> QED BY <1>1, <4>1, <4>2
    <3>2. CASE k \notin Live(s)
      <4>1. k = n + 1 /\ Live(s) = {}
        BY SMTT(60), <1>1, <2>3, <2>4, <2>5, <2>6, <3>2
      <4> QED BY <2>5, <4>1 DEF Connected
    <3> QED BY <3>1, <3>2
  <2>7. ASSUME NEW j \in Live(u), NEW k \in Live(u), j < k, \A i \in Live(u) : i <= j \/ k <= i
        PROVE  u[k].pos = Succ(u[j].pos)
    <3>1. CASE k \in Live(s)
      <4>1. j \in Live(s)
        BY <1>1, <2>3, <2>4, <2>7, <3>1
      <4>2. \A i \in Live(s) : i <= j \/ k <= i
        BY <2>4, <2>7
      <4>3. s[k].pos = Succ(s[j].pos)
        BY <2>7, <3>1, <4>1, <4>2 DEF Connected
      <4>4. u[k] = s[k] /\ u[j] = s[j]
        BY <1>1, <2>3, <3>1, <4>1
      <4> QED BY <4>3, <4>4
    <3>2. CASE k \in (n + 1)..(n + l) /\ j \in Live(s)
      <4>1. k = n + 1
        BY <1>1, <2>3, <2>5, <2>7, <3>2
      <4>2. \A i \in Live(s) : i <= j
        BY <1>1, <2>3, <2>4, <2>7, <3>2
      <4>3. m = Succ(s[j].pos)
        BY <3>2, <4>2 DEF Connected
      <4> QED BY <1>1, <2>3, <2>5, <3>2, <4>1, <4>3
    <3>3. CASE k \in (n + 1)..(n + l) /\ j \in (n + 1)..(n + l)
      <4>1. j + 1 \in (n + 1)..(n + l) /\ k = j + 1
        BY <1>1, <2>4, <2>7, <3>3
      <4>2. j - n \in 1..(l - 1) /\ (j - n) + 1 = k - n
        BY <1>1, <3>3, <4>1
      <4>3. t[k - n].pos = Succ(t[j - n].pos)
        BY <2>1, <4>2
      <4> QED BY <2>2, <3>3, <4>3
    <3> QED BY <2>4, <3>1, <3>2, <3>3
  <2>8. ASSUME NEW k \in Live(u), \A j \in Live(u) : j <= k PROVE z = Succ(u[k].pos)
    <3>1. k = n + l
      <4>1. n + l <= k /\ k \in 1..(n + l)
        BY <1>1, <2>3, <2>4, <2>5, <2>8
      <4> QED BY <1>1, <4>1
    <3> QED BY <2>5, <3>1
  <2>9. Connected(u, a, z)
    BY <2>5, <2>6, <2>7, <2>8 DEF Connected
  <2> QED BY <2>9 DEF u
<1> QED BY <1>2, <1>3

\* A squashed head leaves.
LEMMA SquashedHeadLeaves ==
  ASSUME NEW s \in Seq(Inst), NEW t \in Seq(Inst), NEW a, NEW z, Connected(s, a, z),
         Len(s) >= 1, s[1].squashed, Len(t) = Len(s) - 1, \A k \in DOMAIN t : t[k] = s[k + 1]
  PROVE  Connected(t, a, z)
<1>1. /\ Len(s) \in Nat /\ DOMAIN s = 1..Len(s) /\ DOMAIN t = 1..(Len(s) - 1)
      /\ Len(s) \in Nat \ {0}
  BY Domains
<1>2. \A k \in Live(s) : k \in Nat /\ k > 1 /\ k - 1 \in Live(t) /\ (k - 1) + 1 = k
  <2> TAKE k \in Live(s)
  <2>1. k \in DOMAIN s /\ ~s[k].squashed
    BY DEF Live
  <2>2. k # 1 /\ k \in 1..Len(s)
    BY <1>1, <2>1
  <2>3. k \in Nat /\ k > 1 /\ k - 1 \in DOMAIN t /\ (k - 1) + 1 = k
    BY <1>1, <2>2
  <2>4. t[k - 1] = s[k]
    BY <2>3
  <2> QED BY <2>1, <2>3, <2>4 DEF Live
<1>3. \A k \in Live(t) : k \in Nat /\ k + 1 \in Live(s) /\ t[k] = s[k + 1]
  <2> TAKE k \in Live(t)
  <2>1. k \in DOMAIN t /\ ~t[k].squashed
    BY DEF Live
  <2>2. k \in Nat /\ k + 1 \in DOMAIN s
    BY <1>1, <2>1
  <2> QED BY <2>1, <2>2 DEF Live
<1>4. Live(t) = {} => z = a
  BY <1>2 DEF Connected
<1>5. ASSUME NEW k \in Live(t), \A j \in Live(t) : k <= j PROVE t[k].pos = a
  <2>1. \A j \in Live(s) : k + 1 <= j
    BY <1>2, <1>3, <1>5
  <2> QED BY <1>3, <2>1 DEF Connected
<1>6. ASSUME NEW j \in Live(t), NEW k \in Live(t), j < k, \A i \in Live(t) : i <= j \/ k <= i
      PROVE  t[k].pos = Succ(t[j].pos)
  <2>1. j + 1 \in Live(s) /\ k + 1 \in Live(s) /\ j + 1 < k + 1
    BY <1>3, <1>6
  <2>2. \A i \in Live(s) : i <= j + 1 \/ k + 1 <= i
    <3> TAKE i \in Live(s)
    <3>1. i - 1 <= j \/ k <= i - 1
      BY <1>2, <1>6
    <3> QED BY <1>2, <1>3, <3>1
  <2>3. s[k + 1].pos = Succ(s[j + 1].pos)
    BY <2>1, <2>2 DEF Connected
  <2> QED BY <1>3, <2>3
<1>7. ASSUME NEW k \in Live(t), \A j \in Live(t) : j <= k PROVE z = Succ(t[k].pos)
  <2>1. \A j \in Live(s) : j <= k + 1
    BY <1>2, <1>3, <1>7
  <2>2. z = Succ(s[k + 1].pos)
    BY <1>3, <2>1 DEF Connected
  <2> QED BY <1>3, <2>2
<1> QED BY <1>4, <1>5, <1>6, <1>7 DEF Connected

\* A live head leaves: it was at a, and the stream goes on behind it.
LEMMA LiveHeadLeaves ==
  ASSUME NEW s \in Seq(Inst), NEW t \in Seq(Inst), NEW a, NEW z, Connected(s, a, z),
         Len(s) >= 1, ~s[1].squashed, Len(t) = Len(s) - 1, \A k \in DOMAIN t : t[k] = s[k + 1]
  PROVE  s[1].pos = a /\ Connected(t, Succ(a), z)
<1>1. /\ Len(s) \in Nat \ {0} /\ DOMAIN s = 1..Len(s) /\ DOMAIN t = 1..(Len(s) - 1)
  BY Domains
<1>2. 1 \in Live(s) /\ \A k \in Live(s) : k \in Nat /\ 1 <= k
  BY <1>1 DEF Live
<1>3. s[1].pos = a
  BY <1>2 DEF Connected
<1>4. \A k \in Live(s) : k # 1 => k > 1 /\ k - 1 \in Live(t) /\ (k - 1) + 1 = k
  <2> SUFFICES ASSUME NEW k \in Live(s), k # 1
               PROVE  k > 1 /\ k - 1 \in Live(t) /\ (k - 1) + 1 = k
    OBVIOUS
  <2>1. k \in DOMAIN s /\ ~s[k].squashed
    BY DEF Live
  <2>2. k \in Nat /\ k > 1 /\ k - 1 \in DOMAIN t /\ (k - 1) + 1 = k
    BY <1>1, <2>1
  <2>3. t[k - 1] = s[k]
    BY <2>2
  <2> QED BY <2>1, <2>2, <2>3 DEF Live
<1>5. \A k \in Live(t) : k \in Nat /\ k >= 1 /\ k + 1 \in Live(s) /\ t[k] = s[k + 1]
  <2> TAKE k \in Live(t)
  <2>1. k \in DOMAIN t /\ ~t[k].squashed
    BY DEF Live
  <2>2. k \in Nat /\ k >= 1 /\ k + 1 \in DOMAIN s
    BY <1>1, <2>1
  <2> QED BY <2>1, <2>2 DEF Live
<1>6. Live(t) = {} => z = Succ(a)
  <2> SUFFICES ASSUME Live(t) = {} PROVE z = Succ(a)
    OBVIOUS
  <2>1. \A k \in Live(s) : k <= 1
    BY <1>2, <1>4
  <2> QED BY <1>2, <1>3, <2>1 DEF Connected
<1>7. ASSUME NEW k \in Live(t), \A j \in Live(t) : k <= j PROVE t[k].pos = Succ(a)
  <2>1. \A i \in Live(s) : i <= 1 \/ k + 1 <= i
    <3> TAKE i \in Live(s)
    <3>1. i = 1 \/ k <= i - 1
      BY <1>4, <1>7
    <3> QED BY <1>2, <1>5, <3>1
  <2>2. k + 1 \in Live(s) /\ 1 < k + 1
    BY <1>5
  <2>3. s[k + 1].pos = Succ(s[1].pos)
    BY <1>2, <2>1, <2>2 DEF Connected
  <2> QED BY <1>3, <1>5, <2>3
<1>8. ASSUME NEW j \in Live(t), NEW k \in Live(t), j < k, \A i \in Live(t) : i <= j \/ k <= i
      PROVE  t[k].pos = Succ(t[j].pos)
  <2>1. j + 1 \in Live(s) /\ k + 1 \in Live(s) /\ j + 1 < k + 1
    BY <1>5, <1>8
  <2>2. \A i \in Live(s) : i <= j + 1 \/ k + 1 <= i
    <3> TAKE i \in Live(s)
    <3>1. CASE i = 1
      BY <1>5, <3>1
    <3>2. CASE i # 1
      <4>1. i - 1 <= j \/ k <= i - 1
        BY <1>4, <1>8, <3>2
      <4> QED BY <1>2, <1>5, <4>1
    <3> QED BY <3>1, <3>2
  <2>3. s[k + 1].pos = Succ(s[j + 1].pos)
    BY <2>1, <2>2 DEF Connected
  <2> QED BY <1>5, <2>3
<1>9. ASSUME NEW k \in Live(t), \A j \in Live(t) : j <= k PROVE z = Succ(t[k].pos)
  <2>1. \A j \in Live(s) : j <= k + 1
    <3> TAKE j \in Live(s)
    <3>1. j = 1 \/ j - 1 <= k
      BY <1>4, <1>9
    <3> QED BY <1>2, <1>5, <3>1
  <2>2. z = Succ(s[k + 1].pos)
    BY <1>5, <2>1 DEF Connected
  <2> QED BY <1>5, <2>2
<1> QED BY <1>3, <1>6, <1>7, <1>8, <1>9 DEF Connected

\* A squash behind a live instruction ends the stream there.
LEMMA CutConnected ==
  ASSUME NEW s \in Seq(Inst), NEW t \in Seq(Inst), NEW a, NEW z, Connected(s, a, z),
         Len(t) <= Len(s), NEW k \in DOMAIN t, ~s[k].squashed,
         \A j \in DOMAIN t : /\ t[j].pos = s[j].pos
                             /\ t[j].squashed <=> s[j].squashed \/ j > k
  PROVE  Connected(t, a, Succ(s[k].pos))
<1>1. /\ Len(s) \in Nat /\ Len(t) \in Nat /\ DOMAIN s = 1..Len(s) /\ DOMAIN t = 1..Len(t)
  BY Domains
<1>2. DOMAIN t \subseteq DOMAIN s /\ \A j \in DOMAIN s : j \in Nat /\ (j <= k => j \in DOMAIN t)
  BY <1>1
<1>3. \A j : j \in Live(t) <=> j \in Live(s) /\ j <= k
  <2> TAKE j
  <2>1. j \in Live(t) <=> j \in DOMAIN t /\ ~s[j].squashed /\ ~(j > k)
    BY DEF Live
  <2>2. j \in DOMAIN t => (~(j > k) <=> j <= k)
    BY <1>1
  <2>3. j \in Live(s) <=> j \in DOMAIN s /\ ~s[j].squashed
    BY DEF Live
  <2> QED BY <1>2, <2>1, <2>2, <2>3
<1>4. k \in Live(s) /\ k \in Live(t) /\ k \in Nat /\ \A j \in Live(s) : j \in Nat
  BY <1>1, <1>2, <1>3 DEF Live
<1>5. \A j \in Live(t) : t[j].pos = s[j].pos
  BY DEF Live
<1>6. ASSUME NEW i \in Live(t), \A j \in Live(t) : i <= j PROVE t[i].pos = a
  <2>1. \A j \in Live(s) : i <= j
    <3> TAKE j \in Live(s)
    <3>1. CASE j <= k
      BY <1>3, <1>6, <3>1
    <3>2. CASE j > k
      BY <1>3, <1>4, <3>2
    <3> QED BY <1>4, <3>1, <3>2
  <2> QED BY <1>3, <1>5, <2>1 DEF Connected
<1>7. ASSUME NEW i \in Live(t), NEW j \in Live(t), i < j, \A m \in Live(t) : m <= i \/ j <= m
      PROVE  t[j].pos = Succ(t[i].pos)
  <2>1. \A m \in Live(s) : m <= i \/ j <= m
    <3> TAKE m \in Live(s)
    <3>1. CASE m <= k
      BY <1>3, <1>7, <3>1
    <3>2. CASE m > k
      BY <1>3, <1>4, <3>2
    <3> QED BY <1>4, <3>1, <3>2
  <2>2. s[j].pos = Succ(s[i].pos)
    BY <1>3, <1>7, <2>1 DEF Connected
  <2> QED BY <1>5, <2>2
<1>8. ASSUME NEW i \in Live(t), \A j \in Live(t) : j <= i PROVE Succ(s[k].pos) = Succ(t[i].pos)
  <2>1. i = k
    BY <1>3, <1>4, <1>8
  <2> QED BY <1>5, <2>1
<1> QED BY <1>4, <1>6, <1>7, <1>8 DEF Connected

\* The same positions and squashes in two sequences, one behind the other.
SameStream(s, t) ==
  /\ Len(t) = Len(s)
  /\ \A k \in DOMAIN s : t[k].pos = s[k].pos /\ (t[k].squashed <=> s[k].squashed)

LEMMA SameConcat ==
  ASSUME NEW s \in Seq(Inst), NEW t \in Seq(Inst), NEW u \in Seq(Inst), NEW v \in Seq(Inst),
         SameStream(s, u), SameStream(t, v)
  PROVE  SameStream(s \o t, u \o v)
<1>1. /\ Len(s) \in Nat /\ Len(t) \in Nat /\ Len(u) = Len(s) /\ Len(v) = Len(t)
      /\ DOMAIN s = 1..Len(s) /\ DOMAIN t = 1..Len(t)
      /\ DOMAIN u = 1..Len(s) /\ DOMAIN v = 1..Len(t)
  BY ConcatFacts DEF SameStream
<1>2. /\ Len(s \o t) = Len(s) + Len(t) /\ Len(u \o v) = Len(s) + Len(t)
      /\ DOMAIN (s \o t) = 1..(Len(s) + Len(t))
      /\ \A k \in DOMAIN s : (s \o t)[k] = s[k] /\ (u \o v)[k] = u[k]
      /\ \A k \in DOMAIN t : (s \o t)[Len(s) + k] = t[k] /\ (u \o v)[Len(s) + k] = v[k]
  <2>1. /\ Len(u \o v) = Len(u) + Len(v)
        /\ \A k \in DOMAIN u : (u \o v)[k] = u[k]
        /\ \A k \in DOMAIN v : (u \o v)[Len(u) + k] = v[k]
    BY ConcatFacts
  <2>2. /\ Len(s \o t) = Len(s) + Len(t) /\ DOMAIN (s \o t) = 1..(Len(s) + Len(t))
        /\ \A k \in DOMAIN s : (s \o t)[k] = s[k]
        /\ \A k \in DOMAIN t : (s \o t)[Len(s) + k] = t[k]
    BY ConcatFacts
  <2> QED BY <1>1, <2>1, <2>2
<1>3. ASSUME NEW k \in DOMAIN (s \o t)
      PROVE  (u \o v)[k].pos = (s \o t)[k].pos
             /\ ((u \o v)[k].squashed <=> (s \o t)[k].squashed)
  <2>1. CASE k \in DOMAIN s
    BY <1>2, <2>1 DEF SameStream
  <2>2. CASE k \notin DOMAIN s
    <3> DEFINE j == k - Len(s)
    <3>1. j \in DOMAIN t /\ Len(s) + j = k
      BY <1>1, <1>2, <2>2
    <3> HIDE DEF j
    <3> QED BY <1>2, <3>1 DEF SameStream
  <2> QED BY <2>1, <2>2
<1> QED BY <1>2, <1>3 DEF SameStream

\* The stream and its ends are what InProgramOrder' is about.
LEMMA OrderNext ==
  ASSUME sc' = sc, c'.trap = "none" => Connected(Stream', c'.pc, FetchNext')
  PROVE  InProgramOrder'
BY DEF InProgramOrder, Connected, Succ, prog, Live

LEMMA OrderKept ==
  ASSUME FetchInv, InProgramOrder, sc' = sc, c'.pc = c.pc, c'.trap = "none" => c.trap = "none",
         sig'.squash = sig.squash, sig.squash => sig'.pc = sig.pc, f'.pc = f.pc,
         rob' \in Seq(Inst), f'.queue \in Seq(Inst),
         SameStream(rob, rob'), SameStream(f.queue, f'.queue)
  PROVE  InProgramOrder'
<1>1. rob \in Seq(Inst) /\ f.queue \in Seq(Inst)
  BY FetchFields DEF FetchInv, Types
<1>2. SUFFICES ASSUME c'.trap = "none"
               PROVE  Connected(Stream', c'.pc, FetchNext')
  BY OrderNext
<1>3. Connected(Stream, c.pc, FetchNext)
  BY <1>2 DEF InProgramOrder
<1>4. FetchNext' = FetchNext
  BY DEF FetchNext
<1>5. CASE sig.squash
  <2>1. Stream = rob /\ Stream' = rob'
    BY <1>5 DEF Stream
  <2>2. Connected(rob', c.pc, FetchNext)
    BY <1>1, <1>3, <2>1, SameConnected DEF SameStream
  <2> QED BY <1>4, <2>1, <2>2
<1>6. CASE ~sig.squash
  <2>1. Stream = rob \o f.queue /\ Stream' = rob' \o f'.queue
    BY <1>6 DEF Stream
  <2>2. /\ SameStream(rob \o f.queue, rob' \o f'.queue)
        /\ rob \o f.queue \in Seq(Inst) /\ rob' \o f'.queue \in Seq(Inst)
    BY <1>1, SameConcat, ConcatFacts
  <2>3. Connected(rob' \o f'.queue, c.pc, FetchNext)
    BY <1>3, <2>1, <2>2, SameConnected DEF SameStream
  <2> QED BY <1>4, <2>1, <2>3
<1> QED BY <1>5, <1>6

\* What the rest of PreciseInv' asks when nobody retires, squashes or fetches.
LEMMA CalmPrecise ==
  ASSUME FetchInv, PreciseInv, sc' = sc, c'.pc = c.pc, c'.trap = "none" => c.trap = "none",
         c'.canHandleInterrupts = c.canHandleInterrupts,
         sig'.squash = sig.squash, sig.squash => sig'.pc = sig.pc, f'.pc = f.pc,
         rob' \in Seq(Inst), f'.queue \in Seq(Inst),
         SameStream(rob, rob'), SameStream(f.queue, f'.queue),
         x'.on = x.on, x'.storedPc = x.storedPc, x'.warm = x.warm,
         RegsRestored', SeenAtTrap'
  PROVE  PreciseInv'
<1>1. InProgramOrder'
  BY OrderKept DEF PreciseInv
<1>2. AtBoundaries'
  BY DEF PreciseInv, AtBoundaries, Boundary, Pred, prog
<1> QED BY <1>1, <1>2 DEF PreciseInv

LEMMA SelfStream ==
  ASSUME NEW s
  PROVE  SameStream(s, s)
BY DEF SameStream

LEMMA QuietPrecise ==
  ASSUME FetchInv, PreciseInv,
         \/ Tick \/ PostInterrupt \/ Drain \/ ProcessTrapEvent \/ ExitDue \/ ClearInterrupt
         \/ StopCommit \/ UNCHANGED vars
  PROVE  PreciseInv'
<1>1. /\ UNCHANGED <<sc, f, rob, seen>>
      /\ phase' = phase \/ phase = "events" \/ (phase = "insts" /\ phase' = "end")
      /\ c' = c \/ c' = [c EXCEPT !.drainPending = TRUE]
                \/ (c.trap = "event" /\ c' = [c EXCEPT !.trap = "squash"])
                \/ c' = [c EXCEPT !.interrupt = FALSE, !.avoidQuiesceLiveLock = TRUE]
      /\ sig' = sig \/ sig' = [sig EXCEPT !.clear = TRUE]
      /\ x' = x \/ (x.on /\ x' = [x EXCEPT !.exit = TRUE])
  BY DEF Tick, PostInterrupt, Drain, ProcessTrapEvent, ExitDue, ClearInterrupt, InLoop,
         StopCommit, vars, cpuVars
<1>2. c \in CommitState /\ sig \in Signal /\ x \in Mode /\ rob \in Seq(Inst)
      /\ f.queue \in Seq(Inst)
  BY FetchFields DEF FetchInv, Types
<1>3. /\ c'.pc = c.pc /\ c'.canHandleInterrupts = c.canHandleInterrupts
      /\ c'.trap = "none" => c.trap = "none"
      /\ c'.status = c.status
  BY <1>1, <1>2 DEF CommitState
<1>4. sig'.squash = sig.squash /\ sig'.pc = sig.pc
  BY <1>1, <1>2 DEF Signal
<1>5. /\ x'.on = x.on /\ x'.storedPc = x.storedPc /\ x'.regs = x.regs
      /\ x'.restoreNext = x.restoreNext /\ x'.restoreNow = x.restoreNow /\ x'.warm = x.warm
  BY <1>1, <1>2 DEF Mode
<1>6. RegsRestored'
  BY <1>5 DEF PreciseInv, RegsRestored, RunaheadHazard
<1>7. SeenAtTrap'
  BY <1>1, <1>3 DEF PreciseInv, SeenAtTrap, Nobody
<1> QED BY <1>1, <1>2, <1>3, <1>4, <1>5, <1>6, <1>7, CalmPrecise, SelfStream

LEMMA AnswerPrecise ==
  ASSUME FetchInv, PreciseInv, Answer
  PROVE  PreciseInv'
<1>1. /\ UNCHANGED <<phase, sc, rob, c, sig, x, seen>> /\ f \in FetchState
  BY DEF Answer, FinishTranslation, ProcessCacheCompletion, RecvReqRetry, cpuVars,
         FetchInv, Types
<1>2. f'.pc = f.pc /\ f'.queue = f.queue
  BY ZenonT(60), <1>1 DEF Answer, FinishTranslation, ProcessCacheCompletion, RecvReqRetry, FetchState
<1>3. rob \in Seq(Inst) /\ f.queue \in Seq(Inst)
  BY FetchFields DEF FetchInv, Types
<1>4. RegsRestored' /\ SeenAtTrap'
  BY <1>1 DEF PreciseInv, RegsRestored, RunaheadHazard, SeenAtTrap, Nobody
<1> QED BY <1>1, <1>2, <1>3, <1>4, CalmPrecise, SelfStream

LEMMA RobEventPrecise ==
  ASSUME FetchInv, PreciseInv, RobEvent
  PROVE  PreciseInv'
<1>1. /\ Kept(rob, rob') /\ SameMarks(rob, rob')
      /\ UNCHANGED <<sc, f, tlb, icache, c, sig, raised, seen>>
      /\ phase' = phase \/ (phase = "insts" /\ phase' = "end")
      /\ x' = x \/ (x.on /\ x' = [x EXCEPT !.regs = "runahead"])
  BY RobEventFacts
<1>2. x \in Mode /\ f.queue \in Seq(Inst)
  BY FetchFields DEF FetchInv, Types
<1>3. SameStream(rob, rob') /\ rob' \in Seq(Inst)
  BY <1>1 DEF Kept, SameMarks, SameStream
<1>4. x'.on = x.on /\ x'.storedPc = x.storedPc /\ x'.warm = x.warm
  BY <1>1, <1>2 DEF Mode
<1>5. RegsRestored'
  BY <1>1, <1>4 DEF PreciseInv, RegsRestored, RunaheadHazard
<1>6. SeenAtTrap'
  BY <1>1 DEF PreciseInv, SeenAtTrap, Nobody
<1> QED BY <1>1, <1>2, <1>3, <1>4, <1>5, <1>6, CalmPrecise, SelfStream

LEMMA WalkPrecise ==
  ASSUME FetchInv, PreciseInv, Walk
  PROVE  PreciseInv'
<1>1. /\ phase = "walk" /\ UNCHANGED <<sc, f, rob, x, seen>>
      /\ c'.pc = c.pc /\ c'.trap = c.trap /\ c'.canHandleInterrupts = c.canHandleInterrupts
      /\ sig'.squash = sig.squash /\ ~sig.squash
  BY WalkFacts
<1>2. rob \in Seq(Inst) /\ f.queue \in Seq(Inst)
  BY FetchFields DEF FetchInv, Types
<1>3. RegsRestored' /\ SeenAtTrap'
  BY <1>1 DEF PreciseInv, RegsRestored, RunaheadHazard, SeenAtTrap, Nobody
<1> QED BY <1>1, <1>2, <1>3, CalmPrecise, SelfStream

LEMMA EndPrecise ==
  ASSUME FetchInv, PreciseInv, EndOfTick
  PROVE  PreciseInv'
<1>1. /\ UNCHANGED <<sc, rob, sig>> /\ seen' = Nobody
      /\ x \in Mode /\ x'.on = x.on /\ x'.storedPc = x.storedPc /\ x'.warm = x.warm
      /\ x'.restoreNow = x.restoreNext /\ x'.regs = IF x.restoreNow THEN "arch" ELSE x.regs
      /\ c'.pc = c.pc /\ c'.trap = c.trap /\ c'.canHandleInterrupts = c.canHandleInterrupts
      /\ f'.pc = f.pc /\ f'.queue = f.queue
  BY EndFacts DEF FetchInv, Types
<1>2. rob \in Seq(Inst) /\ f.queue \in Seq(Inst)
  BY FetchFields DEF FetchInv, Types
<1>3. RegsRestored'
  BY <1>1 DEF PreciseInv, RegsRestored, RunaheadHazard
<1>4. SeenAtTrap'
  BY <1>1 DEF SeenAtTrap, Nobody
<1> QED BY <1>1, <1>2, <1>3, <1>4, CalmPrecise, SelfStream

LEMMA FetchPrecise ==
  ASSUME FetchInv, PreciseInv, FetchTick
  PROVE  PreciseInv'
<1>1. /\ phase = "fetch" /\ sig' = NoSignal /\ UNCHANGED <<sc, rob, c, x, seen>>
      /\ f' \in FetchState
  BY FetchTickFacts
<1>2. PICK s \in Seq(Inst) :
        /\ f'.queue = (IF sig.squash THEN <<>> ELSE f.queue) \o s
        /\ \A k \in DOMAIN s : ~s[k].squashed
        /\ Follows(s, FetchNext, f'.pc)
        /\ sig.squash \/ f.drainStall => s = <<>>
  BY FetchTickFacts
<1>3. rob \in Seq(Inst) /\ f.queue \in Seq(Inst) /\ <<>> \in Seq(Inst)
  BY FetchFields DEF FetchInv, Types
<1>4. Stream \in Seq(Inst)
  BY <1>3, ConcatFacts DEF Stream
<1>5. Stream' = Stream \o s /\ FetchNext' = f'.pc
  <2>1. Stream' = rob \o f'.queue /\ FetchNext' = f'.pc
    BY <1>1 DEF Stream, FetchNext, NoSignal
  <2>2. CASE sig.squash
    <3>1. f'.queue = <<>> \o s /\ s = <<>>
      BY <1>2, <2>2
    <3>2. <<>> \o s = s /\ rob \o s = rob \o s
      BY <1>2, ConcatEmptySeq
    <3>3. Stream = rob
      BY <2>2 DEF Stream
    <3> QED BY <2>1, <3>1, <3>2, <3>3
  <2>3. CASE ~sig.squash
    <3>1. f'.queue = f.queue \o s /\ Stream = rob \o f.queue
      BY <1>2, <2>3 DEF Stream
    <3>2. (rob \o f.queue) \o s = rob \o (f.queue \o s)
      BY <1>3, ConcatGroups
    <3> QED BY <2>1, <3>1, <3>2
  <2> QED BY <2>2, <2>3
<1>6. InProgramOrder'
  <2> SUFFICES ASSUME c'.trap = "none" PROVE Connected(Stream', c'.pc, FetchNext')
    BY <1>1, OrderNext
  <2>1. Connected(Stream, c.pc, FetchNext)
    BY <1>1 DEF PreciseInv, InProgramOrder
  <2>2. Connected(Stream \o s, c.pc, f'.pc)
    BY <1>2, <1>4, <2>1, AppendConnected
  <2> QED BY <1>1, <1>5, <2>2
<1>7. RegsRestored' /\ SeenAtTrap' /\ AtBoundaries'
  BY <1>1 DEF PreciseInv, RegsRestored, RunaheadHazard, SeenAtTrap, Nobody, AtBoundaries,
              Boundary, Pred, prog
<1> QED BY <1>6, <1>7 DEF PreciseInv

\* Without a squash on its way, the stream is what is in the reorder buffer and in
\* front of it; its head is the buffer's.
LEMMA StreamHead ==
  ASSUME FetchInv, ~sig.squash, rob # <<>>
  PROVE  /\ rob \in Seq(Inst) /\ f.queue \in Seq(Inst) /\ Tail(rob) \in Seq(Inst)
         /\ Stream = rob \o f.queue /\ Stream \in Seq(Inst) /\ Len(Stream) >= 1
         /\ Stream[1] = rob[1]
         /\ Tail(rob) \o f.queue \in Seq(Inst)
         /\ Len(Tail(rob) \o f.queue) = Len(Stream) - 1
         /\ \A k \in DOMAIN (Tail(rob) \o f.queue) : (Tail(rob) \o f.queue)[k] = Stream[k + 1]
<1>1. rob \in Seq(Inst) /\ f.queue \in Seq(Inst)
  BY FetchFields DEF FetchInv, Types
<1> DEFINE s == Tail(rob)
<1>2. /\ s \in Seq(Inst) /\ Len(s) = Len(rob) - 1 /\ 1 \in DOMAIN rob
      /\ \A k \in DOMAIN s : k + 1 \in DOMAIN rob /\ s[k] = rob[k + 1]
  BY <1>1, TailFacts
<1> HIDE DEF s
<1>3. Stream = rob \o f.queue
  BY DEF Stream
<1>4. /\ Stream \in Seq(Inst) /\ Len(Stream) = Len(rob) + Len(f.queue)
      /\ Len(rob) \in Nat \ {0} /\ Len(f.queue) \in Nat /\ DOMAIN rob = 1..Len(rob)
      /\ DOMAIN f.queue = 1..Len(f.queue)
      /\ \A k \in DOMAIN rob : Stream[k] = rob[k]
      /\ \A k \in DOMAIN f.queue : Stream[Len(rob) + k] = f.queue[k]
  BY <1>1, <1>3, ConcatFacts
<1>5. /\ s \o f.queue \in Seq(Inst) /\ Len(s \o f.queue) = Len(s) + Len(f.queue)
      /\ DOMAIN s = 1..Len(s) /\ DOMAIN (s \o f.queue) = 1..(Len(s) + Len(f.queue))
      /\ \A k \in DOMAIN s : (s \o f.queue)[k] = s[k]
      /\ \A k \in DOMAIN f.queue : (s \o f.queue)[Len(s) + k] = f.queue[k]
  BY <1>1, <1>2, ConcatFacts
<1>6. ASSUME NEW k \in DOMAIN (s \o f.queue) PROVE (s \o f.queue)[k] = Stream[k + 1]
  <2>1. CASE k \in DOMAIN s
    BY <1>2, <1>4, <1>5, <2>1
  <2>2. CASE k \notin DOMAIN s
    <3> DEFINE j == k - Len(s)
    <3>1. j \in DOMAIN f.queue /\ Len(s) + j = k /\ Len(rob) + j = k + 1
      BY <1>2, <1>4, <1>5, <2>2
    <3> HIDE DEF j
    <3>2. Stream[Len(rob) + j] = f.queue[j] /\ (s \o f.queue)[Len(s) + j] = f.queue[j]
      BY <1>4, <1>5, <3>1
    <3> QED BY <3>1, <3>2
  <2> QED BY <2>1, <2>2
<1>7. Len(s \o f.queue) = Len(Stream) - 1 /\ Len(Stream) >= 1
  BY <1>2, <1>4, <1>5
<1> QED BY <1>1, <1>2, <1>3, <1>4, <1>5, <1>6, <1>7 DEF s

\* What commit finds at its head is at its PC.
LEMMA HeadAtPc ==
  ASSUME FetchInv, PreciseInv, AtHead, ~rob[1].squashed
  PROVE  /\ rob[1].pos = c.pc
         /\ Connected(Tail(rob) \o f.queue, Succ(c.pc), f.pc)
<1>1. c.trap = "none" /\ ~sig.squash /\ rob # <<>>
  BY HeadFacts
<1>2. Connected(Stream, c.pc, f.pc)
  BY <1>1 DEF PreciseInv, InProgramOrder, FetchNext
<1> DEFINE s == Stream
           t == Tail(rob) \o f.queue
<1>3. /\ s \in Seq(Inst) /\ t \in Seq(Inst) /\ Len(s) >= 1 /\ s[1] = rob[1]
      /\ Len(t) = Len(s) - 1 /\ \A k \in DOMAIN t : t[k] = s[k + 1]
      /\ Connected(s, c.pc, f.pc)
  BY <1>1, <1>2, StreamHead
<1> HIDE DEF s, t
<1>4. s[1].pos = c.pc /\ Connected(t, Succ(c.pc), f.pc)
  BY <1>3, LiveHeadLeaves
<1> QED BY <1>3, <1>4 DEF t

LEMMA RetireSquashedPrecise ==
  ASSUME FetchInv, PreciseInv, RetireSquashed
  PROVE  PreciseInv'
<1>1. /\ AtHead /\ rob' = Tail(rob) /\ rob[1].squashed
      /\ UNCHANGED <<phase, sc, f, c, sig, x, seen>>
  BY HeadFacts DEF RetireSquashed
<1>2. c.trap = "none" /\ ~sig.squash /\ rob # <<>>
  BY <1>1, HeadFacts
<1>3. Connected(Stream, c.pc, f.pc)
  BY <1>2 DEF PreciseInv, InProgramOrder, FetchNext
<1>4. Connected(Tail(rob) \o f.queue, c.pc, f.pc)
  BY <1>1, <1>2, <1>3, StreamHead, SquashedHeadLeaves
<1>5. Stream' = Tail(rob) \o f.queue /\ FetchNext' = f.pc
  BY <1>1, <1>2 DEF Stream, FetchNext
<1>6. InProgramOrder'
  BY <1>1, <1>4, <1>5, OrderNext
<1>7. RegsRestored' /\ SeenAtTrap' /\ AtBoundaries'
  BY <1>1 DEF PreciseInv, RegsRestored, RunaheadHazard, SeenAtTrap, Nobody, AtBoundaries,
              Boundary, Pred, prog
<1> QED BY <1>6, <1>7 DEF PreciseInv

LEMMA CommitHeadPrecise ==
  ASSUME FetchInv, PreciseInv, CommitHead
  PROVE  PreciseInv'
<1>1. /\ AtHead /\ rob' = Tail(rob) /\ ~rob[1].squashed
      /\ UNCHANGED <<phase, sc, sig, seen>>
      /\ \E b \in BOOLEAN : f' = [f EXCEPT !.drainStall = b]
      /\ c'.pc = Succ(rob[1].pos) /\ c'.canHandleInterrupts = ~prog[rob[1].pos].mid
      /\ x'.on = x.on /\ x'.storedPc = x.storedPc /\ x'.regs = x.regs
      /\ x'.restoreNext = x.restoreNext /\ x'.restoreNow = x.restoreNow
      /\ x'.warm = IF ~x.on /\ x.warm = rob[1].pos THEN 0 ELSE x.warm
  BY CommitHeadFacts
<1>2. phase = "insts" /\ ~sig.squash /\ f \in FetchState /\ sc \in Scenarios
      /\ rob[1].pos \in Pos
  BY <1>1, HeadFacts DEF FetchInv, Types
<1>3. f'.queue = f.queue /\ f'.pc = f.pc
  BY <1>1, <1>2 DEF FetchState
<1>4. Stream' = Tail(rob) \o f.queue /\ FetchNext' = f.pc
  BY <1>1, <1>2, <1>3 DEF Stream, FetchNext
<1>5. rob[1].pos = c.pc /\ Connected(Tail(rob) \o f.queue, Succ(c.pc), f.pc)
  BY <1>1, HeadAtPc
<1>6. InProgramOrder'
  BY <1>1, <1>4, <1>5, OrderNext
<1>7. AtBoundaries'
  <2>1. Pred(c'.pc) = rob[1].pos
    BY <1>1, <1>2, ProgramFacts
  <2>2. c'.canHandleInterrupts => Boundary(c'.pc)
    BY <1>1, <2>1 DEF Boundary
  <2> QED BY <1>1, <2>2 DEF PreciseInv, AtBoundaries, Boundary, Pred, prog
<1>8. RegsRestored' /\ SeenAtTrap'
  BY <1>1, <1>2 DEF PreciseInv, RegsRestored, RunaheadHazard, SeenAtTrap, Nobody
<1> QED BY <1>6, <1>7, <1>8 DEF PreciseInv

\* Behind a fault a macro-op begins.
LEMMA TrapHeadPrecise ==
  ASSUME FetchInv, PreciseInv, TrapHead
  PROVE  PreciseInv' /\ rob[1].pos = c.pc /\ Boundary(Succ(c.pc))
<1>1. /\ AtHead /\ UNCHANGED <<sc, x, seen>> /\ phase = "insts" /\ ~x.on
      /\ ~rob[1].squashed /\ prog[rob[1].pos].kind = "fault"
      /\ c'.trap = "event" /\ c'.canHandleInterrupts = c.canHandleInterrupts
      /\ c'.pc = Succ(c.pc)
  BY TrapHeadFacts
<1>2. rob[1].pos = c.pc
  BY <1>1, HeadAtPc
<1>3. Boundary(Succ(c.pc))
  <2>1. sc \in Scenarios /\ rob[1].pos \in Pos
    BY <1>1, HeadFacts DEF FetchInv, Types
  <2> QED BY <1>1, <1>2, <2>1, ProgramFacts DEF Boundary
<1>4. AtBoundaries'
  BY <1>1, <1>3 DEF PreciseInv, AtBoundaries, Boundary, Pred, prog
<1>5. InProgramOrder'
  BY <1>1 DEF InProgramOrder
<1>6. RegsRestored' /\ SeenAtTrap'
  BY <1>1 DEF PreciseInv, RegsRestored, RunaheadHazard, SeenAtTrap, Nobody
<1> QED BY <1>2, <1>3, <1>4, <1>5, <1>6 DEF PreciseInv

LEMMA TakeInterruptPrecise ==
  ASSUME FetchInv, PreciseInv, TakeInterrupt
  PROVE  PreciseInv'
<1>1. /\ UNCHANGED <<sc, x>> /\ phase' = "end" /\ c'.trap = "event"
      /\ c'.status = "TrapPending" /\ c'.pc = c.pc
      /\ c'.canHandleInterrupts = c.canHandleInterrupts
  BY TakeInterruptFacts
<1>2. InProgramOrder' /\ SeenAtTrap'
  BY <1>1 DEF InProgramOrder, SeenAtTrap
<1>3. RegsRestored' /\ AtBoundaries'
  BY <1>1 DEF PreciseInv, RegsRestored, RunaheadHazard, AtBoundaries, Boundary, Pred, prog
<1> QED BY <1>2, <1>3 DEF PreciseInv

\* The PC that runahead saves is that of the load it is for.
LEMMA EnterPrecise ==
  ASSUME FetchInv, PreciseInv, EnterRunahead
  PROVE  PreciseInv'
<1>1. /\ AtHead /\ ~rob[1].squashed /\ prog[rob[1].pos].kind = "load"
      /\ UNCHANGED <<sc, c, sig, seen>> /\ phase = "insts"
      /\ Kept(rob, rob') /\ SameMarks(rob, rob')
      /\ Kept(f.queue, f'.queue) /\ SameMarks(f.queue, f'.queue)
      /\ f'.pc = f.pc /\ x'.on /\ x'.storedPc = c.pc /\ x'.warm = x.warm
  BY EnterFacts
<1>2. /\ SameStream(rob, rob') /\ rob' \in Seq(Inst)
      /\ SameStream(f.queue, f'.queue) /\ f'.queue \in Seq(Inst)
  BY <1>1 DEF Kept, SameMarks, SameStream
<1>3. InProgramOrder'
  BY <1>1, <1>2, OrderKept DEF PreciseInv
<1>4. AtBoundaries'
  <2>1. prog[c.pc].kind = "load"
    BY <1>1, HeadAtPc
  <2> QED BY <1>1, <2>1 DEF PreciseInv, AtBoundaries, prog
<1>5. RegsRestored' /\ SeenAtTrap'
  BY <1>1 DEF PreciseInv, RegsRestored, RunaheadHazard, SeenAtTrap, Nobody
<1> QED BY <1>3, <1>4, <1>5 DEF PreciseInv

\* A squash of everything begins the stream anew.
LEMMA RedirectAllOrder ==
  ASSUME FetchInv, phase = "squash", sc' = sc, NEW pc \in Pos, Redirect(0, pc, "none")
  PROVE  /\ InProgramOrder' /\ c'.pc = pc /\ c'.canHandleInterrupts = c.canHandleInterrupts
<1>1. 0 \in 0..Len(rob) /\ rob \in Seq(Inst)
  BY Domains DEF FetchInv, Types
<1>2. /\ sig'.squash /\ sig'.pc = pc /\ c'.trap = "none" /\ c'.pc = pc
      /\ c'.canHandleInterrupts = c.canHandleInterrupts
      /\ Kept(rob, rob')
      /\ \A k \in DOMAIN rob : rob'[k].squashed <=> rob[k].squashed \/ k > 0
  BY <1>1, RedirectFacts
<1>3. Live(rob') = {}
  BY <1>1, <1>2, Domains DEF Kept, Live
<1>4. Stream' = rob' /\ FetchNext' = pc
  BY <1>2 DEF Stream, FetchNext
<1>5. Connected(rob', pc, pc)
  BY <1>3, NoneConnected
<1> QED BY <1>2, <1>4, <1>5, OrderNext

LEMMA RedirectBehindOrder ==
  ASSUME FetchInv, PreciseInv, phase = "squash", ~sig.squash, sc' = sc,
         NEW k \in DOMAIN rob, RedirectsBehind(k)
  PROVE  /\ InProgramOrder' /\ c'.pc = c.pc
         /\ c'.canHandleInterrupts = c.canHandleInterrupts
<1>1. /\ ~rob[k].squashed /\ c.trap = "none" /\ Redirect(k, Succ(rob[k].pos), "none")
      /\ sc \in Scenarios /\ rob \in Seq(Inst) /\ f.queue \in Seq(Inst)
  BY FetchFields DEF RedirectsBehind, FetchInv, Types
<1>2. Succ(rob[k].pos) \in Pos /\ k \in 0..Len(rob) /\ k # 0 /\ DOMAIN rob = 1..Len(rob)
      /\ Len(rob) \in Nat
  BY <1>1, Domains, InstFields, ProgramFacts
<1>3. /\ sig'.squash /\ sig'.pc = Succ(rob[k].pos) /\ c'.trap = "none" /\ c'.pc = c.pc
      /\ c'.canHandleInterrupts = c.canHandleInterrupts
      /\ Kept(rob, rob')
      /\ \A j \in DOMAIN rob : rob'[j].squashed <=> rob[j].squashed \/ j > k
  BY <1>1, <1>2, RedirectFacts
<1> DEFINE s == Stream
           t == rob'
<1>4. s = rob \o f.queue /\ FetchNext = f.pc /\ Connected(s, c.pc, f.pc)
  BY <1>1 DEF Stream, FetchNext, PreciseInv, InProgramOrder
<1>5. /\ s \in Seq(Inst) /\ Len(s) = Len(rob) + Len(f.queue) /\ Len(f.queue) \in Nat
      /\ \A j \in DOMAIN rob : s[j] = rob[j]
  BY <1>1, <1>4, ConcatFacts
<1>6. /\ t \in Seq(Inst) /\ Len(t) = Len(rob) /\ DOMAIN t = DOMAIN rob
      /\ \A j \in DOMAIN rob : /\ t[j].pos = rob[j].pos
                               /\ t[j].squashed <=> rob[j].squashed \/ j > k
  BY <1>2, <1>3, Domains DEF Kept
<1>7. Stream' = t /\ FetchNext' = Succ(rob[k].pos)
  BY <1>3 DEF Stream, FetchNext
<1> HIDE DEF s, t
<1>8. Connected(t, c.pc, Succ(s[k].pos))
  <2>1. Len(t) <= Len(s) /\ k \in DOMAIN t /\ ~s[k].squashed
    BY <1>1, <1>2, <1>5, <1>6
  <2>2. \A j \in DOMAIN t : /\ t[j].pos = s[j].pos
                            /\ t[j].squashed <=> s[j].squashed \/ j > k
    BY <1>5, <1>6
  <2> QED BY <1>4, <1>5, <1>6, <2>1, <2>2, CutConnected
<1> QED BY <1>3, <1>5, <1>7, <1>8, OrderNext

\* Instructions go from the queue to the reorder buffer, in their order.
LEMMA ReceivesOrder ==
  ASSUME FetchInv, PreciseInv, ~sig.squash, sc' = sc, Receives
  PROVE  InProgramOrder'
<1>1. /\ rob \in Seq(Inst) /\ f.queue \in Seq(Inst) /\ rob' \in Seq(Inst)
      /\ f' \in FetchState /\ f'.pc = f.pc /\ UNCHANGED <<c, sig>>
  BY ReceivesFacts DEF Receives
<1>2. PICK n \in 0..Len(f.queue) :
        /\ Len(rob') = Len(rob) + n
        /\ Len(f'.queue) = Len(f.queue) - n
        /\ \A k \in DOMAIN rob :
             /\ rob'[k].pos = rob[k].pos
             /\ rob'[k].squashed <=> rob[k].squashed
        /\ \A k \in 1..n : rob'[Len(rob) + k] = f.queue[k]
        /\ \A k \in DOMAIN f'.queue : f'.queue[k] = f.queue[n + k]
  BY ReceivesFacts
<1>3. f'.queue \in Seq(Inst)
  BY <1>1, FetchFields
<1> DEFINE q == f.queue
           r == f'.queue
           s == rob \o q
           t == rob' \o r
<1>4. /\ s \in Seq(Inst) /\ Len(s) = Len(rob) + Len(q) /\ DOMAIN s = 1..(Len(rob) + Len(q))
      /\ Len(rob) \in Nat /\ Len(q) \in Nat
      /\ DOMAIN rob = 1..Len(rob) /\ DOMAIN q = 1..Len(q)
      /\ \A k \in DOMAIN rob : s[k] = rob[k]
      /\ \A k \in DOMAIN q : s[Len(rob) + k] = q[k]
  BY <1>1, ConcatFacts
<1>5. /\ t \in Seq(Inst) /\ Len(t) = Len(rob') + Len(r)
      /\ DOMAIN rob' = 1..Len(rob') /\ DOMAIN r = 1..Len(r)
      /\ \A k \in DOMAIN rob' : t[k] = rob'[k]
      /\ \A k \in DOMAIN r : t[Len(rob') + k] = r[k]
  BY <1>1, <1>3, ConcatFacts
<1>6. Stream = s /\ Stream' = t /\ FetchNext' = FetchNext
  BY <1>1 DEF Stream, FetchNext
<1>7. /\ n \in 0..Len(q) /\ Len(rob') = Len(rob) + n /\ Len(r) = Len(q) - n
      /\ \A k \in DOMAIN rob : /\ rob'[k].pos = rob[k].pos
                               /\ rob'[k].squashed <=> rob[k].squashed
      /\ \A k \in 1..n : rob'[Len(rob) + k] = q[k]
      /\ \A k \in DOMAIN r : r[k] = q[n + k]
  BY <1>2
<1> HIDE DEF q, r, s, t
<1>8. ASSUME NEW k \in DOMAIN s
      PROVE  t[k].pos = s[k].pos /\ (t[k].squashed <=> s[k].squashed)
  <2>1. CASE k <= Len(rob)
    <3>1. k \in DOMAIN rob /\ k \in DOMAIN rob'
      BY <1>4, <1>5, <1>7, <2>1
    <3>2. t[k] = rob'[k] /\ s[k] = rob[k]
      BY <1>4, <1>5, <3>1
    <3> QED BY <1>7, <3>1, <3>2
  <2>2. CASE k > Len(rob) /\ k <= Len(rob) + n
    <3> DEFINE j == k - Len(rob)
    <3>1. j \in 1..n /\ j \in DOMAIN q /\ Len(rob) + j = k /\ k \in DOMAIN rob'
      BY <1>4, <1>5, <1>7, <2>2
    <3> HIDE DEF j
    <3>2. t[k] = rob'[k] /\ s[k] = q[j] /\ rob'[k] = q[j]
      BY <1>4, <1>5, <1>7, <3>1
    <3> QED BY <3>2
  <2>3. CASE k > Len(rob) + n
    <3> DEFINE j == k - Len(rob)
               i == k - Len(rob')
    <3>1. j \in DOMAIN q /\ Len(rob) + j = k
      BY <1>4, <1>7, <2>3
    <3>2. i \in DOMAIN r /\ Len(rob') + i = k /\ n + i = j
      BY SMTT(60), <1>4, <1>5, <1>7, <2>3
    <3> HIDE DEF i, j
    <3>3. s[k] = q[j] /\ t[k] = r[i] /\ r[i] = q[j]
      BY <1>4, <1>5, <1>7, <3>1, <3>2
    <3> QED BY <3>3
  <2> QED BY <1>4, <1>7, <2>1, <2>2, <2>3
<1>9. Len(t) = Len(s)
  BY <1>4, <1>5, <1>7
<1>10. ASSUME c.trap = "none" PROVE Connected(t, c.pc, FetchNext)
  <2>1. Connected(s, c.pc, FetchNext)
    BY <1>6, <1>10 DEF PreciseInv, InProgramOrder
  <2> QED BY <1>4, <1>5, <1>8, <1>9, <2>1, SameConnected
<1> QED BY <1>1, <1>6, <1>10, OrderNext

LEMMA SquashPrecise ==
  ASSUME FetchInv, PreciseInv, Squash
  PROVE  PreciseInv'
<1>1. /\ phase = "squash" /\ ~sig.squash /\ UNCHANGED <<sc, seen>>
      /\ \/ RedirectsAll
         \/ RedirectsExit
         \/ \E k \in DOMAIN rob : RedirectsBehind(k)
         \/ Stays
         \/ Receives
  BY SquashChoices
<1>2. /\ sc \in Scenarios /\ rob \in Seq(Inst) /\ x \in Mode
      /\ c.pc \in Pos /\ x.storedPc \in Pos /\ f.queue \in Seq(Inst)
  BY CommitFields, FetchFields DEF FetchInv, Types, Mode
<1>3. SeenAtTrap'
  BY <1>1 DEF PreciseInv, SeenAtTrap, Nobody
<1>4. ASSUME x' = x, c'.pc = c.pc, c'.canHandleInterrupts = c.canHandleInterrupts
      PROVE  RegsRestored' /\ AtBoundaries'
  BY <1>1, <1>4 DEF PreciseInv, RegsRestored, RunaheadHazard, AtBoundaries, Boundary, Pred,
                   prog
<1>5. CASE RedirectsAll
  <2>1. x' = x /\ Redirect(0, c.pc, "none")
    BY <1>5 DEF RedirectsAll
  <2> QED BY <1>1, <1>2, <1>3, <1>4, <2>1, RedirectAllOrder DEF PreciseInv
<1>6. CASE RedirectsExit
  <2>1. x.exit /\ Redirect(0, x.storedPc, "none")
        /\ x' = [x EXCEPT !.on = FALSE, !.exit = FALSE, !.restoreNext = TRUE,
                          !.warm = x.storedPc]
    BY <1>6 DEF RedirectsExit
  <2>2. InProgramOrder' /\ c'.pc = x.storedPc
    BY <1>1, <1>2, <2>1, RedirectAllOrder
  <2>3. prog[x.storedPc].kind = "load"
    BY <2>1 DEF FetchInv, TrapPaired, PreciseInv, AtBoundaries
  <2>4. ~x'.on /\ x'.restoreNext /\ x'.warm = x.storedPc
    BY <1>2, <2>1 DEF Mode
  <2>5. RegsRestored' /\ AtBoundaries'
    BY <1>1, <2>2, <2>3, <2>4 DEF RegsRestored, RunaheadHazard, AtBoundaries, Boundary, Pred,
                                  prog
  <2> QED BY <1>3, <2>2, <2>5 DEF PreciseInv
<1>7. CASE \E k \in DOMAIN rob : RedirectsBehind(k)
  <2>1. PICK k \in DOMAIN rob : RedirectsBehind(k)
    BY <1>7
  <2>2. x' = x
    BY <2>1 DEF RedirectsBehind
  <2> QED BY <1>1, <1>3, <1>4, <2>1, <2>2, RedirectBehindOrder DEF PreciseInv
<1>8. CASE Stays
  <2>1. UNCHANGED <<rob, f, c, sig, x>>
    BY <1>8 DEF Stays
  <2>2. InProgramOrder'
    BY <1>1, <1>2, <2>1, OrderKept, SelfStream DEF PreciseInv
  <2> QED BY <1>3, <1>4, <2>1, <2>2 DEF PreciseInv
<1>9. CASE Receives
  <2>1. UNCHANGED <<c, sig, x>>
    BY <1>9 DEF Receives
  <2> QED BY <1>1, <1>3, <1>4, <1>9, <2>1, ReceivesOrder DEF PreciseInv
<1> QED BY <1>1, <1>5, <1>6, <1>7, <1>8, <1>9

-----------------------------------------------------------------------------
(* PreciseInv is inductive.                                                *)

LEMMA InitPrecise == Init => PreciseInv
<1> SUFFICES ASSUME Init PROVE PreciseInv
  OBVIOUS
<1>1. sc \in Scenarios /\ Boundary(1)
  BY ProgramFacts DEF Init
<1>2. /\ rob = <<>> /\ f.queue = <<>> /\ f.pc = 1 /\ c.pc = 1 /\ ~sig.squash
      /\ ~x.on /\ x.regs = "arch" /\ x.warm = 0 /\ seen = Nobody
  BY DEF Init, NoSignal
<1>3. InProgramOrder
  <2>1. Stream = <<>> /\ FetchNext = 1
    <3>1. <<>> \o <<>> = <<>>
      OBVIOUS
    <3> QED BY <1>2, <3>1 DEF Stream, FetchNext
  <2>2. Live(<<>>) = {}
    BY DEF Live
  <2>3. Connected(<<>>, 1, 1)
    BY <2>2, NoneConnected
  <2> QED BY <1>2, <2>1, <2>3 DEF InProgramOrder
<1>4. RegsRestored /\ SeenAtTrap /\ AtBoundaries
  BY <1>1, <1>2 DEF RegsRestored, SeenAtTrap, AtBoundaries
<1> QED BY <1>3, <1>4 DEF PreciseInv

LEMMA StepPrecise ==
  ASSUME FetchInv, PreciseInv, [Next]_vars
  PROVE  PreciseInv'
<1>1. CASE \/ Tick \/ PostInterrupt \/ Drain \/ ProcessTrapEvent \/ ExitDue
           \/ ClearInterrupt \/ StopCommit \/ UNCHANGED vars
  BY <1>1, QuietPrecise
<1>2. CASE FetchTick
  BY <1>2, FetchPrecise
<1>3. CASE Answer
  BY <1>3, AnswerPrecise
<1>4. CASE (\E k \in DOMAIN rob : Execute(k) \/ Respond(k)) \/ PoisonRunaheadLLL
  BY <1>4, RobEventPrecise DEF RobEvent
<1>5. CASE RetireSquashed
  BY <1>5, RetireSquashedPrecise
<1>6. CASE CommitHead
  BY <1>6, CommitHeadPrecise
<1>7. CASE TrapHead
  BY <1>7, TrapHeadPrecise
<1>8. CASE TakeInterrupt
  BY <1>8, TakeInterruptPrecise
<1>9. CASE EnterRunahead
  BY <1>9, EnterPrecise
<1>10. CASE Walk
  BY <1>10, WalkPrecise
<1>11. CASE Squash
  BY <1>11, SquashPrecise
<1>12. CASE EndOfTick
  BY <1>12, EndPrecise
<1> QED BY <1>1, <1>2, <1>3, <1>4, <1>5, <1>6, <1>7, <1>8, <1>9, <1>10, <1>11, <1>12
           DEF Next, Commit

-----------------------------------------------------------------------------
(* The steps of the precise machine.                                       *)

MappedPc == IF x.on THEN x.storedPc ELSE c.pc
MappedSeen == IF Halted THEN [pc |-> f.pc, regs |-> x.regs] ELSE seen

\* A drained CPU is between two macro-ops, with fetch where commit is, and the
\* registers are those of the program.
LEMMA HaltedState ==
  FetchInv /\ PreciseInv /\ Halted =>
    f.pc = c.pc /\ x.regs = "arch" /\ Boundary(c.pc) /\ ~x.on /\ seen = Nobody
<1> SUFFICES ASSUME FetchInv, PreciseInv, Halted
             PROVE  f.pc = c.pc /\ x.regs = "arch" /\ Boundary(c.pc) /\ ~x.on /\ seen = Nobody
  OBVIOUS
<1>1. /\ rob = <<>> /\ f.queue = <<>> /\ c.status = "Running" /\ Boundary(c.pc)
      /\ ~x.on /\ ~x.restoreNext /\ ~x.restoreNow
  BY DEF Halted, IsEmpty
<1>2. c.trap = "none" /\ ~sig.squash
  BY <1>1 DEF FetchInv, TrapPaired, SquashHeard
<1>3. f.pc = c.pc
  <2>1. Stream = <<>> /\ FetchNext = f.pc
    <3>1. <<>> \o <<>> = <<>>
      OBVIOUS
    <3> QED BY <1>1, <1>2, <3>1 DEF Stream, FetchNext
  <2>2. Connected(<<>>, c.pc, f.pc)
    BY <1>2, <2>1 DEF PreciseInv, InProgramOrder
  <2>3. Live(<<>>) = {}
    BY DEF Live
  <2> QED BY <2>2, <2>3 DEF Connected
<1>4. x.regs = "arch" /\ seen = Nobody
  BY <1>1 DEF PreciseInv, RegsRestored, RunaheadHazard, SeenAtTrap
<1> QED BY <1>1, <1>3, <1>4

LEMMA HaltedNext ==
  FetchInv' /\ PreciseInv' /\ Halted' =>
    (f.pc = c.pc /\ x.regs = "arch" /\ Boundary(c.pc) /\ ~x.on /\ seen = Nobody)'
BY HaltedState, PTL

\* A step that a drained CPU does not feel.
Rests ==
  /\ UNCHANGED sc /\ rob' = <<>> /\ f'.queue = <<>> /\ f'.status = "Blocked"
  /\ f'.drainStall /\ f'.pc = f.pc
  /\ c'.pc = c.pc /\ ~c'.interrupt /\ c'.status = "Running"
  /\ ~x'.on /\ ~x'.restoreNext /\ ~x'.restoreNow /\ x'.regs = x.regs /\ x'.warm = x.warm

\* A drained CPU stays as it is.
LEMMA HaltedRests ==
  ASSUME FetchInv, Halted, Next
  PROVE  Rests
<1>1. /\ rob = <<>> /\ f.queue = <<>> /\ f.status = "Blocked" /\ f.drainStall
      /\ Boundary(c.pc) /\ ~c.interrupt /\ c.status = "Running"
      /\ ~x.on /\ ~x.restoreNext /\ ~x.restoreNow
  BY DEF Halted, IsEmpty
<1>2. /\ f \in FetchState /\ c \in CommitState /\ x \in Mode /\ sig \in Signal
      /\ c.trap = "none" /\ ~sig.squash /\ ~x.exit /\ c.drainImminent /\ f.retryPkt = 0
  BY <1>1 DEF FetchInv, Types, OneAccess, TrapPaired, SquashHeard, DrainStops
<1>3. DOMAIN rob = {} /\ Len(f.queue) = 0 /\ Len(rob) = 0
  BY <1>1
<1>4. ASSUME UNCHANGED <<sc, rob, f, c, x>> PROVE Rests
  BY <1>1, <1>4 DEF Rests
<1>5. CASE \/ Tick \/ PostInterrupt \/ Drain \/ ProcessTrapEvent \/ ExitDue
           \/ ClearInterrupt \/ StopCommit
  <2>1. /\ UNCHANGED <<sc, f, rob, x>>
        /\ c' = c \/ c' = [c EXCEPT !.drainPending = TRUE]
    BY <1>1, <1>2, <1>5 DEF Tick, PostInterrupt, Drain, ProcessTrapEvent, ExitDue,
       ClearInterrupt, InLoop, StopCommit, cpuVars
  <2>2. c'.pc = c.pc /\ c'.interrupt = c.interrupt /\ c'.status = c.status
    BY <1>2, <2>1 DEF CommitState
  <2> QED BY <1>1, <2>1, <2>2 DEF Rests
<1>6. CASE FetchTick
  <2>1. /\ UNCHANGED <<sc, rob, c, x>> /\ f'.drainStall = f.drainStall
        /\ f'.status = "Blocked" /\ f' \in FetchState
    BY <1>1, <1>2, <1>6, FetchTickFacts DEF Waiting
  <2>2. PICK s \in Seq(Inst) :
          /\ f'.queue = (IF sig.squash THEN <<>> ELSE f.queue) \o s
          /\ Follows(s, FetchNext, f'.pc)
          /\ sig.squash \/ f.drainStall => s = <<>>
    BY <1>6, FetchTickFacts
  <2>3. s = <<>> /\ f'.pc = f.pc
    BY <1>1, <1>2, <2>2 DEF Follows, FetchNext
  <2>4. f'.queue = <<>>
    <3>1. f'.queue = <<>> \o <<>>
      BY <1>1, <1>2, <2>2, <2>3
    <3>2. <<>> \o <<>> = <<>>
      OBVIOUS
    <3> QED BY <3>1, <3>2
  <2> QED BY <1>1, <2>1, <2>3, <2>4 DEF Rests
<1>7. CASE Answer
  <2>1. UNCHANGED <<sc, rob, c, x>>
    BY <1>7 DEF Answer, FinishTranslation, ProcessCacheCompletion, RecvReqRetry
  <2>2. f' = f \/ f' = [f EXCEPT !.cacheBlocked = FALSE]
    BY <1>1, <1>2, <1>7 DEF Answer, FinishTranslation, ProcessCacheCompletion, RecvReqRetry
  <2>3. f'.queue = f.queue /\ f'.status = f.status /\ f'.drainStall = f.drainStall
        /\ f'.pc = f.pc
    BY <1>2, <2>2 DEF FetchState
  <2> QED BY <1>1, <2>1, <2>3 DEF Rests
<1>8. ASSUME \/ \E k \in DOMAIN rob : Execute(k) \/ Respond(k)
             \/ AtHead \/ TakeInterrupt
      PROVE  FALSE
  BY <1>1, <1>3, <1>8 DEF AtHead, TakeInterrupt
<1>9. CASE RetireSquashed \/ CommitHead \/ TrapHead \/ EnterRunahead \/ PoisonRunaheadLLL
  BY <1>8, <1>9 DEF RetireSquashed, CommitHead, TrapHead, EnterRunahead, PoisonRunaheadLLL
<1>10. CASE Walk
  <2>1. /\ UNCHANGED <<sc, f, rob, x>> /\ c'.pc = c.pc /\ c'.status = c.status
        /\ c'.interrupt = c.interrupt
    BY <1>1, <1>2, <1>10, WalkFacts
  <2> QED BY <1>1, <2>1 DEF Rests
<1>11. CASE Squash
  <2>1. UNCHANGED <<sc, c, x, sig>> /\ phase' = "insts" /\ GetInsts
    <3>1. Redirects = {}
      BY <1>3 DEF Redirects
    <3> QED BY <1>1, <1>2, <1>11, <3>1 DEF Squash
  <2>2. Receives
    BY <2>1 DEF Receives
  <2>3. PICK n \in 0..Len(f.queue) : /\ Len(rob') = Len(rob) + n
                                     /\ Len(f'.queue) = Len(f.queue) - n
    BY <2>2, ReceivesFacts
  <2>4. /\ rob' \in Seq(Inst) /\ f' \in FetchState /\ f'.pc = f.pc
        /\ f'.status = f.status /\ f'.drainStall = f.drainStall
    BY <2>2, ReceivesFacts
  <2>5. f'.queue \in Seq(Inst) /\ Len(rob') = 0 /\ Len(f'.queue) = 0
    <3>1. n = 0
      BY <1>3
    <3>2. f'.queue \in Seq(Inst)
      BY <2>4, FetchFields
    <3> QED BY <1>3, <2>3, <3>1, <3>2
  <2>6. rob' = <<>> /\ f'.queue = <<>>
    BY <2>4, <2>5, EmptySeq
  <2> QED BY <1>1, <2>1, <2>4, <2>6 DEF Rests
<1>12. CASE EndOfTick
  <2>1. /\ UNCHANGED <<sc, rob>> /\ x'.on = x.on /\ x'.restoreNow = x.restoreNext
        /\ ~x'.restoreNext /\ x'.regs = (IF x.restoreNow THEN "arch" ELSE x.regs)
        /\ x'.warm = x.warm
        /\ c'.status = c.status /\ c'.pc = c.pc /\ c'.interrupt = c.interrupt
        /\ f'.status = f.status /\ f'.pc = f.pc /\ f'.drainStall = f.drainStall
        /\ f'.queue = f.queue
    BY <1>12, EndFacts
  <2> QED BY <1>1, <1>2, <2>1 DEF Rests, Mode
<1> QED BY <1>5, <1>6, <1>7, <1>8, <1>9, <1>10, <1>11, <1>12 DEF Next, Commit

LEMMA HaltedStays ==
  ASSUME FetchInv, PreciseInv, Halted, Next
  PROVE  Halted' /\ UNCHANGED <<sc, MappedPc, x.warm, MappedSeen>>
<1>1. Rests /\ ~x.on /\ Boundary(c.pc)
  BY HaltedRests DEF Halted, IsEmpty
<1>2. Halted'
  BY <1>1 DEF Rests, Halted, IsEmpty, Boundary, Pred, prog
<1> QED BY <1>1, <1>2 DEF Rests, MappedPc, MappedSeen

LEMMA StillRuns == ~Halted /\ ~Halted' => UNCHANGED Halted
<1>1. Halted \in BOOLEAN /\ Halted' \in BOOLEAN
  BY DEF Halted
<1> QED BY <1>1

\* A step that leaves the PC and what is seen alone is none of the precise machine,
\* but for the one with which the CPU has drained.
LEMMA UnseenStep ==
  ASSUME FetchInv', PreciseInv', ~Halted, UNCHANGED <<sc, MappedPc, x.warm, seen>>
  PROVE  [Precise!Next]_(Precise!vars)
<1>1. UNCHANGED prog /\ MappedPc' = MappedPc /\ x'.warm = x.warm /\ seen' = seen
  BY DEF prog
<1>2. CASE Halted'
  <2>1. f'.pc = c'.pc /\ x'.regs = "arch" /\ Boundary(c.pc)' /\ ~x'.on /\ seen' = Nobody
    BY <1>2, HaltedNext
  <2>2. MappedPc' = c'.pc
    BY <2>1 DEF MappedPc
  <2>3. ~prog[IF MappedPc = 1 THEN Len(prog) ELSE MappedPc - 1].mid
    BY <1>1, <2>1, <2>2 DEF Boundary, Pred
  <2>4. MappedSeen = Nobody /\ MappedSeen' = [pc |-> MappedPc, regs |-> "arch"]
    BY <1>1, <1>2, <2>1, <2>2 DEF MappedSeen
  <2>5. Precise!Halt
    BY <1>1, <1>2, <2>3, <2>4 DEF MappedPc, MappedSeen, Precise!Halt, Precise!See,
       Precise!Boundary, Precise!Pred, Precise!Nobody, Nobody
  <2> QED BY <1>1, <2>5 DEF Precise!Next
<1>3. CASE ~Halted'
  BY <1>1, <1>3, StillRuns DEF MappedPc, Precise!vars
<1> QED BY <1>2, <1>3

LEMMA CommitStep ==
  ASSUME FetchInv, PreciseInv, PreciseInv', FetchInv', CommitHead
  PROVE  [Precise!Next]_(Precise!vars)
<1>1. /\ AtHead /\ ~rob[1].squashed /\ UNCHANGED <<phase, sc, seen>>
      /\ c'.pc = Succ(rob[1].pos)
      /\ f'.drainStall <=> c'.drainImminent
      /\ c'.drainImminent => c'.status = "SquashAfterPending"
      /\ x'.on = x.on /\ x'.storedPc = x.storedPc
      /\ x'.warm = IF ~x.on /\ x.warm = rob[1].pos THEN 0 ELSE x.warm
  BY CommitHeadFacts
<1>2. rob # <<>> /\ phase = "insts"
  BY <1>1, HeadFacts
<1>3. ~Halted /\ ~Halted' /\ seen = Nobody
  BY <1>1, <1>2 DEF Halted, IsEmpty, PreciseInv, SeenAtTrap
<1>4. CASE x.on
  <2>1. MappedPc' = MappedPc /\ x'.warm = x.warm
    BY <1>1, <1>4 DEF MappedPc
  <2> QED BY <1>1, <1>3, <2>1, UnseenStep
<1>5. CASE ~x.on
  <2>1. c'.pc = Succ(c.pc) /\ UNCHANGED prog
        /\ x'.warm = IF x.warm = c.pc THEN 0 ELSE x.warm
    BY <1>1, <1>5, HeadAtPc DEF prog
  <2>2. Precise!Step
    BY <1>1, <1>3, <1>5, <2>1, StillRuns DEF Precise!Step, Precise!Succ, Precise!Nobody, Nobody,
       Succ
  <2> QED BY <1>3, <2>1, <2>2 DEF Precise!Next
<1> QED BY <1>4, <1>5

LEMMA TrapStep ==
  ASSUME FetchInv, PreciseInv, TrapHead
  PROVE  [Precise!Next]_(Precise!vars)
<1>1. /\ AtHead /\ UNCHANGED <<sc, x, seen>> /\ ~x.on /\ c'.status = "TrapPending"
      /\ c'.pc = Succ(c.pc) /\ ~rob[1].squashed /\ prog[rob[1].pos].kind = "fault"
  BY TrapHeadFacts
<1>2. rob # <<>> /\ phase = "insts"
  BY <1>1, HeadFacts
<1>3. ~Halted /\ ~Halted' /\ seen = Nobody
  BY <1>1, <1>2 DEF Halted, IsEmpty, PreciseInv, SeenAtTrap
<1>4. x.warm # c.pc
  <2>1. rob[1].pos = c.pc /\ c.pc \in Pos /\ sc \in Scenarios
    BY <1>1, HeadAtPc, CommitFields DEF FetchInv, Types
  <2>2. c.pc # 0
    BY <2>1, ProgramFacts
  <2> QED BY <1>1, <2>1, <2>2 DEF PreciseInv, AtBoundaries
<1>5. Precise!Step
  BY <1>1, <1>3, <1>4, StillRuns DEF Precise!Step, Precise!Succ, Precise!Nobody, Nobody, Succ, prog
<1> QED BY <1>1, <1>3, <1>5 DEF Precise!Next, prog

LEMMA InterruptStep ==
  ASSUME FetchInv, PreciseInv, TakeInterrupt
  PROVE  [Precise!Next]_(Precise!vars)
<1>1. /\ UNCHANGED <<sc, x>> /\ phase = "insts" /\ CanTakeInterrupt /\ ~x.on
      /\ c'.status = "TrapPending" /\ c'.pc = c.pc
      /\ seen' = [pc |-> c.pc, regs |-> x.regs]
  BY TakeInterruptFacts
<1>2. c.interrupt
  BY DEF TakeInterrupt
<1>3. ~Halted /\ ~Halted' /\ seen = Nobody
  BY <1>1, <1>2 DEF Halted, IsEmpty, PreciseInv, SeenAtTrap
<1>4. (Boundary(c.pc) \/ x.warm = c.pc) /\ x.regs = "arch"
  BY <1>1 DEF PreciseInv, AtBoundaries, RegsRestored, CanTakeInterrupt
<1>5. \/ ~prog[IF c.pc = 1 THEN Len(prog) ELSE c.pc - 1].mid
      \/ x.warm = c.pc
  BY <1>4 DEF Boundary, Pred
<1>6. Precise!Interrupt
  BY <1>1, <1>3, <1>4, <1>5, StillRuns DEF Precise!Interrupt, Precise!See, Precise!Boundary,
     Precise!Pred, Precise!Nobody, Nobody
<1> QED BY <1>1, <1>3, <1>6 DEF Precise!Next, prog

LEMMA ReturnStep ==
  ASSUME FetchInv, PreciseInv, FetchInv', PreciseInv', ~Halted, EndOfTick
  PROVE  [Precise!Next]_(Precise!vars)
<1>1. /\ UNCHANGED sc /\ seen' = Nobody /\ x'.on = x.on /\ x'.storedPc = x.storedPc
      /\ x'.warm = x.warm
      /\ c'.status = c.status /\ c'.pc = c.pc
  BY EndFacts
<1>2. MappedPc' = MappedPc
  BY <1>1 DEF MappedPc
<1>3. CASE seen = Nobody
  BY <1>1, <1>2, <1>3, UnseenStep
<1>4. CASE seen # Nobody
  <2>1. ~Halted'
    BY <1>1, <1>4 DEF PreciseInv, SeenAtTrap, Halted
  <2>2. Precise!Return
    BY <1>1, <1>2, <2>1, StillRuns DEF MappedPc, Precise!Return, Precise!Nobody, Nobody
  <2> QED BY <1>1, <2>2 DEF Precise!Next, prog
<1> QED BY <1>3, <1>4

\* The steps that leave the PC of the program and what is seen alone; all but the
\* exit of runahead leave alone where the last period has gone back to.
LEMMA UnseenSteps ==
  ASSUME FetchInv,
         \/ Tick \/ FetchTick \/ Walk \/ Squash \/ ClearInterrupt \/ RetireSquashed
         \/ EnterRunahead \/ PoisonRunaheadLLL \/ StopCommit \/ Answer
         \/ \E k \in DOMAIN rob : Execute(k) \/ Respond(k)
         \/ ExitDue \/ ProcessTrapEvent \/ PostInterrupt \/ Drain
  PROVE  /\ UNCHANGED <<sc, MappedPc, seen>>
         /\ \/ x'.warm = x.warm
            \/ Squash /\ x'.warm = MappedPc /\ x'.restoreNext
<1>1. c \in CommitState /\ x \in Mode /\ rob \in Seq(Inst) /\ sc \in Scenarios
  BY DEF FetchInv, Types
<1>2. CASE \/ Tick \/ FetchTick \/ ClearInterrupt \/ RetireSquashed \/ StopCommit \/ Answer
           \/ ExitDue \/ ProcessTrapEvent \/ PostInterrupt \/ Drain
  <2>1. /\ UNCHANGED <<sc, seen>>
        /\ c' = c \/ c' = [c EXCEPT !.drainPending = TRUE]
                  \/ c' = [c EXCEPT !.trap = "squash"]
                  \/ c' = [c EXCEPT !.interrupt = FALSE, !.avoidQuiesceLiveLock = TRUE]
        /\ x' = x \/ x' = [x EXCEPT !.exit = TRUE]
    BY <1>2 DEF Tick, FetchTick, ClearInterrupt, RetireSquashed, StopCommit, Answer,
       FinishTranslation, ProcessCacheCompletion, RecvReqRetry,
       ExitDue, ProcessTrapEvent, PostInterrupt, Drain, cpuVars
  <2>2. c'.pc = c.pc /\ x'.on = x.on /\ x'.storedPc = x.storedPc /\ x'.warm = x.warm
    BY <1>1, <2>1 DEF CommitState, Mode
  <2> QED BY <2>1, <2>2 DEF MappedPc
<1>3. CASE (\E k \in DOMAIN rob : Execute(k) \/ Respond(k)) \/ PoisonRunaheadLLL
  <2>1. /\ UNCHANGED <<sc, c, seen>>
        /\ x' = x \/ x' = [x EXCEPT !.regs = "runahead"]
    BY <1>3, RobEventFacts DEF RobEvent
  <2>2. x'.on = x.on /\ x'.storedPc = x.storedPc /\ x'.warm = x.warm
    BY <1>1, <2>1 DEF Mode
  <2> QED BY <2>1, <2>2 DEF MappedPc
<1>4. CASE Walk
  BY <1>4, WalkFacts DEF MappedPc
<1>5. CASE EnterRunahead
  BY <1>5, EnterFacts DEF MappedPc
<1>6. CASE Squash
  <2>1. /\ phase = "squash" /\ UNCHANGED <<sc, seen>>
        /\ \/ RedirectsAll
           \/ RedirectsExit
           \/ \E k \in DOMAIN rob : RedirectsBehind(k)
           \/ Stays
           \/ Receives
    BY <1>6, SquashChoices
  <2>2. 0 \in 0..Len(rob) /\ c.pc \in Pos /\ x.storedPc \in Pos
    BY <1>1, CommitFields, Domains DEF Mode
  <2>3. CASE RedirectsAll
    <3>1. x' = x /\ Redirect(0, c.pc, "none")
      BY <2>3 DEF RedirectsAll
    <3>2. c'.pc = c.pc
      BY <2>1, <2>2, <3>1, RedirectFacts
    <3> QED BY <2>1, <3>1, <3>2 DEF MappedPc
  <2>4. CASE RedirectsExit
    <3>1. x.exit /\ Redirect(0, x.storedPc, "none")
          /\ x' = [x EXCEPT !.on = FALSE, !.exit = FALSE, !.restoreNext = TRUE,
                            !.warm = x.storedPc]
      BY <2>4 DEF RedirectsExit
    <3>2. c'.pc = x.storedPc
      BY <2>1, <2>2, <3>1, RedirectFacts
    <3>3. x.on /\ ~x'.on /\ x'.restoreNext /\ x'.warm = x.storedPc
      BY <1>1, <3>1 DEF FetchInv, TrapPaired, Mode
    <3> QED BY <1>6, <2>1, <3>2, <3>3 DEF MappedPc
  <2>5. CASE \E k \in DOMAIN rob : RedirectsBehind(k)
    <3>1. PICK k \in DOMAIN rob : RedirectsBehind(k)
      BY <2>5
    <3>2. x' = x /\ Redirect(k, Succ(rob[k].pos), "none")
      BY <3>1 DEF RedirectsBehind
    <3>3. k \in 0..Len(rob) /\ k # 0 /\ Succ(rob[k].pos) \in Pos
      BY <1>1, Domains, InstFields, ProgramFacts
    <3>4. c'.pc = c.pc
      BY <2>1, <3>2, <3>3, RedirectFacts
    <3> QED BY <2>1, <3>2, <3>4 DEF MappedPc
  <2>6. CASE Stays \/ Receives
    BY <2>1, <2>6 DEF Stays, Receives, MappedPc
  <2> QED BY <2>1, <2>3, <2>4, <2>5, <2>6
<1> QED BY <1>2, <1>3, <1>4, <1>5, <1>6

\* The exit of runahead.
LEMMA GoBackStep ==
  ASSUME FetchInv, PreciseInv, PreciseInv', ~Halted, Squash, UNCHANGED <<sc, MappedPc, seen>>,
         x'.warm = MappedPc, x'.restoreNext
  PROVE  [Precise!Next]_(Precise!vars)
<1>1. ~Halted' /\ UNCHANGED prog
  BY DEF Halted, prog
<1>2. MappedPc # 0
  <2>1. sc \in Scenarios /\ c.pc \in Pos /\ x.storedPc \in Pos
    BY CommitFields DEF FetchInv, Types, Mode
  <2> QED BY <2>1, ProgramFacts DEF MappedPc
<1>3. prog[MappedPc].kind = "load"
  BY <1>1, <1>2 DEF PreciseInv, AtBoundaries
<1>4. Precise!GoBack
  BY <1>1, <1>3, StillRuns DEF MappedPc, Precise!GoBack
<1> QED BY <1>1, <1>4 DEF Precise!Next

LEMMA PreciseStep ==
  ASSUME FetchInv, PreciseInv, FetchInv', PreciseInv', [Next]_vars
  PROVE  [Precise!Next]_(Precise!vars)
<1>1. CASE UNCHANGED vars
  BY <1>1 DEF vars, cpuVars, Precise!vars, prog, Halted, IsEmpty, Boundary, Pred
<1>2. CASE Halted /\ Next
  <2>1. Halted' /\ UNCHANGED <<sc, MappedPc, x.warm, MappedSeen>>
    BY <1>2, HaltedStays
  <2> QED BY <1>2, <2>1 DEF MappedPc, MappedSeen, Precise!vars, prog
<1>3. CASE ~Halted /\ Next
  <2>1. CASE CommitHead
    BY <2>1, CommitStep
  <2>2. CASE TrapHead
    BY <2>2, TrapStep
  <2>3. CASE TakeInterrupt
    BY <2>3, InterruptStep
  <2>4. CASE EndOfTick
    BY <1>3, <2>4, ReturnStep
  <2>5. CASE \/ Tick \/ FetchTick \/ Walk \/ Squash \/ ClearInterrupt \/ RetireSquashed
             \/ EnterRunahead \/ PoisonRunaheadLLL \/ StopCommit \/ Answer
             \/ \E k \in DOMAIN rob : Execute(k) \/ Respond(k)
             \/ ExitDue \/ ProcessTrapEvent \/ PostInterrupt \/ Drain
    <3>1. /\ UNCHANGED <<sc, MappedPc, seen>>
          /\ x'.warm = x.warm \/ (Squash /\ x'.warm = MappedPc /\ x'.restoreNext)
      BY <2>5, UnseenSteps
    <3>2. CASE x'.warm = x.warm
      BY <1>3, <3>1, <3>2, UnseenStep
    <3>3. CASE Squash /\ x'.warm = MappedPc /\ x'.restoreNext
      BY <1>3, <3>1, <3>3, GoBackStep
    <3> QED BY <3>1, <3>2, <3>3
  <2> QED BY <1>3, <2>1, <2>2, <2>3, <2>4, <2>5 DEF Next, Commit
<1> QED BY <1>1, <1>2, <1>3

\* Interrupts are taken, and the CPU drains, with the registers of the program
\* (commit.cc:991, cpu.cc:1085); the CPU drains between two macro-ops, and so are
\* interrupts taken, but for those at the load a runahead period has just gone back
\* to, for which commit.cc:1440 may have left canHandleInterrupts set: the pipeline
\* with its runahead periods implements the precise machine, for every program.
THEOREM DrainPrecise == Spec => PreciseStates
<1>1. Init => Precise!Init
  <2> SUFFICES ASSUME Init PROVE Precise!Init
    OBVIOUS
  <2>1. ~x.on /\ c.pc = 1 /\ f.status = "Running" /\ seen = Nobody /\ x.warm = 0
    BY DEF Init
  <2>2. ~Halted
    BY <2>1 DEF Halted, IsEmpty
  <2> QED BY <2>1, <2>2 DEF Precise!Init, Precise!Nobody, Nobody
<1>2. FetchInv /\ PreciseInv /\ [Next]_vars => PreciseInv'
  BY StepPrecise
<1>3. FetchInv /\ PreciseInv /\ FetchInv' /\ PreciseInv' /\ [Next]_vars
        => [Precise!Next]_(Precise!vars)
  BY PreciseStep
<1> QED BY <1>1, <1>2, <1>3, InitPrecise, FetchInvariance, PTL
          DEF Spec, PreciseStates, Precise!Spec
=============================================================================
