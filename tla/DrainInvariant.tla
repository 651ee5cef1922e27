--------------------------- MODULE DrainInvariant ---------------------------
(***************************************************************************)
(* Why interrupts and draining never see runahead, nor the middle of a     *)
(* macro-op but where a period has gone back to: the                       *)
(* inductive invariants behind FetchSound and PreciseStates.               *)
(***************************************************************************)
EXTENDS InterruptDrain

Phases == {"events", "fetch", "walk", "squash", "insts", "end"}

Inst == [pos : Pos, runahead : BOOLEAN, squashed : BOOLEAN,
         state : {"wait", "sent", "done"}, redirect : BOOLEAN, wrong : BOOLEAN]

FetchStatuses == Waiting \cup {"Running", "Squashing", "Blocked", "IcacheAccessComplete"}

FetchState ==
  [status : FetchStatuses, pc : Pos, macroop : BOOLEAN,
   line : Nat, valid : BOOLEAN, data : Nat, retryPkt : Nat,
   cacheBlocked : BOOLEAN, drainStall : BOOLEAN, interruptPending : BOOLEAN,
   delayedCommit : BOOLEAN, queue : Seq(Inst), fresh : Nat, trained : BOOLEAN]

CommitState ==
  [status : {"Running", "ROBSquashing", "TrapPending", "SquashAfterPending"},
   pc : Pos, walk : Int, canHandleInterrupts : BOOLEAN, interrupt : BOOLEAN,
   avoidQuiesceLiveLock : BOOLEAN, trap : {"none", "event", "squash"},
   drainPending : BOOLEAN, drainImminent : BOOLEAN, n : Nat]

Signal == [squash : BOOLEAN, pc : Pos, interrupt : BOOLEAN, clear : BOOLEAN]

Mode == [on : BOOLEAN, exit : BOOLEAN, storedPc : Pos, restoreNext : BOOLEAN,
         restoreNow : BOOLEAN, regs : {"arch", "runahead"}, warm : Nat]

Request == [line : Nat \ {0}, live : BOOLEAN]

Types ==
  /\ phase \in Phases /\ sc \in Scenarios
  /\ f \in FetchState /\ tlb \subseteq Request /\ icache \subseteq Request
  /\ rob \in Seq(Inst) /\ c \in CommitState /\ sig \in Signal /\ x \in Mode
  /\ Len(f.queue) <= QueueSize /\ Len(rob) <= RobSize

\* Fetch has one access under way whose answer it takes: that for its line.
OneAccess ==
  /\ f.retryPkt # 0 => /\ f.status = "IcacheWaitRetry" /\ f.cacheBlocked
                       /\ f.retryPkt = f.line
  /\ f.valid => f.data = f.line
  /\ \A q \in icache : q.live => f.status = "IcacheWaitResponse" /\ q.line = f.line

\* A trap is under way just while commit waits for it, and never in runahead.
TrapPaired ==
  /\ c.trap # "none" <=> c.status = "TrapPending"
  /\ x.on => c.trap = "none"
  /\ x.exit => x.on

\* Fetch hears of a squash before commit's walk ends.
SquashHeard ==
  sig.squash => c.status = "ROBSquashing" /\ phase \in {"end", "events", "fetch"}

\* Nothing in front of the reorder buffer is squashed or executed; only loads
\* wait for memory; in runahead everything is runahead.
InstsSound ==
  /\ \A k \in DOMAIN f.queue : ~f.queue[k].squashed /\ f.queue[k].state = "wait"
  /\ \A k \in DOMAIN rob : rob[k].state = "sent" => prog[rob[k].pos].kind = "load"
  /\ x.on => /\ \A k \in DOMAIN rob : rob[k].runahead
             /\ \A k \in DOMAIN f.queue : f.queue[k].runahead

\* Once commit has said that it drains, nothing is left to retire, and fetch is
\* held back.
DrainStops ==
  /\ f.drainStall <=> c.drainImminent
  /\ c.drainImminent => ~c.interrupt /\ c.status # "TrapPending"
  /\ c.drainImminent /\ c.status # "SquashAfterPending" =>
       /\ \A k \in DOMAIN rob : rob[k].squashed
       /\ sig.squash \/ f.queue = <<>>

FetchInv == Types /\ OneAccess /\ TrapPaired /\ SquashHeard /\ InstsSound /\ DrainStops

-----------------------------------------------------------------------------
Live(s) == {k \in DOMAIN s : ~s[k].squashed}

\* What is live of s leads through the program from position a to position z.
Connected(s, a, z) ==
  /\ Live(s) = {} => z = a
  /\ \A k \in Live(s) : (\A j \in Live(s) : k <= j) => s[k].pos = a
  /\ \A j, k \in Live(s) : j < k /\ (\A m \in Live(s) : m <= j \/ k <= m)
                             => s[k].pos = Succ(s[j].pos)
  /\ \A k \in Live(s) : (\A j \in Live(s) : j <= k) => z = Succ(s[k].pos)

Stream == IF sig.squash THEN rob ELSE rob \o f.queue
FetchNext == IF sig.squash THEN sig.pc ELSE f.pc

\* From what commit retires next to what fetch builds next, nothing is missing.
InProgramOrder == c.trap = "none" => Connected(Stream, c.pc, FetchNext)

\* The registers are those of runahead only until the restore.
RegsRestored == RunaheadHazard \/ x.regs = "arch"

\* Somebody outside looks at the state only when an interrupt is taken.
SeenAtTrap == seen # Nobody => phase = "end" /\ c.status = "TrapPending"

\* Where commit would take an interrupt, a macro-op begins, or a runahead period has
\* gone back to it; a period begins at a load and goes back to it.
AtBoundaries ==
  /\ c.canHandleInterrupts /\ ~x.on => Boundary(c.pc) \/ x.warm = c.pc
  /\ x.warm # 0 => prog[x.warm].kind = "load"
  /\ x.on => prog[x.storedPc].kind = "load"

PreciseInv == InProgramOrder /\ RegsRestored /\ SeenAtTrap /\ AtBoundaries
=============================================================================
