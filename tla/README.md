# Runahead CPU: TLA+ models, checks and proofs

The repository extends gem5 with a CPU model that performs *runahead
execution*: when a load that misses the last-level cache blocks the head of the
reorder buffer, the CPU checkpoints its registers, gives the load a made-up
(*poisoned*) result, and keeps executing and *pseudoretiring* instructions so
that further misses are issued early. When the load returns, everything since
the checkpoint is thrown away and the program resumes at the load. All of it is
in `gem5-extensions/src/cpu/runahead` (paths below are relative to that
directory); the rest of the repository configures, runs and plots simulations.

## 1. Inventory

| component | state | operations | talks to |
|---|---|---|---|
| Commit (`commit.*`) | status per thread, commit PC, pending interrupt and drain, youngest and last committed sequence number, traps in flight, squash-after, runahead exit state, counters of pseudoretired and retired instructions | `tick`: ROB walk, squash selection, `getInsts`, `commitInsts`/`commitHead`, `updateRunaheadState`; `handleInterrupt`, `drain`; `signalExitRunahead`, `processTrapEvent`, deadline events | all stages through the time buffer, ROB, CPU |
| CPU (`cpu.*`) | runahead mode, cause, list of all instructions, chain, checkpoint | `tick`, `canEnterRunahead`, `enterRunahead`, `exitRunahead`, `restoreCheckpointState`, removal of squashed instructions, `drain` | owns everything |
| Reorder buffer (`rob.*`) | list of instructions, walk position, end of the walk | insert, retire, `squash`/`doSquash`, `findUnsentValidLoad`, `generateChainBuffer` | Commit, CPU |
| Fetch, Decode, Rename | queues, stall and squash state, PC, history buffer; fetch's cache access | one `tick` per cycle each, `squash`, block/unblock handshakes | each other, Commit |
| IEW (`iew.*`), FU pool | queues to and from issue, range of the last squash, messages to Commit | dispatch, `executeInsts`, `writebackInsts`, squashes for branches and memory order | IQ, LSQ, Commit |
| Instruction queue, memory dependence unit, store sets | ready lists, dependence graph, predicted store dependences, non-speculative, retry, deferred and blocked lists | insert, schedule, wake, replay, squash, violation | IEW, LSQ |
| Load/store queue (`lsq*`) | load queue, store queue, requests in flight, store buffer position | insert, execute, respond, forge a response, forward, write back stores, squash | memory, runahead cache, IEW |
| Runahead cache | direct mapped lines: tag, valid, poisoned, data | read, write, invalidate | LSQ, CPU |
| Checkpoint, rename maps, free list, register file, scoreboard | architectural copy, arch-to-physical maps, free registers, values and poison, readiness | rename, undo, commit, checkpoint, restore | CPU, Rename, IEW, Commit |
| Thread context/state, checker, parameters | simulated thread's view | accessors | outside |

Everything runs in one thread of control, the event queue. What makes the code
hard is the order in which things meet:

* **Cycles and signals.** `CPU::tick` calls fetch, decode, rename, IEW and
  commit in this order; what a stage sends is read by its neighbours one or more
  cycles later, and by then the sender's instruction may be squashed.
* **Events.** Memory responses, forged responses, trap squashes and exit
  deadlines come from the event queue between ticks, at any distance from what
  scheduled them.
* **Two modes.** Instructions of runahead and of normal mode share every buffer.
  Entering marks the whole window; leaving squashes it, over several cycles.
  The registers are restored one cycle after the squash begins.
* **Holding back.** For an interrupt or a drain request fetch stops, the pipeline
  runs empty, and only then may somebody look at the state, unless runahead, a
  trap or the middle of a macro-op comes in between; whether commit stands there is
  kept in a flag that pseudoretirement writes as well.
* **Competing squashes.** A trap, a squash-after, a runahead exit, a branch and
  a memory order violation may all be due in one cycle, and each can restart a
  ROB walk that is under way.

What makes each component correct:

* *Commit, CPU mode switch:* software never notices runahead; nothing of one
  mode is committed in the other; each period is ended once, by its own load,
  page fault or deadline; traps are neither lost nor taken in runahead.
* *ROB:* a squash marks all it covers, whatever restarts it.
* *Registers and maps:* after an exit they are those of the checkpoint; no
  physical register is in two places; nothing late writes them.
* *LSQ:* each load gets one response; forwarding returns the youngest older
  store; runahead stores never reach memory.
* *Runahead cache:* a runahead load sees the runahead stores before it, or their
  poison, or memory, and nothing of an earlier period.
* *Instruction queue, memory dependences:* what can issue does, replays are not
  lost, squashes leave no stale entry.
* *Interrupts, draining:* they see the state between two instructions of the
  program, never that of runahead, and come about in the end.
* *Stages:* the block/unblock handshakes never leave everyone waiting.

`PROJECT.json` lists the places where these are at risk (`hazards`).

## 2. Modules

| module | what it is |
|---|---|
| `RobOps` | the instruction record and the ROB as operators on sequences |
| `RunaheadCore` | mode switch, commit and exit protocol, with the stages before commit as far as they matter to it |
| `InOrderMachine` | what software sees of `RunaheadCore`: the program in order, each fault once |
| `ModeInvariant`, `SquashInvariant`, `OrderInvariant`, `ExitInvariant` | the inductive invariants behind the proofs about `RunaheadCore`: what modes, squashes, the refinement of `InOrderMachine` and the exit protocol rest on; all but the last also model-checked by a run |
| `RegInvariant` | the same for `RegRestore`: what the history, the commit map and a waiting reader have to do with each other through a squash, an undo and a restore |
| `ValueInvariant` | over it: what is in flight is the program from commit's PC on, and what its registers hold is what in-order execution leaves there |
| `DrainInvariant` | the same for `InterruptDrain`: what fetch's accesses, a trap, a drain and a runahead period have to do with each other; what is in flight is the program from commit's PC on |
| `FrontInvariant` | what keeps the two ends of each block and unblock of `FrontEnd` in agreement from tick to tick |
| `IqInvariant` | what keeps queue, dependence graph, memory dependence unit, ready lists and ROB of `RunaheadIq` in agreement |
| `RegRestore` | the registers: renaming, undo and freeing, readiness, values and poison, checkpoint and restore |
| `ArchRegisters` | what software sees of `RegRestore`: the registers of in-order execution |
| `RunaheadLsq` | load and store queues, requests of one and of two packets, runahead cache |
| `StoreBuffer` | what software sees of `RunaheadLsq`: a FIFO store buffer over memory |
| `RunaheadIq`, `StoreSet` | instruction queue, memory dependence unit, functional units; the store set predictor |
| `FrontEnd` | fetch, decode, rename, dispatch, ROB: how the stages stop each other and what a squash does to them |
| `InterruptDrain` | interrupts and draining against runahead: fetch's instruction cache access, commit's empty instruction boundary |
| `PreciseMachine` | what an interrupt handler or a drained CPU's owner sees of `InterruptDrain`: the state between two instructions |
| `RunaheadModeProofs` (types, modes, squashes), `RunaheadOrderProofs` (refinement of `InOrderMachine`, exit protocol), `RegHeldProofs`, `RegValueProofs`, `DrainProofs`, `FrontEndProofs`, `IqStepProofs` and `IqProofs` | theorems |
| `MC*` | the programs TLC runs each state machine with |

Each state machine takes the part of the CPU named in the table in full and the
rest of it as an environment that may do more than the real one: in
`RunaheadLsq` any ready instruction may execute, in `RunaheadIq` memory may
answer at any time, in `RegRestore` runahead may end in any cycle. They meet in
`RobOps` (`RunaheadCore`, `RegRestore` and `FrontEnd` mark squashed instructions
with the same walk) and in the order of the phases of a cycle, which is that of
`CPU::tick` in all of them.

### How RunaheadCore corresponds to the code

`phase` says which part of the cycle runs next: the events between ticks, fetch,
IEW, and then the parts of `Commit::tick` in the order of the code (ROB walk,
choice of one squash, squash from IEW, `getInsts`, commit loop,
`updateRunaheadState`). The time buffers are pairs of variables: `renameNext`
and `renameNow`, `iewNext` and `iewNow`, `archRestoreNext` and `archRestoreNow`;
`sig` is `toIEW->commitInfo`. One action stands for one handler or for one way
through the loop of `commitInsts`: `RetireSquashed`, `CommitHead`, `TrapHead`,
`IgnoreRunaheadFault`, `EnterRunahead`, `PoisonRunaheadLLL`, `StopCommit`.

An instruction is a record with its sequence number, its place in the program,
its kind, its progress and the flags of `DynInst` the control reads. Values are
abstracted to `regs`, which says whose values the register file holds.

Abstractions, all of which only add behaviours unless said otherwise:

* one thread; micro-ops are instructions of their own (the overlap counters count
  whole instructions);
* which instructions issue and when is free, as are write-back delays and
  bandwidth and how many instructions rename sends on;
* whether a load's request goes to memory or is answered near is free, as is
  which load a store finds to violate order;
* the in-flight time of a load is "sent" or "old" (beyond
  `runaheadInFlightThreshold`); deadlines fire at any time after being armed;
* whether stores still have to be written back before a fault is free;
* off the correct path, what is fetched comes from `WrongPathKinds`;
* `Policy`, `EagerEntry` and the bound `MaxSn` are functions of the program, so that
  one run covers a policy per program; nothing changes while a program runs;
* interrupts and draining are left to `InterruptDrain`, requests split over two
  cache lines to `RunaheadLsq`; thread-context squashes and transactional memory
  are not modelled (these leave behaviours out).

### How RegRestore corresponds to the code

`RunaheadCore` decides when runahead begins and ends and only says whose values
the register file holds; `RegRestore` says what happens to the registers and
lets runahead end in any cycle. It shares the squash operators of `RobOps`. The
phases of a cycle are rename, the freeing at the end of `Rename::tick`,
dispatch, execute, write-back, issue (`IEW::tick`) and commit's ROB walk, choice
of a squash, commit loop and restore.

| variables | code |
|---|---|
| `renameMap`, `freeList`, `history` | `UnifiedRenameMap`, `UnifiedFreeList`, `Rename::historyBuffer` (newest first) |
| `ready`, `iqReady` | `Scoreboard`, `InstructionQueue::regScoreboard` |
| `value`, `poison` | `PhysRegFile` |
| `pending` | the part of `iewQueue` not yet written back |
| `commitMap`, `misc` | `commitRenameMap`, the miscellaneous registers |
| `checkpoint`, `restoreNext`, `restoreNow` | `ArchCheckpoint`, the `archRestore` wire |

A value names the program position of the instruction that computed it, so that
"the right value" is what in-order execution would leave in the register; any
other operand makes the result `Bogus`. Abstractions:

* one class of renamed registers, at most one source and one destination per
  instruction; no pinned registers, fixed mappings or faults; one miscellaneous
  register, written by speculative instructions (non-speculative ones are
  poisoned in runahead and never write);
* ROB and instruction queue take an instruction in the same cycle; stages before
  rename are one delay, `FrontDelay`, which also includes what a squash empties;
* no wrong-path instructions: a branch or a memory order violation squashes and
  refetches the program itself, which gives the undo as much to do;
* which ready instruction issues, how late a load answers (never, if runahead
  drops it) and how many cycles write-back lags (`0..WbBacklog`) are free;
* rename waits for the end of the ROB walk, to which IEW holds it by blocking
  (`IEW::checkStall`); that the unblocking takes further cycles is `FrontDelay`.

### How RunaheadLsq corresponds to the code

| variables | code |
|---|---|
| `lq`, `sq`, `storeWBIt`, `storeBlocked`, `storeInFlight`, `stalled` | `LSQUnit`'s queues, `storeWBIt`, `isStoreBlocked`, `storeInFlight`, `stallingLoadIdx` and `stallingStoreIsn` |
| `req`, `wbEvents` | the `LSQRequest`s with the state of each packet; the pending `WritebackEvent`s |
| `cacheBlocked`, `usedLoadPorts`, `usedStorePorts` | the same of `LSQ` |
| `rcache`, `far` | `RunaheadCache`; the lines that no cache near the core holds |
| `mem` | the D-cache and what is behind it (outside `src`) |

The program's words are grouped into lines and lines into runahead cache blocks,
so that an access may need two packets and two lines may evict each other. A
value is the position in the program of the store it comes from. Abstractions:

* one thread; no transactional memory, load-linked and store-conditional, atomics,
  local accesses, cache maintenance, snoops or stores of size 0;
* the ROB walk of a squash is one tick that marks any part of what is left;
* which ready instruction executes next and whether a source is poisoned are
  free; a load that is refused waits in the instruction queue, whose retry list
  is in `RunaheadIq`, so `cacheUnblocked` makes it ready at once;
* memory answers a packet at any time; what a load reads of memory is bound when
  the packet is accepted; a response brings its line near;
* the load that blocks the head may enter runahead from the cycle after its
  packet was sent.

### How RunaheadIq corresponds to the code

The variables carry the names of the members of `InstructionQueue`, `MemDepUnit`
and `FUPool`; `depPred` is the record of tables of `StoreSet`. Programs are in
SSA form: a register is named by the instruction that writes it. Abstractions:

* no strictly ordered loads, store conditionals, atomics, transactional memory,
  pinned registers; a functional unit of several cycles is not pipelined;
* the scoreboard rename reads is left out, the queue looks up every source again
  in its own;
* `getBlockedMemInstToExecute`'s test of `isExecuted` (forged and split loads only)
  is left out;
* instructions the ROB walk has marked leave the ROB at once; a fault traps without
  delay;
* translations that take a walk and packets the cache refuses come at most
  `MaxDelays` times.

### How FrontEnd corresponds to the code

`f`, `d`, `r`, `i`, `c` are the records of the five stages, and one action is the
`tick` of one stage. Block, unblock and free-entry wires to an earlier stage are
read in the next cycle before their writer ticks again, so one copy of them is
enough; to later stages `wire` is read and `out` is written. Abstractions:

* fetch follows the program: after a mispredicted branch it refetches what comes
  behind it, so squashed instructions of the wrong path and of the right one look
  alike. The state `Idle` is `Running`. Instruction cache accesses,
  macro-ops and the drain stall are in `InterruptDrain`; quiescing is left out;
* SMT, transactional memory, store conditionals, the syscall-emulation case of a
  block that meets a squash, and squash-after as `squashAll` are left out;
* an instruction executes at any time and is ready to commit in the next cycle;
* `DecodeWidth` is not below `FetchWidth`: what decode's skid buffer may hold is
  stated for that case (`decode.cc:412` reckons with the width of fetch
  and `fetch.cc:960` sends up to the width of decode);
* squashes, faults and runahead periods share one budget, `MaxSquashes` of the program;
* the loops of `renameInsts` and `dispatchInsts` are `RenameRounds` and
  `DispatchRounds`, one round per instruction. `insts_available` is at most the free
  entries of the ROB, so that `NumROB` rounds are enough for rename.

`resumeUnblocking` is never set by the code and `resumeSerialize` never matters,
which `SerializeAlone` bears out.

### How InterruptDrain corresponds to the code

| variables | code |
|---|---|
| `f` | `Fetch`: `fetchStatus`, `macroop`, `fetchBufferPC` (`line`), `fetchBufferValid`, the contents of the buffer (`data`), `retryPkt`, `cacheBlocked`, `drainPending` (`drainStall`), `interruptPending`, `delayedCommit`; the instructions between fetch and the ROB (`queue`) |
| `tlb`, `icache` | the `FetchTranslation`s and packets under way; `live` says whether `memReq` is still theirs |
| `c`, `sig` | `Commit` with `canHandleInterrupts`, `interrupt`, `avoidQuiesceLiveLock`, `drainPending`, `drainImminent`; `toIEW->commitInfo` as fetch reads it |
| `x` | the mode, the saved PC, the `archRestore` wire, and whose values the registers hold |
| `raised` | `checkInterrupts` |
| `removed`, `removeList`, `drainState` | the same of `CPU`: instructions stay in `instList` to the end of their cycle |

The program is a loop, so that the pipeline never runs empty by itself. A phase of
a cycle is one action for fetch and one for each part of `Commit::tick`; an
iteration of `commitInsts`'s loop begins with `handleInterrupt`. Abstractions:

* decode, rename and dispatch are a queue that delivers any number of instructions
  from the cycle after they were fetched; execution is free;
* whether a branch is mispredicted is free until the first redirect, after which
  branches are predicted right;
* handlers take no time and return behind the instruction; a runahead period ends
  at any time, and the load that caused it hits when it is executed again;
* the last micro-op of the program ends a macro-op, and so does one that faults;
* translation always succeeds, and takes any time; a drain request comes at most
  once; `drainResume` is left out, since the CPU never reports that it has drained.

## 3. Runs

All constants are in the `.cfg` files. The bounds that are not parameters of the
code are the number of instructions fetched (`MaxSn`, or `maxSn` of a scenario),
`MaxSquashes`, `MaxDelays`, `MaxRefusals` and `QueueSize`, which stands for the
buffers between fetch and the ROB; when one of the first four is reached nothing new of
its kind starts and everything in flight still drains.

| run | configuration | question |
|---|---|---|
| `Core` | ROB 3, squash width 1, wrong paths of loads and page faults. Eager: five programs (branch, several loads, serializing instruction, fault, fetch page fault), 6 instructions, or 5 with a branch. NLLB with lazy entry: three programs (stores that find violations, repeated misses, a window that holds one load), 9 instructions | does commit ever see an instruction of the other mode, take a stale redirect, or leave something unmarked after a restarted walk? Is the restore early enough? Which load ends a period? Do periods overlap? The inductive invariant of the proofs; refinement of `InOrderMachine` |
| `CoreDynamic` | DynamicDelayed, filtered, overlapping periods, ROB 2, squash width 1, branches, and a fault behind a load, 5 instructions, `FairSpec` | does every period end, by its policy or its deadline, and commit come back from every trap and squash? The invariant behind the refinement of `InOrderMachine` |
| `Registers` | 2 architectural and 4 physical registers, ROB 3, squash width 1, write-back one cycle late, three programs, 6 instructions | is a register lost, freed under a reader, read too early or left poisoned? Refinement of `ArchRegisters` |
| `Lsq` | 3 words in 2 lines and 1 runahead block, 3 load and 2 store entries, thirteen programs, one refusal, `FairSpec` | does each load get one answer, does the write-back of stores skip, double or overtake any? Refinement of `StoreBuffer`; does everything retire? |
| `IqOrder` | 3 entries, issue width 2, ten programs, one delay, store sets of 2 entries cleared every 3 accesses, `FairSpec` | is an entry, a wake-up or a unit lost or doubled? Does everything retire? |
| `FrontEnd` | fetch, decode and rename of width 2, dispatch 1, ROB 3, queue and registers for 2 instructions, one load and one store entry; six programs of two or three instructions with one squash, trap or period, and one of seven that overfills everything with none; `FairSpec` | do block signals, counts and skid buffers lose, double or strand an instruction? Is a stage ever blocked for good? |
| `Interrupts` | fetch and commit width 2, squash width 1, ROB 2, fetch queue 1, looping programs: with interrupts at any time a macro-op over two cache lines with a load inside that misses, and a fault; with one drain request a missing load before a macro-op that ends in a branch, a load before a fault, and a branch before another line; with both a missing load; `FairSpec` | what state does an interrupt or a drain see? Is a late answer of the instruction cache taken for another's? Does either come about? Refinement of `PreciseMachine` |

Properties that consist of several conjuncts have a named definition for each of
them: `SquashSound` and `ExitSound` in `RunaheadCore`, `RegsHeld` and `PoisonSound`
in `RegRestore`, `WritebackSound` in `RunaheadLsq`, `QueueSound` in `RunaheadIq`,
`CountsSound` in `FrontEnd`. `FetchSound` collects three assertions of the code
around fetch and commit, and `Settles` says one thing of interrupts and one of draining.

The bounds let every action happen: two to three runahead periods fit into the
sequence numbers of `Core` (under NLLB) and `Registers`; a window of three with squash width
1 takes longer to squash than the registers take to restore, and every squash can
be interrupted by another; two spare physical registers are used up by two
renames, so that rename stalls on the free list and every freed register is
handed out again at once. In `Lsq` two words share a line, a program may cross
the two lines, and both lines fall on one runahead cache block. One program has one
store port for two stores and loses the second one (`LostStore` below); of it `Lsq` asks
what concerns the load queue, and that it retires. In all others there are ports for
every store (`PortsSuffice`), as in every configuration of the repository: the
default is 200, and `InOrderMemory` and the first two conjuncts of `WritebackSound` are
asked for then only. In
`FrontEnd` dispatch is narrower than rename and everything after it smaller than a
fetch group, so that every stage blocks, and squashes hit it blocked, unblocking
and serializing. In `Interrupts` the
programs loop and nothing is counted but the drain request: two instructions in
the ROB and one before it are enough for a fetch group, a macro-op or a period to
lie across the moment an interrupt is propagated, taken or withdrawn. Two cache
lines occur where squashes give accesses up: behind a branch, and in the macro-op
whose second half a period goes back to. The fourth policy, MinimumWork, is run in `StaleDeadline` only; the
theorems hold for all four.

`NoPoisonInNormal` (part of `PoisonSound`) is stated for a write-back at most one
cycle behind execution. Further behind, and with a window that takes longer to
squash than the registers take to restore, an instruction the ROB walk has not
reached writes its poison after `clearPoison`: only squashed instructions are
left out of `writebackInsts` (`iew.cc:1499`), and a normal instruction that writes
the register later does not cure it. What software sees stays right; the next
period takes valid values for poisoned.

**Fairness.** Everywhere: cycles go on (weak fairness of the phases), memory
answers every request, events scheduled on the event queue happen. Such events are
enabled only between cycles, which come and go, hence strong fairness.

* `RunaheadCore`: nothing is assumed of the stages. Fetch may miss and the
  scheduler may hold back for ever, and periods still end, by their deadline.
* `RunaheadLsq`: dispatch, execution and retirement of what is ready go on, which
  is the rest of the CPU's part (the queue issues oldest first); page table walks end
  and a refused packet is asked for again. Replays, waking of stalled loads and
  the write-back of stores are the code's and are not assumed.
* `RunaheadIq`: dispatch goes on, and the environment's events happen: loads are
  answered, walks end, packets are accepted. Issue, wake-up, replay and retry are
  the code's and are not assumed.
* `FrontEnd`: fetch gets instructions, execution ends, stores are written back, a
  pending trap is taken and a period ends, which are the parts modelled elsewhere.
* `InterruptDrain`: a runahead period ends (shown in `RunaheadCore`), and of
  everything the pipeline may be waiting for (an answer of the instruction cache, the
  oldest instruction's execution or answer, a trap, instructions from rename)
  something comes in the end; it is enough because what holds commit up stays.

Five runs end in a counterexample, each against a sentence or an assertion of the
repository:

* `StaleDeadline`: the deadline event means to ignore "a different runahead
  period" (`commit.cc:689`) but compares with `Commit::runaheadCause`, which is
  set when an exit is signalled and not at entry. A deadline of period A that
  fires in period B before B's load has returned ends B, and the exit squash
  starts from A's load. `Core` shows the same invariant under Eager, which
  arms no deadlines.
* `DeletedRequest`: a load across two lines of which one packet was sent and the
  other refused executes again, takes its data from an older store that got its
  data meanwhile, and retires. Its request is deleted with a packet in memory, which
  the destructor's assertion excludes (`lsq.cc:1225`). The programs of `Lsq` have no
  load across lines behind a store of both, and none of this happens there.
* `LostStore`: `storeWBIt` is "the first instruction that may be ready to be written
  back, and has not yet been written back" (`lsq_unit.hh:491`), but `writebackStores`
  goes on to the next store when one finds no free port (`lsq_unit.cc:977-980`).
  Nothing moves the iterator back: the store is never sent, stays in the queue for
  ever, is passed by later stores, and no load searches what lies before the iterator.
  Under TSO `storeInFlight` ends the loop first; elsewhere it takes more retired
  stores in a cycle than there are store ports.
* `LostEntry`: a barrier executes at the head of the ROB in runahead, and an older
  result has the only write-back of the cycle. The exit squash erases the
  barrier's entry in the memory dependence unit; the instruction queue does not mark
  what has issued, the ROB walk marks one instruction per cycle, and the write-back
  of the barrier, which is neither, fails the assertion at `mem_dep_unit.cc:596`.
  `EntryFound` says that nothing else is ever missed.
* `DrainHangs`: "The pipeline will be drained once all in-flight instructions have
  retired" (`cpu.cc:1011`), but `isCpuDrained` wants `removeList` empty
  (`cpu.cc:1089`), into which every removed instruction is pushed, and the lines of
  `cleanUpRemovedInsts` that took them out are commented out (`cpu.cc:1571`). The CPU
  runs empty, which `Settles` shows it does, and never says so. `Halted` in
  `InterruptDrain` is the drained state but for that list.

Reading the code for the models also turned these up. They can be seen at one
guard or one width each, and no run is spent on them:

* `BaseRunaheadCPU.py:179` says all runahead ends within `runaheadExitDeadline`;
  the deadline is armed only when the load has returned.
* `BaseRunaheadCPU.py:182` says a threshold of 0 disables the in-flight check;
  `cpu.cc:1667` then refuses every load.
* `arch_checkpoint.hh:52` says `restore` restores the architectural state, which is
  saved with all miscellaneous registers; `arch_checkpoint.cc:75` skips them, and
  pseudoretirement writes them (`commit.cc:1449`). The debug-only comparison after a
  restore (`CPU::checkStateForValidation`) reports such a difference in the trace and
  goes on. `RegRestore` has such an operation (`misc`); no program of a run uses it.
* `lsq_unit.cc:977`: when the second half of a split runahead store finds no
  port, the store counts as done; `runahead_cache.hh:23` and `lsq_unit.cc:1342`
  differ on what a split load gets when one half is poisoned.
* `isCpuDrained` does not ask for the mode. Were `removeList` emptied, the CPU could
  report itself drained in the middle of a runahead period, after a squash that
  removed everything in flight; `Halted` therefore adds that there is none.
* `canHandleInterrupts`, "True if last committed microop can be followed by an
  interrupt" (`commit.hh:540`), is written by pseudoretirement too (`commit.cc:1440`) and
  not restored by an exit: if the load that caused the period is not the first
  micro-op of its macro-op, an interrupt may be taken between the two. `Interrupts` has
  such a program. `PreciseMachine` takes an interrupt between two macro-ops or at the
  operation a period has just gone back to (`back`), and `DrainPrecise` shows that there
  is no third place.
* A drain, too, may be decided on by pseudoretirement (`commit.cc:1475`), at a macro-op
  boundary of the period. If its load is inside a macro-op, the exit goes back into it
  with fetch stalled, the micro-PC is never 0 again, and commit does not drain. Hence
  no program of `Interrupts` with a drain request has such a load, and `Settles`
  holds there.
* A squash sets fetch's `delayedCommit` (`fetch.cc:806`), and until the next macro-op
  boundary is fetched an interrupt does not hold fetch back: a loop that squashes again
  each time can put an interrupt off for as long as it lasts, hence the bound on
  mispredictions above.
* `commit.cc:1642` says an ignored runahead fault still squashes (`commit.cc:1698`
  raises no trap event), and `commit.cc:717` speaks of a limit of instructions
  where `rob.cc:386-408` counts loads.

## 4. Proofs

For every program, window, width, threshold and policy allowed by the named
assumptions on the constants:

* `TypeInvariant` (`TypeOK`): one lemma per group of actions. The two counters
  the code keeps unsigned stay natural numbers.
* `RegsRestoredInvariant` (`RegsRestored`): values computed in runahead are in the
  register file only in runahead and until the restore already on its way. The
  proof needs no more than the types: every action that writes runahead values
  checks the mode.
* `ModeInvariance` (`ModeInv`). Its first consequence,
  `ModeAgreementInvariant`, is not inductive: that commit sees no live
  instruction of the other mode rests on where such instructions still are.
  `ModeInv` says that sequence numbers rise along ROB, rename write and fetch
  queue (`AgeOrder`); that no instruction in flight is older than the load that
  caused runahead (`CauseIsOldest`); how `sig`, `status` and the phase go
  together within a cycle (`CycleOrder`); that in runahead everything in flight
  is runahead (`AllInRunahead`); and that out of runahead a leftover is squashed
  or still ahead of the walk in progress (`StaleInRob`), or in a part of the
  front end that the squash signal sent in this cycle clears (`StaleInFront`).
  `ExitInRunahead`, `TrapPaired` and `SquashAfterPaired` close the cases of an
  exit, a trap and a squash-after meeting.
* `NoTrapInRunaheadInvariant`, `TrapWillSquashInvariant`,
  `SquashAfterPairedInvariant` follow from it.
* `PipelineInvariance` (`PipelineInv`) adds `SquashInv` to `ModeInv`, for
  `SquashSoundInvariant` (`SquashSound`) and `RestoreFirstInvariant`
  (`RestoreFirst`). Neither is inductive: a squash that IEW asks for is
  read two phases of the pipeline later, when commit may have squashed, trapped or
  left runahead in between, and a squash that comes during a walk moves the
  walk's start. `CommittedIsOldest`: what is in flight is younger than anything
  committed. `WalkReaches`: during a walk everything younger than the oldest
  squash is marked or still ahead of the walk, which goes no further down than
  that squash. `Restoring`: from an exit to the restore, what is left of the period
  is runahead, and in front of the ROB it goes with the squash signal.
  `RedirectSent` and `RedirectRead` follow a squash of IEW until commit reads it:
  either the instruction it is for is in the ROB and live (`OnBehalf`), and, in the
  cycle it is sent, cannot be committed, since it or an older one has executed but
  is not complete yet (`Held`); or a squash of commit has `Overtaken` it, and the
  comparison of sequence numbers in commit drops it. The proof goes through
  the groups of actions that disturb one of the five parts.

* `RunaheadInvisible` (`ArchitecturallyInOrder`): with the PC saved at entry standing
  for the PC in runahead, every step of `RunaheadCore` is a step of
  `InOrderMachine` or invisible. Entries, exits and pseudoretirement leave that PC
  alone by their assignments; what takes an invariant is that the instruction at the
  head, when commit is about to commit or trap it out of runahead, is the one at the
  PC. That is `OrderInvariance` (`OrderInv`), over `PipelineInv`. Let what is live be
  what is in the ROB and neither squashed nor ahead of a walk in progress, and what
  is in front of the ROB unless the squash signal is about to clear it.
  `InProgramOrder`: what is live is a connected path through the program from the PC of
  commit to where fetch goes on. `WrongPathEnds`: a place off the correct path has
  before it a mispredicted branch that has not executed, or whose squash, or an older
  one, reaches commit before the branch can be committed. `InstsTrue`: what is live
  on the correct path is the program's instruction, faults just when no trap
  has handled its fault, and what IEW has told commit of it is where it leads. The
  rest serves these three: `FrontFresh`, `RenameStops`, `YoungestKnown` (outside a
  walk no live instruction is younger than `youngestSeqNum`, so a squash IEW asks for
  is not dropped by mistake), `PoisonIsRunahead`, `RangeDead` (the range of sequence
  numbers IEW takes for squashed holds nothing live) and `NumbersHandedOut`. All of it
  is stated for the time commit is `Proceeding`, outside runahead and with no
  trap pending; a trap and an exit squash everything and start over (`StartsOver`).
  The lemmas on `Connected` say what extending a path, cutting it behind a place,
  and taking its first place away do; `Continues` relates the live instructions before
  and after a step in which none comes or goes, and there is a lemma for every action
  in which one does.

* `EagerExitSound` (`ExitSound`, which speaks of the Eager policy), `NextLoadInvariant`
  (`NextLoadOfPeriod`) and `PeriodsApart` (`NoOverlap`), from `ExitInv` over
  `OrderInv`. `CauseStaysPoisoned`: everything in front of the ROB is younger than the
  load of the last period entered, and in the ROB it stays poisoned and issued, so it
  is never sent to memory a second time, and no load NLLB chooses is that load.
  `EagerDecides`: no deadline is ever armed and the return of the load decides at once;
  if the period is to end while the load is in memory, the page fault that ended
  it stays at the head until commit selects the exit (`FaultAtHead`). `RetiredSince`: the
  commit PC is ahead of that load by what has been retired since, because each
  instruction committed is the one at the PC (`HeadIsNext`, from `OrderInv`).

* `RegsConservedInvariant` (`RegsConserved`) and `HistoryChainInvariant`
  (`HistoryChain`), from `RegAssumption` and `OpsAssumption`: each physical
  register is on the free list, in the rename map or kept by a history entry,
  exactly once. Conservation alone is not inductive, since an undo puts a
  register of the entry, not of the map, on the free list; that the two agree is
  `HistoryChain`: per architectural register the entries lead back from the
  rename map, each to what it replaced. The lemmas `TakeHead`, `AppendNew` and
  `RemapNew` say what taking, returning and remapping a register do to the sets
  involved; `RenameDestStep`, `UndoStep`, `FreeStep` and `RestoreStep` treat the
  four steps that change the maps.
* `RegTypeInvariant` (`TypeOK`) and `RegsHeldInvariant` (`RegsHeld`), over the two
  before. That nothing still leads to a register on the free list is not inductive:
  commit's map and a waiting reader hold registers that only the history keeps off
  the list, and entries leave it in a later cycle than the instructions they are for.
  The invariant (`HeldInv`) follows both. `FlightOrder` and
  `HistoryOrder`: sequence numbers rise along ROB and rename write and fall along the
  history. `SignalPhases`, `SignalSound`, `WalkReaches`, `IewKnows`: where in a cycle
  commit's signal is on the wires, that a squash goes as far as the signal says, and
  that what the walk and IEW take for squashed is so, or will be (`Gone`).
  `HistoryMatches`: an instruction that is not `Gone` has its history entry, and an entry
  that the signal leaves (`Kept`) has its instruction. `Leads(r, sn, p)`: p is the mapping
  of r that rename found at sequence number sn, by way of the oldest entry from there on;
  `CommitMapLeads` and `ReadersLead` say so of the commit map and of whatever waits, from
  which, with `HistoryChain`, each is a register that is mapped or kept.
  `CauseOldest` and `AllGone`: a runahead period begins with its cause and, from the
  exit to the restore, nothing of it is left and all history is undone, which is
  the assertion of `CPU::restoreCheckpointState`. Freeing takes entries away at
  the old end, undo at the new end, so the proof treats `Leads` under each of
  the three changes of the history and uses that a nonempty set of its
  positions has a largest (`LargestIndex`).
* `SourcesTrueInvariant` (`SourcesTrue`), `PoisonSoundInvariant` (`PoisonSound`) and
  `RegistersRefine` (`RegistersInOrder`, the refinement of `ArchRegisters`), over those
  three. That a source taken for ready holds the right value is not inductive: the value
  is right because of who produced it, and that instruction may have committed, or its
  register may be a squashed one's that still executes, or be restored.
  `FlightInv` is about what is live and in front of the ROB or in it. `Positions`: it is
  the program from commit's PC to where fetch goes on, in order. `SourcesLead`: each
  reads the mapping of its place. `ModesAgree`: in runahead everything is runahead, and
  nothing of it is live afterwards. `GoneRegisters`: what executes on though it is gone
  has a register that is free or that an undo is about to free. `IewFollows`: except
  while a signal is on the wires IEW knows of every squash. `QueuedWait` and
  `PendingOld` keep rename's queue apart from what executes.
  `ValueInv` is about the registers. `NotReadyYet`: no scoreboard has a register ready
  that is still to be written. `ResultsTrue`: what has executed holds the value of its
  place, or is poisoned and, once written back, has poisoned its register.
  `SourcesWritten` and `IssuedTrue`: what is taken for ready has been written by whoever
  is to write it. `WiresTrue` is the window in which commit has squashed and IEW, not
  knowing it, goes on. `BaseTrue`: seen from the next to commit, each
  register leads to the value of in-order execution or, in runahead, to poison.
  `CheckpointTrue`: the checkpoint has the values of the place to return to.
  `PendingOnce`: nothing is on its way to commit twice.
  The argument rests on two lemmas. `Producer`: a source is the register of the youngest
  older instruction in flight that writes it or, if there is none, commit's. `FlightDst`:
  an instruction in flight shares its register with no other and with no free one.
  Hence a write goes to a register no other live instruction reads as an
  older value's (`WriterAway`, `SourceAway`). `FileIs`: outside runahead the
  registers commit's map leads to are those of in-order execution at commit's PC, and
  the checkpoint stands for them otherwise. `PlaceMoves` and `CommitWrites` give
  the refinement. `PoisonEnds` is for `PoisonSound` alone: with `WbBacklog` at most 1 the
  last write-back of a period comes before the restore clears the poison.
  `FlightInv`, `ValueInv` and `PoisonEnds` were checked with TLC on the programs of
  `Registers`, also with more registers and a backlog of 2 and 3.

* `FetchInvariance` (`FetchInv`) and `FetchSoundInvariant` (`FetchSound`), from
  `WidthAssumption` and `DrainScenarioAssumption`. The assertions of fetch
  are about what others do to it: an answer of the instruction cache comes when the
  access it is for has been given up, a drain after a squash. `OneAccess`: of the
  accesses under way at most those for fetch's own line are live, and just while it waits
  for the answer. `TrapPaired`: commit waits for a trap just while one is under way,
  never in runahead. `SquashHeard`: fetch has read a squash before commit's walk ends.
  `InstsSound`: in runahead everything is runahead, which keeps a fault from trapping.
  `DrainStops`: once commit has said that it drains, what is in the ROB is squashed,
  what is in front of it gone or about to be, and no interrupt and no trap is pending.
* `DrainPrecise` (`PreciseStates`): with the saved PC standing for the PC in runahead,
  every step of `InterruptDrain` is a step of `PreciseMachine` or invisible, for every
  program. An exit is a step `GoBack`, and `back` is the load of the period until commit
  retires it. The invariant
  (`PreciseInv`, over `FetchInv`): `InProgramOrder`, what is live from the ROB to
  where fetch goes on is a connected path through the program that begins at commit's PC,
  unless a trap is under way; from it follows that commit retires the program in
  order, and that fetch is where commit is when nothing is in flight. `RegsRestored`:
  outside the runahead hazard of `handleInterrupt` the registers are the program's.
  `AtBoundaries`: outside runahead, where `canHandleInterrupts` is set a macro-op
  begins, or commit stands at the load a period has gone back to. `HaltedRests` shows that a drained CPU stays so. Both invariants
  have been checked with TLC on the programs of `Interrupts`, with widths and buffers of
  2 and of 3.
* `HandshakeInvariance` (`HandshakeInv`) and `HandshakeSoundInvariant`
  (`HandshakeSound`), from `FrontEndAssumption` and `ProgramAssumption`. `HandshakeSound`
  speaks of the end of a cycle, when each stage has yet to read what the next one
  said. `HandshakeInv` says it of every point of the cycle: for each of the three
  handshakes, `Agree` (flag, signal and status together) from the tick of the stage
  behind to that of the stage before, and between that one and the next tick the
  flag alone. The proof follows each tick through its operators in their order. The points
  on which it turns: a squash finds a stage that holds instructions back and sends the unblock
  then and there; a stage that unblocks and blocks again in the same tick takes the
  unblock back; decode that blocks has put something in its skid buffer, so that no
  unblock follows; and rename enters `SerializeStall` only in a round that also sets
  `blockThisCycle` (`LoopWaits`, by induction over the rounds of `renameInsts`).
  `HandshakeInv` has been checked with TLC on the programs of `FrontEnd`.

* `IqInvariance` (`IqInv`), and with it all that `IqOrder` checks of safety:
  `IqTypeInvariant` (`TypeOK`), `EntriesConservedInvariant` (`EntriesConserved`),
  `QueueSoundInvariant` (`QueueSound`), `EntryFoundInvariant` (`EntryFound`) and
  `PredictorSquashInvariant` (`PredictorSquashEnds`), from `IqAssumption`,
  `IqScenarioAssumption` and `StoreSetAssumption`. Only `EntriesConserved` is a part
  of the invariant; none of the others is inductive. That an instruction is in one
  place says nothing of who will take it from there, and the assertions on lookups are
  about an entry that another instruction's write-back or a squash may have taken
  away. `PlaceInv`: the ten places (`At`) are apart, and kind and flags of an
  instruction fit the one it is in; what waits for a register or a store is in none.
  `Somewhere` is the other half: a live instruction that has neither been written back
  nor waits is in one. `SignalInv`, `LiveInv`, `RobInv`: the queue hears of a squash
  and of what retired later than the ROB, at the start of the next cycle, and then
  both hold the same; what only one of them holds is behind the walk or marked.
  `GraphInv` and `HashInv`: an instruction's counts are the numbers of its edges
  (`EdgesTo`) and of its entries' producers (`Producers`), each of which is in the
  queue and still to be written back, so the count reaches zero by its last producer
  and by no other. It also gives `ConsumersLive`: nothing squashed keeps an edge to
  what is live. `BarrierInv`: what accesses memory behind a barrier waits for it, and
  only the oldest barrier leaves `nonSpecInsts`. `ReadyInv`: the ready lists are in
  age order, and the order list has one entry for each that is not empty.
  `PredictorInv`: the store set tables refer only to stores already seen. `UnitInv`:
  busy units are those in use and those to be freed. One thing more is needed for
  `IssuedInOrder`, over `IqInv` (`SentInvariance`, `SentInv`): a load answered before
  its response comes, by `forgeResponse` at the head of the ROB, has nothing older
  than it there. `IqStepProofs` treats the events, `schedule`, `execute`, `commit` and
  the squashes, `IqProofs` dispatch and write-back, the two operations that change the
  most: the lemmas `DispatchIs` and `WritebackIs` state them by what they add and take
  away (`Cuts` does so for the squash of the queue), and the parts of the invariant
  are proved from these. `IqInv` and `SentInv` have been checked with TLC on the
  programs of `IqOrder`. `EntryFound` leaves out one lookup, which the code gets
  wrong: that of a barrier the queue has dropped and the ROB walk has yet to mark
  (`LostEntry`, §3). That there is no other such barrier is `UnlistedOK`: what the queue has
  dropped is squashed, ahead of the walk, or has been written back and retired.

`Core` checks `PipelineInv`, the types, `RegsRestored` and `ModeAgreement` with TLC,
`CoreDynamic` `OrderInv`, and `Registers` `RegsConserved` and `HistoryChain`.

Model-checked only: everything said of `RunaheadLsq`; of `FrontEnd`
`TypeOK`, `CountsSound`, `NothingLost` and `SerializeAlone`, which count filtered
sequences (`SelectSeq` and the folds have no definition the prover can expand);
liveness (out of the prover's reach).

## 5. Not modelled, and what comes next

* Thread-context squashes (nothing in the repository writes thread contexts), the idle
  clock, `drainResume` (not reached, see `DrainHangs`), translation faults between
  fetch and its cache access (`RunaheadCore` has the page fault carriers they become).
* Transactional memory, load-linked and store-conditional, atomics, SMT, snoops,
  pinned registers, vector modes: gem5's own, unchanged by the extension.
* Thread context and state (accessors), checker (gem5's own), parameters, the
  runahead buffer (not compiled), and everything outside `cpu/runahead`.

Next: theorems about what is only model-checked, `RunaheadLsq` first; for
`CountsSound` and `NothingLost` of `FrontEnd` the counts would have to become
recursive functions like the loops.
