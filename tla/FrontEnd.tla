------------------------------ MODULE FrontEnd ------------------------------
(***************************************************************************)
(* The flow of instructions through the stages of the pipeline: fetch,     *)
(* decode, rename, dispatch and the reorder buffer, for one thread.        *)
(*                                                                         *)
(* What the stages share is how they stop each other: block and unblock    *)
(* wires from each stage to the one before it, skid buffers for what was   *)
(* under way, the counts of free entries that rename keeps, instructions   *)
(* that rename holds back until the pipeline is empty, and squashes from   *)
(* decode and commit that cut into all of it.  Execution is here as much   *)
(* as dispatch and commit see of it: it takes any time.                    *)
(*                                                                         *)
(* One action is one stage's tick() and a cycle is, in CPU::tick's order,  *)
(*                                                                         *)
(*   fetch -> decode -> rename -> iew -> commit                            *)
(*                                                                         *)
(* A wire to an earlier stage is read in the next cycle, before its writer *)
(* ticks again, so the field of the writer's record is the wire.           *)
(***************************************************************************)
EXTENDS Integers, Sequences, FiniteSets, FiniteSetsExt, SequencesExt

CONSTANTS
  Programs,       \* sequences of Kinds
  FetchWidth, FetchQueueSize, DecodeWidth, RenameWidth, DispatchWidth,
  CommitWidth, SquashWidth,
  RenameToIEWDelay,  \* cycles; every other delay is 1, its default
  NumROB, NumIQ, NumLQ, NumSQ,
  NumRegs,        \* registers free when nothing is in flight
  MaxSquashes     \* bound of the model: squashes in a behaviour of each program

ASSUME FrontEndAssumption ==
  /\ \A n \in {FetchWidth, FetchQueueSize, DecodeWidth, RenameWidth, DispatchWidth,
               CommitWidth, SquashWidth, RenameToIEWDelay, NumROB, NumIQ, NumLQ,
               NumSQ, NumRegs} : n \in Nat \ {0}
  /\ MaxSquashes \in [Programs -> Nat]

\* "before" and "after" are isSerializeBefore and isSerializeAfter.
Kinds == {"alu", "branch", "load", "store", "before", "after"}

ASSUME ProgramAssumption == Programs \subseteq Seq(Kinds)

VARIABLES
  phase, prog,
  nextSn,      \* the global sequence number
  squashed,    \* seqNums in flight with the flag Squashed
  squashes,    \* how many squashes there have been
  f, d, r, i, c,  \* the stages
  wire, out    \* to later stages: what is read, and what is written, this cycle

vars == <<phase, prog, nextSn, squashed, squashes, f, d, r, i, c, wire, out>>

Rob == INSTANCE RobOps

KindOf(x) == prog[x.pos]
IsLoad(x) == KindOf(x) = "load"
IsStore(x) == KindOf(x) = "store"
HasDest(x) == KindOf(x) \in {"alu", "load"}
Live(x) == x.sn \notin squashed

Sns(q) == {x.sn : x \in Range(q)}
Count(q, P(_)) == Len(SelectSeq(q, P))
\* s with further fields.
Extend(s, g) == [x \in DOMAIN g \cup DOMAIN s |-> IF x \in DOMAIN g THEN g[x] ELSE s[x]]
From(q, n) == SubSeq(q, n, Len(q))
FrontSn(q) == IF q = <<>> THEN {} ELSE {Head(q).sn}
NoGroups == [k \in 1..RenameToIEWDelay |-> <<>>]

\* instList: all instructions in flight.
InstList == UNION {Range(q) : q \in {f.queue, wire.decode, out.decode, d.insts, d.skid,
                                     wire.rename, out.rename, r.insts, r.skid, r.serializeInst,
                                     FlattenSeq(wire.iew), out.iew, i.insts, i.skid, c.rob}}

Init ==
  /\ phase = "fetch" /\ prog \in Programs
  /\ nextSn = 1 /\ squashed = {} /\ squashes = 0
  /\ f = [status |-> "Running", queue |-> <<>>, nextPos |-> 1, stall |-> FALSE]
  /\ d = [status |-> "Running", insts |-> <<>>, skid |-> <<>>, stall |-> FALSE,
          block |-> FALSE, unblock |-> FALSE, squash |-> <<>>]
  /\ r = [status |-> "Running", insts |-> <<>>, skid |-> <<>>, stall |-> FALSE,
          block |-> FALSE, unblock |-> FALSE,
          serializeInst |-> <<>>, serializeOnNext |-> FALSE, temp |-> {}, handled |-> {},
          freeROB |-> NumROB, freeIQ |-> NumIQ, freeLQ |-> NumLQ, freeSQ |-> NumSQ,
          emptyROB |-> TRUE, inProgress |-> 0, loads |-> 0, stores |-> 0, history |-> {}]
  /\ i = [status |-> "Running", insts |-> <<>>, skid |-> <<>>, block |-> FALSE, unblock |-> FALSE,
          dispatched |-> 0, toLQ |-> 0, toSQ |-> 0,
          used |-> FALSE, freeIQ |-> 0, freeLQ |-> 0, freeSQ |-> 0,
          squashedTo |-> 0, squashTail |-> 0,
          iq |-> {}, lq |-> {}, sq |-> {}, toWB |-> {}, updateLSQ |-> FALSE, executed |-> {}]
  /\ c = [status |-> "Running", rob |-> <<>>, canCommit |-> {}, walk |-> 0, to |-> 0,
          youngest |-> 0, lastCommitted |-> 0, checkEmpty |-> FALSE, next |-> 1, cause |-> <<>>,
          fault |-> 0,
          squash |-> FALSE, pc |-> 0, done |-> 0, tail |-> 0, robSquashing |-> FALSE,
          used |-> FALSE, freeROB |-> 0, emptyROB |-> FALSE]
  /\ wire = [decode |-> <<>>, rename |-> <<>>, iew |-> NoGroups]
  /\ out = [decode |-> <<>>, rename |-> <<>>, iew |-> <<>>]

\* What a stage makes of the block and unblock wires of the stage after it.
Stalled(stall, w) == (stall \/ w.block) /\ ~w.unblock

-----------------------------------------------------------------------------
(* Fetch *)

\* doSquash
FetchSquash(pos) == [f EXCEPT !.status = "Squashing", !.queue = <<>>, !.nextPos = pos]

\* Mutant: what the reorder buffer has not received is left to it.
LeftToROB == {}

\* CPU::removeInstsNotInROB, and removeInstsUntil of the squashing branch.
NotInROB == LET tail == IF c.rob = <<>> THEN 0 ELSE Last(c.rob).sn
            IN  {x.sn : x \in {y \in InstList : y.sn > tail}}

YoungerThan(sn) == {x.sn : x \in {y \in InstList : y.sn > sn}}

\* fetch: n instructions more, when the cache has them; a squash stops it for
\* the cycle in which it is heard.
Fetched(n) == [k \in 1..n |-> [sn |-> nextSn + k - 1, pos |-> f.nextPos + k - 1]]

FetchRoom == Max({0, Min({FetchWidth, FetchQueueSize - Len(f.queue),
                          Len(prog) + 1 - f.nextPos})})

\* Mutant: a stalled decode is sent instructions all the same.
SendsAnyway(stall, queue) == Min({DecodeWidth, Len(queue)})

Sends(stall, queue) == IF stall THEN 0 ELSE Min({DecodeWidth, Len(queue)})

\* tick: checkSignalsAndUpdate, fetch, and as many instructions as decode can
\* take from the queue to decode.
Fetch(n) ==
  LET squash  == c.squash
      decodeSquash == ~squash /\ d.squash # <<>> /\ f.status # "Squashing"
      stall   == Stalled(f.stall, d)
      g       == IF squash THEN FetchSquash(c.pc)
                 ELSE IF decodeSquash THEN FetchSquash(d.squash[1].pos + 1)
                 ELSE [f EXCEPT !.status = "Running", !.queue = @ \o Fetched(n),
                                !.nextPos = @ + n]
      sent    == Sends(stall, g.queue)
  IN  /\ phase = "fetch"
      /\ n <= (IF squash \/ decodeSquash THEN 0 ELSE FetchRoom)
      /\ f' = [g EXCEPT !.stall = stall, !.queue = From(g.queue, sent + 1)]
      /\ out' = [out EXCEPT !.decode = SubSeq(g.queue, 1, sent)]
      /\ squashed' = (squashed \cap {x.sn : x \in InstList})
                     \cup (IF squash THEN NotInROB
                           ELSE IF decodeSquash THEN YoungerThan(d.squash[1].sn) ELSE {})
      /\ nextSn' = nextSn + n
      /\ phase' = "decode"
      /\ UNCHANGED <<prog, squashes, d, r, i, c, wire>>

-----------------------------------------------------------------------------
(* Decode *)

SkidInsert(s) == [s EXCEPT !.skid = @ \o s.insts, !.insts = <<>>]

\* block: an unblock written in this cycle is taken back instead.
DecodeBlock(s) ==
  LET t == SkidInsert(s)
  IN  IF s.status = "Blocked" THEN t
      ELSE [t EXCEPT !.status = "Blocked", !.unblock = FALSE, !.block = ~s.unblock]

\* unblock, of decode and of IEW.
Unblock(s) ==
  IF s.skid = <<>> THEN [s EXCEPT !.unblock = TRUE, !.status = "Running"] ELSE s

\* Mutant: fetch is not told to go on.
SquashSilently(s) ==
  [s EXCEPT !.status = "Squashing", !.insts = <<>>, !.skid = <<>>]

\* squash, of either kind.
DecodeSquash(s) ==
  [s EXCEPT !.status = "Squashing", !.insts = <<>>, !.skid = <<>>,
            !.unblock = @ \/ s.status \in {"Blocked", "Unblocking"}]

\* checkSignalsAndUpdate
DecodeSignals(s) ==
  LET t == [s EXCEPT !.stall = Stalled(@, r)]
  IN  IF c.squash THEN DecodeSquash(t)
      ELSE IF t.stall THEN DecodeBlock(t)
      ELSE IF t.status = "Blocked" THEN Unblock([t EXCEPT !.status = "Unblocking"])
      ELSE IF t.status = "Squashing" THEN [t EXCEPT !.status = "Running"]
      ELSE t

\* The queue that decodeInsts, renameInsts or dispatchInsts works on.
Source(s) == IF s.status = "Unblocking" THEN s.skid ELSE s.insts
SetSource(s, q) == IF s.status = "Unblocking" THEN [s EXCEPT !.skid = q]
                                              ELSE [s EXCEPT !.insts = q]

\* How many of q the loop of decodeInsts takes: until DecodeWidth are sent on.
DecodeTakes(q) ==
  Max({0} \cup {k \in DOMAIN q : Count(SubSeq(q, 1, k - 1), Live) < DecodeWidth})

\* decodeInsts; wrong is the place of a branch whose target proves wrong, or 0.
DecodeInsts(s, wrong) ==
  LET q == Source(s)
      n == IF wrong > 0 THEN wrong ELSE DecodeTakes(q)
      t == SetSource(s, From(q, n + 1))
  IN  IF wrong > 0 THEN [DecodeSquash(t) EXCEPT !.squash = <<q[wrong]>>]
      ELSE IF n < Len(q) THEN DecodeBlock(t) ELSE t

Active(s) == s.status \in {"Running", "Unblocking"}

\* decode: decodeInsts and, when unblocking, what came from fetch goes behind
\* what was waiting.
DecodeStage(s, wrong) ==
  IF s.status = "Unblocking" THEN Unblock(SkidInsert(DecodeInsts(s, wrong)))
  ELSE IF s.status = "Running" THEN DecodeInsts(s, wrong)
  ELSE s

Decode(wrong) ==
  /\ phase = "decode"
  /\ \E s \in {DecodeSignals([d EXCEPT !.insts = @ \o wire.decode, !.block = FALSE,
                                        !.unblock = FALSE, !.squash = <<>>])} :
     LET q == IF Active(s) THEN Source(s) ELSE <<>>
         n == IF wrong > 0 THEN wrong ELSE DecodeTakes(q)
     IN  /\ wrong > 0 => /\ squashes < MaxSquashes[prog]
                         /\ wrong <= DecodeTakes(q)
                         /\ Live(q[wrong]) /\ KindOf(q[wrong]) = "branch"
         /\ d' = DecodeStage(s, wrong)
         /\ out' = [out EXCEPT !.rename = SelectSeq(SubSeq(q, 1, n), Live)]
         /\ squashed' = squashed \cup (IF wrong > 0 THEN YoungerThan(q[wrong].sn) ELSE {})
         /\ squashes' = squashes + (IF wrong > 0 THEN 1 ELSE 0)
  /\ phase' = "rename"
  /\ UNCHANGED <<prog, nextSn, f, r, i, c, wire>>

-----------------------------------------------------------------------------
(* Rename *)

\* Mutant: what is under way is not counted.
LastHeard(s) == s.freeROB

\* calcFree*Entries: what was last heard to be free, less what was renamed
\* since and is not known to have arrived.
FreeROB(s) == s.freeROB - (s.inProgress - i.dispatched)
FreeIQ(s)  == s.freeIQ - (s.inProgress - i.dispatched)
FreeLQ(s)  == s.freeLQ - (s.loads - i.toLQ)
FreeSQ(s)  == s.freeSQ - (s.stores - i.toSQ)
FreeRegs(s) == NumRegs - Cardinality(s.history)

\* readFreeEntries
ReadFreeEntries(s) ==
  [s EXCEPT !.freeIQ = IF i.used THEN i.freeIQ ELSE @,
            !.freeLQ = IF i.used THEN i.freeLQ ELSE @,
            !.freeSQ = IF i.used THEN i.freeSQ ELSE @,
            !.freeROB = IF c.used THEN c.freeROB ELSE @,
            !.emptyROB = IF c.used THEN c.emptyROB ELSE @]

\* checkStall
RenameStalls(s) ==
  \/ s.stall
  \/ FreeROB(s) <= 0
  \/ FreeIQ(s) <= 0
  \/ (FreeLQ(s) <= 0 /\ FreeSQ(s) <= 0)
  \/ FreeRegs(s) <= 0
  \/ s.status = "SerializeStall" /\ (~s.emptyROB \/ s.inProgress > 0)

\* block: a stage held by SerializeStall stays so, and one that is unblocking
\* has not told decode to go on.
RenameBlock(s) ==
  LET t == SkidInsert(s)
  IN  IF s.status = "Blocked" THEN t
      ELSE [t EXCEPT !.block = @ \/ s.status # "Unblocking",
                     !.unblock = @ /\ s.status = "Unblocking",
                     !.status = IF @ = "SerializeStall" THEN @ ELSE "Blocked"]

\* unblock
RenameUnblock(s) == IF s.status = "SerializeStall" THEN s ELSE Unblock(s)

\* Mutant: a stage held back for a serializing instruction does not unblock.
SquashHeldBack(s) ==
  [s EXCEPT !.status = "Squashing", !.insts = <<>>, !.skid = <<>>, !.serializeInst = <<>>,
            !.temp = {}, !.handled = {},
            !.unblock = @ \/ s.status \in {"Blocked", "Unblocking"},
            !.history = {sn \in @ : sn <= c.done}]

\* squash.  All that is in rename is younger than what commit keeps.
RenameSquash(s) ==
  [s EXCEPT !.status = "Squashing", !.insts = <<>>, !.skid = <<>>, !.serializeInst = <<>>,
            !.temp = {}, !.handled = {},
            !.unblock = @ \/ s.status \in {"Blocked", "Unblocking", "SerializeStall"},
            !.history = {sn \in @ : sn <= c.done}]

\* Mutant: the instruction held back goes behind those that wait.
ResumeBehind(s) ==
  LET inst == s.serializeInst
      t    == RenameUnblock([s EXCEPT !.status = "Unblocking"])
  IN  [t EXCEPT !.serializeInst = <<>>, !.temp = @ \ Sns(inst),
                !.skid = IF @ # <<>> THEN @ \o inst ELSE @,
                !.insts = IF t.skid # <<>> THEN @ ELSE inst \o @]

\* The end of SerializeStall: the instruction held back is first again.
Resume(s) ==
  LET inst == s.serializeInst
      t    == RenameUnblock([s EXCEPT !.status = "Unblocking"])
  IN  [t EXCEPT !.serializeInst = <<>>, !.temp = @ \ Sns(inst),
                !.skid = IF @ # <<>> THEN inst \o @ ELSE @,
                !.insts = IF t.skid # <<>> THEN @ ELSE inst \o @]

\* checkSignalsAndUpdate
RenameSignals(s) ==
  LET t == [ReadFreeEntries(s) EXCEPT !.stall = Stalled(@, i)]
  IN  IF c.squash THEN RenameSquash(t)
      ELSE IF RenameStalls(t) THEN RenameBlock(t)
      ELSE IF t.status = "Blocked" THEN RenameUnblock([t EXCEPT !.status = "Unblocking"])
      ELSE IF t.status = "Squashing" THEN [t EXCEPT !.status = "Running"]
      ELSE IF t.status = "SerializeStall" THEN Resume(t)
      ELSE t

SerializeBefore(s, x) == KindOf(x) = "before" \/ x.sn \in s.temp

\* serializeAfter: the next instruction in the queue waits, or whichever
\* comes next.
SerializeAfter(s, rest) ==
  [s EXCEPT !.handled = @ \cup FrontSn(s.q),
            !.temp = @ \cup FrontSn(rest),
            !.serializeOnNext = @ \/ rest = <<>>]

\* x gets its registers and its place towards IEW.
RenameInst(s, x) ==
  [s EXCEPT !.sent = Append(@, x), !.n = @ - 1,
            !.temp = @ \ {x.sn}, !.handled = @ \ {x.sn},
            !.history = IF HasDest(x) THEN @ \cup {x.sn} ELSE @,
            !.loads = IF IsLoad(x) THEN @ + 1 ELSE @,
            !.stores = IF IsStore(x) THEN @ + 1 ELSE @]

\* One round of the loop of renameInsts: s.q is the queue, s.n is
\* insts_available, s.full is blockThisCycle.
RenameNext(s) ==
  LET x == Head(s.q)
      t == [s EXCEPT !.q = Tail(@)]
  IN  IF s.stop \/ s.n = 0 \/ Len(s.sent) = RenameWidth THEN s
      ELSE IF (IsLoad(x) /\ FreeLQ(s) <= 0) \/ (IsStore(x) /\ FreeSQ(s) <= 0)
           THEN [s EXCEPT !.stop = TRUE]
      ELSE IF ~Live(x) THEN [t EXCEPT !.n = @ - 1]
      ELSE IF HasDest(x) /\ FreeRegs(s) = 0 THEN [s EXCEPT !.stop = TRUE, !.full = TRUE]
      ELSE IF SerializeBefore(s, x) /\ x.sn \notin s.handled
           THEN [t EXCEPT !.stop = TRUE, !.full = TRUE, !.status = "SerializeStall",
                          !.serializeInst = <<x>>,
                          !.handled = IF x.sn \in s.temp THEN @ ELSE @ \cup {x.sn}]
      ELSE IF KindOf(x) = "after" /\ x.sn \notin s.handled
           THEN RenameInst([SerializeAfter(s, t.q) EXCEPT !.q = t.q], x)
      ELSE RenameInst(t, x)

\* n rounds of it, from s on; a round after the last changes nothing.  (Bound, u
\* is evaluated once: the CHOOSE has but one choice.)
RenameRounds(s, n) ==
  LET round[k \in 0..n] == IF k = 0 THEN s
                           ELSE CHOOSE t \in {RenameNext(u) : u \in {round[k - 1]}} : TRUE
  IN  round[n]

\* renameInsts, on a record with the fields q, n, sent, stop and full besides.
\* Every round takes one instruction or is the last, and insts_available is at
\* most the free entries of the ROB: after NumROB rounds the loop has ended.
RenameLoop(s) ==
  LET q     == Source(s)
      free  == Min({FreeROB(s), FreeIQ(s)})
      alone == s.emptyROB /\ s.inProgress = 0
      begin == Extend(s, [q |-> q, n |-> Min({free, Len(q)}), sent |-> <<>>, stop |-> FALSE,
                          full |-> free < Len(q)])
      mark  == [begin EXCEPT !.serializeOnNext = @ /\ ~alone,
                             !.temp = IF s.serializeOnNext /\ ~alone
                                      THEN @ \cup FrontSn(q) ELSE @]
  IN  RenameRounds(mark, NumROB)

\* The instructions that renameInsts sends, and the stage it leaves behind.
\* What is left of the queue is written back under the status it was read with.
RenameInsts(s) ==
  LET e == RenameLoop(s)
      t == [SetSource(s, e.q) EXCEPT
              !.status = e.status, !.serializeInst = e.serializeInst,
              !.serializeOnNext = e.serializeOnNext, !.temp = e.temp, !.handled = e.handled,
              !.history = e.history, !.loads = e.loads, !.stores = e.stores,
              !.inProgress = @ + Len(e.sent)]
  IN  IF e.full \/ e.n > 0 THEN [RenameBlock(t) EXCEPT !.unblock = FALSE] ELSE t

CanRename(s) == Source(s) # <<>> /\ Min({FreeROB(s), FreeIQ(s)}) > 0

RenameTry(s) == IF Source(s) = <<>> THEN s
                ELSE IF CanRename(s) THEN RenameInsts(s) ELSE RenameBlock(s)

\* rename
RenameStage(s) ==
  IF s.status = "Unblocking"
  THEN LET t == RenameTry(s)
       IN  RenameUnblock(IF \E x \in Range(wire.rename) : Live(x) THEN SkidInsert(t) ELSE t)
  ELSE IF s.status = "Running" THEN RenameTry(s)
  ELSE s

\* The end of tick: removeFromHistory, and what IEW reports as arrived.
RenameEnd(s) ==
  [s EXCEPT !.inProgress = @ - i.dispatched, !.loads = @ - i.toLQ, !.stores = @ - i.toSQ,
            !.history = IF c.done # 0 /\ ~c.squash /\ s.status # "Squashing"
                        THEN {sn \in @ : sn > c.done} ELSE @]

Rename ==
  /\ phase = "rename"
  /\ \E s \in {RenameSignals([r EXCEPT !.insts = @ \o wire.rename,
                                        !.block = FALSE, !.unblock = FALSE])} :
       /\ r' = RenameEnd(RenameStage(s))
       /\ out' = [out EXCEPT !.iew = IF Active(s) /\ CanRename(s)
                                     THEN RenameLoop(s).sent ELSE <<>>]
  /\ phase' = "iew"
  /\ UNCHANGED <<prog, nextSn, squashed, squashes, f, d, i, c, wire>>

-----------------------------------------------------------------------------
(* Issue, execute, write-back *)

\* What rename hears of instructions that left IEW's pipe: dispatched,
\* dispatchedToLQ and dispatchedToSQ.
Arrived(s, q) ==
  [s EXCEPT !.dispatched = @ + Len(q), !.toLQ = @ + Count(q, IsLoad),
            !.toSQ = @ + Count(q, IsStore)]

\* emptyRenameInsts
EmptyRenameInsts(s) == [Arrived(s, s.insts) EXCEPT !.insts = <<>>]

\* squash, with what the IQ and the LSQ drop; a committed store stays.
IEWSquash(s) ==
  LET Kept(S) == {sn \in S : sn <= c.done}
      t == EmptyRenameInsts([Arrived(s, s.skid) EXCEPT !.skid = <<>>])
  IN  [t EXCEPT !.squashedTo = c.done, !.squashTail = c.tail,
                !.iq = Kept(@), !.lq = Kept(@), !.sq = Kept(@) \cup s.toWB,
                !.unblock = @ \/ s.status \in {"Blocked", "Unblocking"},
                !.status = "Squashing"]

\* block
IEWBlock(s) ==
  [SkidInsert(s) EXCEPT !.block = @ \/ s.status \notin {"Blocked", "Unblocking"},
                        !.status = "Blocked"]

\* checkSignalsAndUpdate and checkStall
IEWSignals(s) ==
  LET t == IF c.robSquashing THEN [EmptyRenameInsts(s) EXCEPT !.status = "Squashing"] ELSE s
  IN  IF c.squash THEN IEWSquash(s)
      ELSE IF c.robSquashing \/ Cardinality(t.iq) = NumIQ THEN IEWBlock(t)
      ELSE IF t.status = "Blocked" THEN Unblock([t EXCEPT !.status = "Unblocking"])
      ELSE IF t.status = "Squashing" THEN [t EXCEPT !.status = "Running"]
      ELSE t

\* An instruction the reorder buffer has yet to mark is known by its number.
DispatchSquashed(s, x) == ~Live(x) \/ (x.sn > s.squashedTo /\ x.sn <= s.squashTail)

\* One round of the loop of dispatchInsts, on the queue s.q.
DispatchNext(s) ==
  LET x == Head(s.q)
      t == [Arrived(s, <<x>>) EXCEPT !.q = Tail(@)]
  IN  IF s.stop THEN s
      ELSE IF DispatchSquashed(s, x) THEN [t EXCEPT !.marked = @ \cup {x.sn}]
      ELSE IF \/ Cardinality(s.iq) = NumIQ
              \/ IsLoad(x) /\ Cardinality(s.lq) = NumLQ
              \/ IsStore(x) /\ Cardinality(s.sq) = NumSQ
           THEN [s EXCEPT !.stop = TRUE]
      ELSE [t EXCEPT !.iq = @ \cup {x.sn},
                     !.lq = IF IsLoad(x) THEN @ \cup {x.sn} ELSE @,
                     !.sq = IF IsStore(x) THEN @ \cup {x.sn} ELSE @]

DispatchRounds(s, n) ==
  LET round[k \in 0..n] == IF k = 0 THEN s
                           ELSE CHOOSE t \in {DispatchNext(u) : u \in {round[k - 1]}} : TRUE
  IN  round[n]

DispatchLoop(s) ==
  LET q == Source(s)
  IN  DispatchRounds(Extend(s, [q |-> q, stop |-> FALSE, marked |-> {}]),
                     Min({DispatchWidth, Len(q)}))

\* dispatchInsts
DispatchInsts(s) ==
  LET e == DispatchLoop(s)
      t == [SetSource(s, e.q) EXCEPT
              !.dispatched = e.dispatched, !.toLQ = e.toLQ, !.toSQ = e.toSQ,
              !.iq = e.iq, !.lq = e.lq, !.sq = e.sq]
  IN  IF e.q = <<>> THEN t ELSE [IEWBlock(t) EXCEPT !.unblock = FALSE]

\* dispatch
Dispatch(s) ==
  IF s.status = "Unblocking" THEN Unblock(SkidInsert(DispatchInsts(s)))
  ELSE IF s.status = "Running" THEN DispatchInsts(s)
  ELSE s

\* The rest of tick: instructions X leave the IQ and complete, the oldest
\* committed store is written back, what commit retired leaves the LSQ, and
\* rename hears of the free entries.
IEWEnd(s, X, writeback) ==
  LET done  == c.done # 0 /\ ~c.squash /\ ~c.robSquashing
      tell  == c.squash \/ X # {} \/ i.updateLSQ
      store == IF writeback THEN {Min(i.toWB)} ELSE {}
      iq    == s.iq \ X
      lq    == {sn \in s.lq : done => sn > c.done}
      sq    == s.sq \ store
  IN  [s EXCEPT !.iq = iq, !.lq = lq, !.sq = sq,
                !.toWB = (@ \ store) \cup {sn \in sq : done /\ sn <= c.done},
                !.executed = X, !.updateLSQ = done \/ writeback,
                !.used = tell,
                !.freeIQ = IF tell THEN NumIQ - Cardinality(iq) ELSE 0,
                !.freeLQ = IF tell THEN NumLQ - Cardinality(lq) ELSE 0,
                !.freeSQ = IF tell THEN NumSQ - Cardinality(sq) ELSE 0]

IEW(X, writeback) ==
  /\ phase = "iew"
  /\ Cardinality(X) <= 1
  /\ writeback => i.toWB # {}
  /\ \E s \in {IEWSignals([i EXCEPT !.insts = @ \o wire.iew[RenameToIEWDelay],
                                     !.block = FALSE, !.unblock = FALSE,
                                     !.dispatched = 0, !.toLQ = 0, !.toSQ = 0])} :
       /\ X \subseteq s.iq
       /\ i' = IEWEnd(Dispatch(s), X, writeback)
       /\ squashed' = squashed \cup (IF Active(s) THEN DispatchLoop(s).marked ELSE {})
  /\ phase' = "commit"
  /\ UNCHANGED <<prog, nextSn, squashes, f, d, r, c, wire, out>>

-----------------------------------------------------------------------------
(* Commit *)

\* The squashes commit may find to do, each with the last instruction it
\* keeps, where fetch goes on and what is to be retired next:
\* squashAll, for a trap, another thread context or a squash-after,
SquashAll ==
  [to |-> IF c.rob = <<>> THEN c.lastCommitted ELSE Head(c.rob).sn - 1,
   pc |-> c.next, next |-> c.next, youngest |-> c.lastCommitted]

\* squashFromRunaheadExit,
RunaheadExit == {[to |-> x.sn - 1, pc |-> x.pos, next |-> x.pos, youngest |-> x.sn - 1] :
                   x \in Range(c.cause)}

\* and the two that IEW signals, for a branch and for a load that a store
\* should have come before: of executed instructions, and dropped when an older
\* squash has overtaken them.
Executed(x) == x.sn \in c.canCommit /\ Live(x) /\ x.sn <= c.youngest

IEWSquashes ==
  {[to |-> x.sn, pc |-> x.pos + 1, next |-> c.next, youngest |-> x.sn] :
     x \in {y \in Range(c.rob) : Executed(y) /\ KindOf(y) = "branch"}}
  \cup {[to |-> x.sn - 1, pc |-> x.pos, next |-> c.next, youngest |-> x.sn - 1] :
     x \in {y \in Range(c.rob) : /\ Executed(y) /\ IsLoad(y)
                                   /\ \E z \in Range(c.rob) : IsStore(z) /\ z.sn < y.sn}}

NoSquash == [to |-> 0]

Squashes ==
  IF c.status = "TrapPending" THEN {NoSquash, SquashAll}
  ELSE {NoSquash} \cup RunaheadExit
       \cup (IF squashes < MaxSquashes[prog] THEN {SquashAll} \cup IEWSquashes ELSE {})

\* What the walk over the reorder buffer marks, and where it goes on.
Walked(s) == IF s.walk = 0 THEN {}
             ELSE {s.rob[k].sn : k \in Rob!WalkMarks(s.rob, s.walk, s.to, SquashWidth)}
WalkOn(s) == IF s.walk = 0 THEN s
             ELSE [s EXCEPT !.walk = Rob!WalkNext(s.rob, @, s.to, SquashWidth)]

\* The start of tick: isDoneSquashing, or doSquash.
Walking(s) == s.status = "ROBSquashing"
StartCommit(s) ==
  IF ~Walking(s) THEN s
  ELSE IF s.walk = 0 THEN [s EXCEPT !.status = "Running"]
  ELSE [WalkOn(s) EXCEPT !.robSquashing = TRUE]

\* A squash: rob->squash starts the walk, unless the reorder buffer is empty.
DoSquash(s, p) ==
  [s EXCEPT !.status = "ROBSquashing", !.walk = Len(s.rob), !.to = p.to,
            !.youngest = p.youngest, !.next = p.next,
            !.cause = IF p \in RunaheadExit THEN <<>> ELSE @,
            !.fault = IF @ > p.to THEN 0 ELSE @,
            !.squash = TRUE, !.robSquashing = TRUE, !.pc = p.pc, !.done = p.to,
            !.tail = IF s.rob = <<>> THEN p.to ELSE Last(s.rob).sn]

\* getInsts
Inserted(s) == IF s.status = "Running" THEN SelectSeq(wire.iew[1], Live) ELSE <<>>
GetInsts(s) == [s EXCEPT !.rob = @ \o Inserted(s),
                         !.youngest = IF Inserted(s) = <<>> THEN @ ELSE Last(Inserted(s)).sn]

\* Of the head of the reorder buffer, how much commitInsts can retire: until
\* CommitWidth are retired that count, a squashed one does not, or the next has
\* faulted.
Ready(s, x) == x.sn \in s.canCommit \/ ~Live(x)

Retirable(s) ==
  {k \in 0..Len(s.rob) :
     /\ \A j \in 1..k : Ready(s, s.rob[j]) /\ s.rob[j].sn # s.fault
     /\ k > 0 => Count(SubSeq(s.rob, 1, k - 1), Live) < CommitWidth}

\* commitInsts retires all it can, unless the next proves to have faulted;
\* runahead retires what has faulted all the same.
MayFault(s, k) == /\ s.cause = <<>> /\ k + 1 \in Retirable(s)
                  /\ Live(s.rob[k + 1]) /\ KindOf(s.rob[k + 1]) \in {"load", "store"}

Faults(s, k) == s.status = "Running" /\ k # Max(Retirable(s))

Retires(s) ==
  IF s.status # "Running" THEN {0}
  ELSE {Max(Retirable(s))} \cup
       (IF squashes < MaxSquashes[prog] THEN {k \in Retirable(s) : MayFault(s, k)} ELSE {})

\* commitHead: a trap waits until nothing retires before it in its cycle and
\* the stores are in memory.
TrapsNow(s, gone) ==
  s.status = "Running" /\ s.fault # 0 /\ gone = <<>> /\ i.toWB = {}

Retire(s, k) ==
  LET gone == SelectSeq(SubSeq(s.rob, 1, k), Live)
      head == [s EXCEPT !.rob = From(@, k + 1),
                        !.fault = IF Faults(s, k) THEN s.rob[k + 1].sn ELSE @]
      t    == [head EXCEPT !.status = IF TrapsNow(head, gone) THEN "TrapPending" ELSE @]
  IN  IF gone = <<>> THEN t
      ELSE [t EXCEPT !.next = Last(gone).pos + 1, !.lastCommitted = Last(gone).sn,
                     !.done = Last(gone).sn,
                     !.tail = IF t.rob = <<>> THEN Last(gone).sn ELSE Last(t.rob).sn]

\* Runahead begins at a load at the head that is not ready.
MayRunahead(s) ==
  /\ s.status = "Running" /\ s.cause = <<>> /\ squashes < MaxSquashes[prog]
  /\ s.rob # <<>> /\ ~Ready(s, Head(s.rob)) /\ Head(s.rob).sn \in i.lq

\* Mutant: the stores need not be in memory.
EmptyWithStores(s, changed, stored) ==
  LET check == s.checkEmpty \/ (changed /\ s.rob = <<>>)
      empty == check /\ s.rob = <<>>
  IN  [s EXCEPT !.used = changed \/ empty, !.emptyROB = empty,
                !.freeROB = IF changed \/ empty THEN NumROB - Len(s.rob) ELSE 0,
                !.checkEmpty = check /\ ~empty]

\* The end of commit: the number of free entries when it changed, and whether
\* all is done, stores included, with nothing on its way to IEW.
Broadcast(s, changed, stored) ==
  LET check == s.checkEmpty \/ (changed /\ s.rob = <<>>)
      empty == check /\ s.rob = <<>> /\ i.toWB = {} /\ ~stored
  IN  [s EXCEPT !.used = changed \/ empty, !.emptyROB = empty,
                !.freeROB = IF changed \/ empty THEN NumROB - Len(s.rob) ELSE 0,
                !.checkEmpty = check /\ ~empty]

\* markCompletedInsts
MarkCompleted(s) == [s EXCEPT !.canCommit = (@ \cup i.executed) \cap Sns(s.rob)]

Quiet == [c EXCEPT !.squash = FALSE, !.pc = 0, !.done = 0, !.tail = 0, !.robSquashing = FALSE]

Commit(p, k, enter) ==
  /\ phase = "commit"
  /\ p \in Squashes
  /\ \E s \in {IF p = NoSquash THEN GetInsts(StartCommit(Quiet))
                               ELSE DoSquash(StartCommit(Quiet), p)} :
       /\ k \in Retires(s)
       /\ \E t \in {Retire(s, k)} :
          LET hit   == p # NoSquash
              last  == IF enter THEN [t EXCEPT !.cause = <<Head(t.rob)>>]
                       ELSE IF hit THEN WalkOn(t) ELSE t
              gone  == Range(SelectSeq(SubSeq(s.rob, 1, k), Live))
              costs == {e \in {"squash", "fault", "enter"} :
                          \/ e = "squash" /\ p \in {SquashAll} \cup IEWSquashes
                                         /\ c.status # "TrapPending"
                          \/ e = "fault" /\ Faults(s, k)
                          \/ e = "enter" /\ enter}
          IN  /\ enter => MayRunahead(t)
              /\ c' = MarkCompleted(Broadcast(last, hit \/ k > 0 \/ Len(s.rob) > Len(c.rob),
                                              \E x \in gone : IsStore(x)))
              /\ squashed' = squashed \cup (IF Walking(Quiet) THEN Walked(Quiet) ELSE {})
                                     \cup (IF hit THEN Walked(s) ELSE {})
              /\ squashes' = squashes + Cardinality(costs)
  /\ phase' = "fetch"
  /\ wire' = [decode |-> out.decode, rename |-> out.rename,
              iew |-> <<out.iew>> \o SubSeq(wire.iew, 1, RenameToIEWDelay - 1)]
  /\ out' = [decode |-> <<>>, rename |-> <<>>, iew |-> <<>>]
  /\ UNCHANGED <<prog, nextSn, f, d, r, i>>

-----------------------------------------------------------------------------
Next ==
  \/ \E n \in 0..FetchWidth : Fetch(n)
  \/ \E wrong \in 0..(2 * FetchWidth + DecodeWidth) : Decode(wrong)
  \/ Rename
  \/ \E X \in {{}} \cup {{sn} : sn \in i.iq}, writeback \in BOOLEAN : IEW(X, writeback)
  \/ \E p \in Squashes, k \in 0..NumROB, enter \in BOOLEAN : Commit(p, k, enter)

Spec == Init /\ [][Next]_vars

\* Fairness: the clock goes on; the instruction cache answers in the end, so
\* what fetch may do it does; what was issued completes, a store written back is
\* acknowledged, a trap is taken and the load that began runahead returns.
FairSpec ==
  /\ Spec /\ WF_vars(Next)
  /\ SF_vars(\E n \in 1..FetchWidth : Fetch(n))
  /\ SF_vars(\E sn \in i.iq, writeback \in BOOLEAN : IEW({sn}, writeback))
  /\ SF_vars(\E X \in {{}} \cup {{sn} : sn \in i.iq} : IEW(X, TRUE))
  /\ SF_vars(c.status = "TrapPending" /\ Commit(SquashAll, 0, FALSE))
  /\ SF_vars(\E p \in RunaheadExit : Commit(p, 0, FALSE))

-----------------------------------------------------------------------------
(* Properties *)

Statuses == {"Running", "Blocked", "Unblocking", "Squashing"}

\* No stage is sent more than its skid buffer holds, whatever it and the stages
\* behind it do while its block signal is under way (decode.cc:412,
\* rename.cc:792, iew.cc:656).
SkidsBounded ==
  /\ Len(d.skid) <= 2 * FetchWidth
  /\ Len(r.skid) <= 2 * DecodeWidth
  /\ Len(i.skid) <= (RenameToIEWDelay + 1) * RenameWidth

\* The type invariant, with the capacity and the order of every queue.
TypeOK ==
  /\ phase \in {"fetch", "decode", "rename", "iew", "commit"}
  /\ f.status \in {"Running", "Squashing"} /\ d.status \in Statuses
  /\ r.status \in Statuses \cup {"SerializeStall"} /\ i.status \in Statuses
  /\ c.status \in {"Running", "ROBSquashing", "TrapPending"}
  /\ Len(f.queue) <= FetchQueueSize /\ SkidsBounded
  /\ \A q \in {f.queue, d.skid, r.skid, i.skid, c.rob} :
       \A j, k \in DOMAIN q : j < k => q[j].sn < q[k].sn
  /\ i.toWB \subseteq i.sq /\ Cardinality(i.iq) <= NumIQ
  /\ Cardinality(i.lq) <= NumLQ /\ Cardinality(i.sq) <= NumSQ

\* The two ends of a handshake agree: when a stage holds instructions back, and
\* only then, the stage before it is stalled or will find itself so.  With it,
\* the assertions that an unblock finds a stall (fetch.cc:1013, decode.cc:485,
\* rename.cc:1211) hold, and no stage is stalled for good.
HandshakeSound ==
  phase = "fetch" =>
    /\ d.unblock => f.stall /\ ~d.block
    /\ r.unblock => d.stall /\ ~r.block
    /\ i.unblock => r.stall /\ ~i.block
    /\ Stalled(f.stall, d) <=> d.status \in {"Blocked", "Unblocking"}
    /\ Stalled(d.stall, r) <=> r.status \in {"Blocked", "Unblocking", "SerializeStall"}
    /\ Stalled(r.stall, i) <=> i.status \in {"Blocked", "Unblocking"}

\* Commit never receives an instruction it has no entry for, though rename
\* decides on counts that are cycles old (the assertion of rob.cc:433).
RobRoom == Len(c.rob) <= NumROB

\* What rename believes to be between itself and the queues is what is there,
\* through every squash (the assertions at the end of Rename::tick).
InProgressExact ==
  phase = "fetch" =>
    LET pipe == FlattenSeq(wire.iew) \o i.skid
    IN  /\ r.inProgress = Len(pipe) + i.dispatched
        /\ r.loads = Count(pipe, IsLoad) + i.toLQ
        /\ r.stores = Count(pipe, IsStore) + i.toSQ

\* What rename counts on is right in spite of its age.
CountsSound == RobRoom /\ InProgressExact

\* Instructions that no squash, done or under way, has hit.
Dead(x) == \/ ~Live(x)
           \/ c.squash /\ x.sn > c.done
           \/ c.walk > 0 /\ x.sn > c.to /\ x.sn <= c.rob[c.walk].sn
Alive(x) == ~Dead(x)

\* What is in flight, oldest first.
Stream == c.rob \o wire.iew[1] \o r.serializeInst \o r.skid \o wire.rename
          \o d.skid \o wire.decode \o f.queue

NextPos == IF c.squash THEN c.pc ELSE IF d.squash # <<>> THEN d.squash[1].pos + 1
           ELSE f.nextPos

\* No instruction is lost, doubled or overtaken on its way: from what is to be
\* retired next to what is to be fetched next, the instructions in flight are
\* the program, and each in the reorder buffer is also on its way to the queue,
\* in it, or executed.
NothingLost ==
  phase = "fetch" /\ c.status # "TrapPending" =>
    LET live == SelectSeq(Stream, Alive)
        pipe == Sns(FlattenSeq(wire.iew) \o i.skid)
    IN  /\ Len(live) = NextPos - c.next
        /\ \A k \in DOMAIN live : live[k].pos = c.next + k - 1
        /\ \A x \in Range(SelectSeq(c.rob, Alive)) :
             x.sn \in pipe \cup i.iq \cup i.executed \cup c.canCommit

\* x may not run beside older instructions.
Serializing(x) == KindOf(x) = "before" \/ (x.pos > 1 /\ prog[x.pos - 1] = "after")

\* A serializing instruction leaves rename alone: nothing older is in the
\* reorder buffer or on its way there, and the stores are in memory; and a squash
\* never keeps the one held back (so resumeSerialize is never set).
SerializeAlone ==
  /\ phase = "iew" =>
       \A k \in DOMAIN out.iew : Serializing(out.iew[k]) =>
         /\ k = 1 /\ c.rob = <<>> /\ FlattenSeq(wire.iew) \o i.skid = <<>>
         /\ i.sq = {}
  /\ c.squash => \A x \in Range(r.serializeInst) : x.sn > c.done

\* The program is retired in the end, architecturally.
Completes == <>[](c.next > Len(prog) /\ c.cause = <<>>)
=============================================================================
