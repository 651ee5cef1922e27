---------------------------- MODULE RunaheadLsq ----------------------------
(***************************************************************************)
(* The load/store queue and the runahead cache: LSQUnit (lsq_unit.cc), LSQ *)
(* and its requests (lsq.cc, lsq.hh) and RunaheadCache, for one thread.    *)
(*                                                                         *)
(* A program is a sequence of loads and stores; an address is a set of     *)
(* words, a packet goes to one line.  What issues, retires and squashes    *)
(* instructions (the instruction queue and commit, models of their own) is *)
(* here as much as the LSQ sees of it.  A clock cycle is                   *)
(*                                                                         *)
(*   events -> execute -> writeback -> commit -> events                    *)
(*                                                                         *)
(* execute and writeback are IEW::tick, commit is Commit::tick; a squash   *)
(* signalled there reaches the LSQ at the start of the next tick.  Local   *)
(* accesses, LLSC, atomics, cache maintenance, HTM and snoops are left out.*)
(***************************************************************************)
EXTENDS Integers, Sequences, FiniteSets, Functions, SequencesExt

CONSTANTS
  Words,        \* the words of memory
  Line,         \* the cache line of each word
  RBlock,       \* the runahead cache block each line maps to
  Scenarios,    \* programs with the parameters they run under, see Scenario
  LQSize, SQSize,
  MaxSn,        \* bound of the model: sequence numbers handed out
  MaxRefusals   \* bound of the model: packets the D-cache refuses

ASSUME LineAssumption == Line \in [Words -> Nat]

Lines == {Line[w] : w \in Words}

ASSUME BlockAssumption == RBlock \in [Lines -> Nat]
ASSUME LsqSizeAssumption ==
  LQSize \in Nat \ {0} /\ SQSize \in Nat \ {0} /\ MaxSn \in Nat /\ MaxRefusals \in Nat

Op == [kind : {"load", "store"}, words : (SUBSET Words) \ {{}}]

\* needsTSO, cacheLoadPorts and cacheStorePorts; the lines that no cache near
\* the core holds; whether a translation may take a page table walk.
Scenario == [prog : Seq(Op), tso : BOOLEAN, loadPorts : Nat, storePorts : Nat,
             far : SUBSET Lines, slowTlb : BOOLEAN]

ASSUME ScenarioAssumption == Scenarios \subseteq Scenario

VARIABLES
  phase, sc,
  nextSn, nextPos,  \* the next instruction to dispatch
  inst,             \* the dynamic instructions still referred to, by seqNum
  rob,              \* their seqNums in the reorder buffer
  lq, sq, storeWBIt,\* storeWBIt: how many store queue entries lie before it
  storeBlocked, storeInFlight,
  stalled,          \* stallingLoadIdx and stallingStoreIsn
  req,              \* the LSQRequests, by the seqNum of their instruction
  wbEvents,         \* WritebackEvents of this tick
  cacheBlocked, usedLoadPorts, usedStorePorts, refusals,
  iewSquash, iewSquashNow,  \* the violator IEW reports, and commit reads
  squashSig, done,  \* commit's signals to IEW (0: none)
  inRunahead, cause, exitRunahead,
  far, rcache, mem, \* lines not near the core; runahead cache; D-cache
  retired           \* the last instruction committed to architectural state

robVars   == <<nextSn, nextPos, rob>>
queueVars == <<lq, sq, storeWBIt, storeBlocked, storeInFlight, stalled>>
portVars  == <<cacheBlocked, usedLoadPorts, usedStorePorts, refusals>>
wireVars  == <<iewSquash, iewSquashNow, squashSig, done>>
modeVars  == <<inRunahead, cause, exitRunahead>>
memVars   == <<far, rcache, mem>>

vars == <<phase, sc, robVars, inst, queueVars, req, wbEvents, portVars,
          wireVars, modeVars, memVars, retired>>

-----------------------------------------------------------------------------
NoStall == [load |-> 0, store |-> 0]
NoSquash == [on |-> FALSE, to |-> 0]
NoCause == [sn |-> 0, pos |-> 0]
NoValue == [w \in Words |-> -1]

OpAt(p) == sc.prog[p]
OpOf(sn) == OpAt(inst[sn].pos)
IsLoad(sn) == OpOf(sn).kind = "load"
IsStore(sn) == OpOf(sn).kind = "store"
WordsOf(sn) == OpOf(sn).words

LinesOf(ws) == {Line[w] : w \in ws}

\* SplitDataRequest::initiateTranslation: one fragment per line, in order.
Fragments(ws) == SetToSortSeq(LinesOf(ws), LAMBDA a, b : a < b)

NewInst(p) ==
  [pos |-> p, runahead |-> inRunahead, squashed |-> FALSE, committed |-> FALSE,
   exec |-> "ready", addr |-> FALSE, executed |-> FALSE, poisoned |-> FALSE,
   forged |-> FALSE, toCommit |-> 0, fresh |-> FALSE, val |-> NoValue]

NewReq(sn) ==
  [runahead |-> inst[sn].runahead, poisoned |-> IsStore(sn) /\ inst[sn].poisoned,
   unsent |-> Fragments(WordsOf(sn)), out |-> {}, rOut |-> {},
   rPackets |-> 0, rGot |-> 0, got |-> 0, allFar |-> TRUE,
   sent |-> FALSE, complete |-> FALSE, released |-> FALSE,
   wb |-> "none", translating |-> FALSE]

\* LSQRequest::isAnyOutstandingRequest
AnyOutstanding(r) ==
  r.translating \/ r.out # {} \/ r.rOut # {} \/ r.wb = "scheduled"

NoPackets(r) == r.out = {} /\ r.rOut = {}

Without(f, S) == Restrict(f, DOMAIN f \ S)

\* LSQRequest::release: deleted, unless something will still refer to it.
Release(reqs, S) ==
  LET held == {sn \in S \cap DOMAIN reqs : AnyOutstanding(reqs[sn])}
      kept == Without(reqs, S \ held)
  IN  [sn \in DOMAIN kept |->
         IF sn \in held THEN [kept[sn] EXCEPT !.released = TRUE] ELSE kept[sn]]

\* LSQRequest::packetReplied
Replied(reqs, sn) ==
  IF NoPackets(reqs[sn]) /\ reqs[sn].released THEN Without(reqs, {sn}) ELSE reqs

\* IEW::instToCommit
ToCommit(i) == [i EXCEPT !.executed = TRUE, !.toCommit = @ + 1, !.fresh = TRUE]

\* MemDepUnit::replay: all rescheduled instructions are ready again.
Replay(insts) ==
  [sn \in DOMAIN insts |->
     IF insts[sn].exec = "replay" THEN [insts[sn] EXCEPT !.exec = "ready"]
     ELSE insts[sn]]

\* Mutant: the loads stay blocked.
StayBlocked(insts) == insts

\* InstructionQueue::cacheUnblocked
Unblock(insts) ==
  [sn \in DOMAIN insts |->
     IF insts[sn].exec = "blocked" THEN [insts[sn] EXCEPT !.exec = "ready"]
     ELSE insts[sn]]

-----------------------------------------------------------------------------
Init ==
  /\ phase = "events" /\ sc \in Scenarios
  /\ nextSn = 1 /\ nextPos = 1
  /\ inst = <<>> /\ rob = <<>>
  /\ lq = <<>> /\ sq = <<>> /\ storeWBIt = 0
  /\ storeBlocked = FALSE /\ storeInFlight = FALSE /\ stalled = NoStall
  /\ req = <<>> /\ wbEvents = <<>>
  /\ cacheBlocked = FALSE /\ usedLoadPorts = 0 /\ usedStorePorts = 0
  /\ refusals = 0
  /\ iewSquash = 0 /\ iewSquashNow = 0 /\ squashSig = NoSquash /\ done = 0
  /\ inRunahead = FALSE /\ cause = NoCause /\ exitRunahead = FALSE
  /\ far = sc.far /\ mem = [w \in Words |-> 0]
  /\ rcache = [b \in Range(RBlock) |-> [line |-> -1, valid |-> FALSE, poisoned |-> FALSE]]
  /\ retired = [pos |-> 0, val |-> NoValue]

-----------------------------------------------------------------------------
(* Packets.                                                                *)

Room(isLoad) ==
  IF cacheBlocked THEN 0
  ELSE IF isLoad THEN sc.loadPorts - usedLoadPorts
       ELSE sc.storePorts - usedStorePorts

\* LSQUnit::trySendPacket for the unsent packets of r, in order, until one is
\* not sent: the first n of them go.  The D-cache may refuse a packet.
Refused(r, isLoad, n) == n < Len(r.unsent) /\ n < Room(isLoad)

CanSend(r, isLoad, n) ==
  /\ n <= Len(r.unsent) /\ n <= Room(isLoad)
  /\ Refused(r, isLoad, n) => refusals < MaxRefusals

PortsAfter(r, isLoad, n) ==
  /\ cacheBlocked' = (cacheBlocked \/ Refused(r, isLoad, n))
  /\ refusals' = refusals + (IF Refused(r, isLoad, n) THEN 1 ELSE 0)
  /\ usedLoadPorts' = usedLoadPorts + (IF isLoad THEN n ELSE 0)
  /\ usedStorePorts' = usedStorePorts + (IF isLoad THEN 0 ELSE n)

\* The request after its first n unsent packets have gone to the D-cache;
\* packetNotSent clears Sent again.
AfterSend(r, n) ==
  LET gone == Range(SubSeq(r.unsent, 1, n))
  IN  [r EXCEPT !.unsent = SubSeq(r.unsent, n + 1, Len(r.unsent)),
                !.out = @ \cup gone,
                !.sent = (n = Len(r.unsent)),
                !.allFar = @ /\ gone \subseteq far]

\* RunaheadCache::lookup
RHit(l) == rcache[RBlock[l]].valid /\ rcache[RBlock[l]].line = l

\* LSQ::sendToRunaheadCache for the loads among a request's packets: a hit is
\* answered a cycle later and poisons the request if the block is.
AfterRLookup(r, gone) ==
  LET hits == {l \in gone : RHit(l)}
  IN  [r EXCEPT !.rOut = @ \cup hits,
                !.rPackets = @ + Cardinality(hits),
                !.poisoned = @ \/ \E l \in hits : rcache[RBlock[l]].poisoned]

\* RunaheadCache::write of a store's packets, in order: a block that holds
\* another line is overwritten.
RWrite(r, ls) ==
  [b \in DOMAIN rcache |->
     LET here == {l \in Range(ls) : RBlock[l] = b}
     IN  IF here = {} THEN rcache[b]
         ELSE [line |-> CHOOSE l \in here : \A m \in here : m <= l,
               valid |-> TRUE, poisoned |-> r.poisoned]]

-----------------------------------------------------------------------------
(* The store queue.                                                        *)

\* Mutant: all entries go.
PopsAll(entries) == Len(entries)

\* The entries that go when a store at the head completes: it and whatever
\* completed behind it.
Popped(entries) ==
  LET live == {k \in DOMAIN entries : ~entries[k].completed}
  IN  IF live = {} THEN Len(entries)
      ELSE (CHOOSE k \in live : \A j \in live : k <= j) - 1

Unstalls(sn) == stalled # NoStall /\ stalled.store = sn

\* LSQUnit::completeStore, starting from the instructions and requests given.
CompleteStore(sn, insts, reqs) ==
  LET marked == [k \in DOMAIN sq |->
                   IF sq[k].sn = sn THEN [sq[k] EXCEPT !.completed = TRUE] ELSE sq[k]]
      n == IF sq[1].sn = sn THEN Popped(marked) ELSE 0
      gone == {marked[k].sn : k \in 1..n}
  IN  /\ sq' = SubSeq(marked, n + 1, Len(marked))
      /\ storeWBIt' = storeWBIt - n
      /\ req' = Replied([Release(reqs, gone \ {sn}) EXCEPT
                            ![sn].released = (sn \in gone)], sn)
      /\ inst' = IF Unstalls(sn) THEN Replay(insts) ELSE insts
      /\ stalled' = IF Unstalls(sn) THEN NoStall ELSE stalled
      /\ storeInFlight' = (storeInFlight /\ ~sc.tso)
      /\ UNCHANGED <<lq, storeBlocked>>

\* LSQUnit::storePostSend, if the store was sent.
PostSend(sn, sent) ==
  /\ inst' = IF sent /\ Unstalls(sn) THEN Replay(inst) ELSE inst
  /\ stalled' = IF sent /\ Unstalls(sn) THEN NoStall ELSE stalled
  /\ storeInFlight' = (storeInFlight \/ (sent /\ sc.tso))
  /\ storeWBIt' = storeWBIt + (IF sent THEN 1 ELSE 0)

StoreAtWb == sq[storeWBIt + 1]

\* Sending the store at storeWBIt to the D-cache.
SendStore ==
  LET sn == StoreAtWb.sn
      r == req[sn]
  IN  \E n \in 0..Len(r.unsent) :
        LET gone == Range(SubSeq(r.unsent, 1, n))
        IN  /\ CanSend(r, FALSE, n)
            /\ PortsAfter(r, FALSE, n)
            /\ req' = [req EXCEPT ![sn] = AfterSend(r, n)]
            /\ mem' = [w \in Words |->
                         IF w \in WordsOf(sn) /\ Line[w] \in gone
                         THEN inst[sn].pos ELSE mem[w]]
            /\ storeBlocked' = (n < Len(r.unsent))
            /\ PostSend(sn, n = Len(r.unsent))
            /\ UNCHANGED <<far, rcache>>

\* Runahead stores go to the runahead cache only, which takes every one.
SendRunaheadStore ==
  LET sn == StoreAtWb.sn
      r == req[sn]
  IN  /\ req' = [req EXCEPT ![sn].unsent = <<>>, ![sn].sent = TRUE,
                            ![sn].rOut = Range(r.unsent),
                            ![sn].rPackets = Len(r.unsent)]
      /\ rcache' = RWrite(r, r.unsent)
      /\ storeBlocked' = FALSE
      /\ PostSend(sn, TRUE)
      /\ UNCHANGED <<portVars, far, mem>>

-----------------------------------------------------------------------------
(* The event queue between two ticks.                                      *)

Total(sn) == Cardinality(LinesOf(WordsOf(sn)))

\* LSQUnit::writeback: squashed and stale runahead instructions are skipped.
Skipped(i) == i.squashed \/ (i.runahead /\ ~inRunahead)

\* What a load has when it writes back; a request a poisoned block of the
\* runahead cache answered poisons it, if it is not a split one.
WrittenBack(i, r, isRPacket) ==
  IF Skipped(i) THEN i
  ELSE [ToCommit(i) EXCEPT !.poisoned = @ \/ (isRPacket /\ r.poisoned)]

\* Between the tick and everything else of the event queue.
Quiet == phase = "events" /\ wbEvents = <<>>

\* Mutant: the real response of a forged load counts, too.
TakesAnyData(sn) == ~req[sn].released

\* LSQUnit::recvTimingResp: a load whose response was forged and a request
\* that was released take no data.
TakesData(sn) == ~inst[sn].forged /\ ~req[sn].released

\* CPU::instCausedRunahead and, under the Eager policy, signalExitRunahead.
SignalsExit(sn) == inst[sn].runahead /\ inRunahead /\ sn = cause.sn

\* A response of the D-cache.  Its data counts only if no packet of the request
\* went to the runahead cache.
DResponse(sn, l) ==
  /\ Quiet
  /\ sn \in DOMAIN req /\ l \in req[sn].out
  /\ LET counts == TakesData(sn) /\ req[sn].rPackets = 0
         last == counts /\ req[sn].got + 1 = Total(sn)
         r == [req[sn] EXCEPT !.out = @ \ {l}, !.complete = @ \/ last,
                              !.got = IF counts THEN @ + 1 ELSE @]
         reqs == [req EXCEPT ![sn] = r]
     IN  IF last /\ IsStore(sn)
         THEN CompleteStore(sn, inst, reqs)
         ELSE /\ req' = Replied(reqs, sn)
              /\ inst' = IF last THEN [inst EXCEPT ![sn] = WrittenBack(@, r, FALSE)]
                         ELSE inst
              /\ UNCHANGED queueVars
  /\ exitRunahead' = (exitRunahead \/ SignalsExit(sn))
  /\ far' = far \ {l}
  /\ UNCHANGED <<phase, sc, robVars, wbEvents, portVars, wireVars, inRunahead,
                 cause, rcache, mem, retired>>

\* A response of the runahead cache, the cycle after the packet was sent; the
\* last of them completes the request.
RResponse(sn, l) ==
  /\ Quiet
  /\ sn \in DOMAIN req /\ l \in req[sn].rOut
  /\ LET counts == TakesData(sn)
         last == counts /\ req[sn].rGot + 1 = req[sn].rPackets
         r == [req[sn] EXCEPT !.rOut = @ \ {l}, !.complete = @ \/ last,
                              !.rGot = IF counts THEN @ + 1 ELSE @]
         reqs == [req EXCEPT ![sn] = r]
     IN  IF last /\ IsStore(sn)
         THEN CompleteStore(sn, inst, reqs)
         ELSE /\ req' = Replied(reqs, sn)
              /\ inst' = IF last
                         THEN [inst EXCEPT ![sn] = WrittenBack(@, r, Total(sn) = 1)]
                         ELSE inst
              /\ UNCHANGED queueVars
  /\ exitRunahead' = (exitRunahead \/ SignalsExit(sn))
  /\ UNCHANGED <<phase, sc, robVars, wbEvents, portVars, wireVars, inRunahead,
                 cause, memVars, retired>>

\* LSQUnit::WritebackEvent::process, of a forwarded or a forged response.
WritebackEvent ==
  /\ phase = "events" /\ wbEvents # <<>>
  /\ LET sn == Head(wbEvents)
         i == inst[sn]
     IN  /\ inst' = [inst EXCEPT ![sn] = WrittenBack(i, req[sn], FALSE)]
         /\ req' = IF req[sn].released THEN Without(req, {sn})
                   ELSE [req EXCEPT ![sn].wb = "done"]
  /\ wbEvents' = Tail(wbEvents)
  /\ UNCHANGED <<phase, sc, robVars, queueVars, portVars, wireVars, modeVars,
                 memVars, retired>>

\* LSQRequest::finish, of a translation that had to walk the page table.
TranslationDone(sn) ==
  /\ Quiet
  /\ sn \in DOMAIN req /\ req[sn].translating
  /\ req' = IF req[sn].released THEN Without(req, {sn})
            ELSE [req EXCEPT ![sn].translating = FALSE]
  /\ inst' = IF inst[sn].squashed THEN inst ELSE [inst EXCEPT ![sn].exec = "ready"]
  /\ UNCHANGED <<phase, sc, robVars, queueVars, wbEvents, portVars, wireVars,
                 modeVars, memVars, retired>>

\* LSQ::recvReqRetry: the loads that were blocked are ready again, a blocked
\* store is sent at once.
Retry ==
  /\ Quiet /\ cacheBlocked
  /\ LET insts == Unblock(inst)
         sn == StoreAtWb.sn
         r == req[sn]
         room == sc.storePorts - usedStorePorts
     IN  IF ~storeBlocked
         THEN /\ inst' = insts /\ cacheBlocked' = FALSE
              /\ UNCHANGED <<req, queueVars, mem, refusals, usedStorePorts>>
         ELSE \E n \in 0..Len(r.unsent) :
           LET refused == n < Len(r.unsent) /\ n < room
               sent == n = Len(r.unsent)
               gone == Range(SubSeq(r.unsent, 1, n))
           IN  /\ n <= room /\ (refused => refusals < MaxRefusals)
               /\ cacheBlocked' = refused
               /\ refusals' = refusals + (IF refused THEN 1 ELSE 0)
               /\ usedStorePorts' = usedStorePorts + n
               /\ req' = [req EXCEPT ![sn] = AfterSend(r, n)]
               /\ mem' = [w \in Words |->
                            IF w \in WordsOf(sn) /\ Line[w] \in gone
                            THEN inst[sn].pos ELSE mem[w]]
               /\ storeBlocked' = ~sent
               /\ inst' = IF sent /\ Unstalls(sn) THEN Replay(insts) ELSE insts
               /\ stalled' = IF sent /\ Unstalls(sn) THEN NoStall ELSE stalled
               /\ storeInFlight' = (storeInFlight \/ (sent /\ sc.tso))
               /\ storeWBIt' = storeWBIt + (IF sent THEN 1 ELSE 0)
               /\ UNCHANGED <<lq, sq>>
  /\ UNCHANGED <<phase, sc, robVars, wbEvents, usedLoadPorts, wireVars, modeVars,
                 far, rcache, retired>>

-----------------------------------------------------------------------------
(* The tick, up to the execution of instructions.                          *)

\* LSQUnit::squash stops at the first store from the back that is not to be
\* squashed or that has retired.
Squashable(e, to) == e.sn > to /\ ~e.canWB
SqKept(to) ==
  LET kept == {k \in DOMAIN sq : ~Squashable(sq[k], to)}
  IN  IF kept = {} THEN 0 ELSE CHOOSE k \in kept : \A j \in kept : j <= k

Referred(queues, reqs) ==
  DOMAIN reqs \cup Range(rob) \cup Range(wbEvents) \cup queues

\* LSQ::tick: ports are free again, loads that found none are ready again.
PortsRanOut == usedLoadPorts = sc.loadPorts /\ ~cacheBlocked

StartTick ==
  /\ Quiet /\ \A sn \in DOMAIN req : req[sn].rOut = {}
  /\ phase' = "execute"
  /\ usedLoadPorts' = 0 /\ usedStorePorts' = 0
  /\ iewSquashNow' = iewSquash /\ iewSquash' = 0
  /\ squashSig' = NoSquash
  /\ LET to == squashSig.to
         nl == IF squashSig.on THEN SelectSeq(lq, LAMBDA sn : sn <= to) ELSE lq
         ns == IF squashSig.on THEN SubSeq(sq, 1, SqKept(to)) ELSE sq
         queued == Range(nl) \cup {ns[k].sn : k \in DOMAIN ns}
         gone == (Range(lq) \cup {sq[k].sn : k \in DOMAIN sq}) \ queued
         reqs == Release(req, gone)
         insts == IF PortsRanOut THEN Unblock(inst) ELSE inst
     IN  /\ lq' = nl /\ sq' = ns /\ req' = reqs
         /\ inst' = [sn \in DOMAIN inst \cap Referred(queued, reqs) |->
                       IF sn \in gone THEN [insts[sn] EXCEPT !.squashed = TRUE]
                       ELSE insts[sn]]
         /\ stalled' = IF stalled.load \in gone THEN NoStall ELSE stalled
  /\ UNCHANGED <<sc, robVars, storeWBIt, storeBlocked, storeInFlight, wbEvents,
                 cacheBlocked, refusals, done, modeVars, memVars, retired>>

\* The model keeps enough sequence numbers to fetch the program again.
CanRefetch == MaxSn - nextSn >= Len(sc.prog)

\* LSQUnit::insertLoad, insertStore
Dispatch ==
  /\ phase = "execute"
  /\ nextPos <= Len(sc.prog) /\ nextSn <= MaxSn
  /\ inRunahead => CanRefetch
  /\ IF OpAt(nextPos).kind = "load"
     THEN /\ Len(lq) < LQSize
          /\ lq' = Append(lq, nextSn) /\ UNCHANGED sq
     ELSE /\ Len(sq) < SQSize
          /\ sq' = Append(sq, [sn |-> nextSn, canWB |-> FALSE, completed |-> FALSE])
          /\ UNCHANGED lq
  /\ inst' = inst @@ (nextSn :> NewInst(nextPos))
  /\ rob' = Append(rob, nextSn)
  /\ nextSn' = nextSn + 1 /\ nextPos' = nextPos + 1
  /\ UNCHANGED <<phase, sc, storeWBIt, storeBlocked, storeInFlight, stalled, req,
                 wbEvents, portVars, wireVars, modeVars, memVars, retired>>

Issued(sn) ==
  /\ phase = "execute"
  /\ sn \in Range(rob) /\ inst[sn].exec = "ready" /\ ~inst[sn].executed

\* A load whose source registers are poisoned is not executed (IEW).
SkipPoisoned(sn) ==
  /\ Issued(sn) /\ IsLoad(sn) /\ inst[sn].runahead
  /\ inst' = [inst EXCEPT ![sn] = ToCommit([@ EXCEPT !.poisoned = TRUE])]
  /\ UNCHANGED <<phase, sc, robVars, queueVars, req, wbEvents, portVars, wireVars,
                 modeVars, memVars, retired>>

\* A translation that has to walk the page table: IEW defers the instruction.
Delay(sn) ==
  /\ Issued(sn) /\ sc.slowTlb /\ sn \notin DOMAIN req
  /\ req' = req @@ (sn :> [NewReq(sn) EXCEPT !.translating = TRUE])
  /\ inst' = [inst EXCEPT ![sn].exec = "deferred"]
  /\ UNCHANGED <<phase, sc, robVars, queueVars, wbEvents, portVars, wireVars,
                 modeVars, memVars, retired>>

\* LSQ::pushRequest: a request survives the executions of a blocked or
\* deferred instruction, not a reschedule.
Request(sn) ==
  IF sn \in DOMAIN req /\ ~req[sn].released
  THEN [req[sn] EXCEPT !.runahead = inst[sn].runahead]
  ELSE NewReq(sn)

Overlap(k, sn) == WordsOf(sq[k].sn) \cap WordsOf(sn) # {}

\* Mutant: runahead stores forward to every load.
ForwardingFromAll(sn) ==
  {k \in DOMAIN sq : /\ k > storeWBIt /\ sq[k].sn < sn /\ inst[sq[k].sn].addr
                     /\ Overlap(k, sn)}

\* LSQUnit::read looks at the executed older stores that are not yet sent, from
\* the youngest on; runahead stores do not forward to normal loads.
Forwarding(sn) ==
  {k \in DOMAIN sq : /\ k > storeWBIt /\ sq[k].sn < sn /\ inst[sq[k].sn].addr
                     /\ ~(inst[sq[k].sn].runahead /\ ~inst[sn].runahead)
                     /\ Overlap(k, sn)}

Youngest(S) == CHOOSE k \in S : \A j \in S : j <= k

Covers(k, sn) == WordsOf(sn) \subseteq WordsOf(sq[k].sn)

\* The memory dependence predictor lets a load go ahead of stores whose
\* address is unknown; in the model only if it can be fetched once more.
MayExecute(sn) ==
  \/ CanRefetch
  \/ \A k \in DOMAIN sq : sq[k].sn < sn => inst[sq[k].sn].addr

Loads(sn) == Issued(sn) /\ IsLoad(sn) /\ ~inst[sn].poisoned /\ MayExecute(sn)

\* The store has all the load asks for.
Forward(sn) ==
  /\ Loads(sn) /\ Forwarding(sn) # {}
  /\ LET k == Youngest(Forwarding(sn))
         store == inst[sq[k].sn]
         r == Request(sn)
     IN  /\ Covers(k, sn)
         /\ inst' = [inst EXCEPT ![sn].exec = "issued", ![sn].addr = TRUE,
                       ![sn].poisoned = store.poisoned,
                       ![sn].val = [w \in Words |-> IF w \in WordsOf(sn)
                                                    THEN store.pos ELSE -1]]
         /\ req' = (sn :> [r EXCEPT !.wb = "scheduled",
                                    !.released = AnyOutstanding(r)]) @@ req
  /\ wbEvents' = Append(wbEvents, sn)
  /\ UNCHANGED <<phase, sc, robVars, queueVars, portVars, wireVars, modeVars,
                 memVars, retired>>

\* The store has part of it: the load waits until the store is sent.
Stall(sn) ==
  /\ Loads(sn) /\ Forwarding(sn) # {}
  /\ LET k == Youngest(Forwarding(sn))
         store == inst[sq[k].sn]
         reqs == (sn :> Request(sn)) @@ req
     IN  /\ ~Covers(k, sn)
         /\ inst' = [inst EXCEPT ![sn].exec = "replay", ![sn].addr = FALSE,
                                 ![sn].poisoned = store.poisoned]
         /\ stalled' = IF stalled = NoStall \/ sn < stalled.load
                       THEN [load |-> sn, store |-> sq[k].sn] ELSE stalled
         /\ req' = Release(reqs, {sn})
  /\ UNCHANGED <<phase, sc, robVars, lq, sq, storeWBIt, storeBlocked,
                 storeInFlight, wbEvents, portVars, wireVars, modeVars, memVars,
                 retired>>

\* No store in the queue has any of it: the load goes to memory.
Access(sn) ==
  /\ Loads(sn) /\ Forwarding(sn) = {}
  /\ LET r == Request(sn)
     IN  \E n \in 0..Len(r.unsent) :
           LET gone == Range(SubSeq(r.unsent, 1, n))
               d == AfterSend(r, n)
           IN  /\ CanSend(r, TRUE, n)
               /\ PortsAfter(r, TRUE, n)
               /\ req' = (sn :> IF r.runahead THEN AfterRLookup(d, gone) ELSE d) @@ req
               /\ inst' = [inst EXCEPT
                    ![sn].exec = IF n = Len(r.unsent) THEN "issued" ELSE "blocked",
                    ![sn].addr = TRUE, ![sn].fresh = TRUE,
                    ![sn].val = [w \in Words |->
                      IF w \in WordsOf(sn) /\ Line[w] \in gone THEN mem[w] ELSE @[w]]]
  /\ UNCHANGED <<phase, sc, robVars, queueVars, wbEvents, wireVars, modeVars,
                 memVars, retired>>

\* LSQUnit::checkViolations: the oldest younger load that has an address in
\* common with the store.
Violators(sn) ==
  {k \in DOMAIN lq : /\ lq[k] > sn /\ inst[lq[k]].addr
                     /\ WordsOf(lq[k]) \cap WordsOf(sn) # {}}

ReportViolator(sn) ==
  IF Violators(sn) = {} THEN iewSquash
  ELSE LET v == lq[CHOOSE k \in Violators(sn) : \A j \in Violators(sn) : k <= j]
       IN  IF iewSquash = 0 \/ v < iewSquash THEN v ELSE iewSquash

\* LSQUnit::executeStore; in runahead the data may be poisoned.
ExecuteStore(sn) ==
  /\ Issued(sn) /\ IsStore(sn)
  /\ \E poisoned \in {FALSE, inst[sn].runahead} :
       /\ inst' = [inst EXCEPT ![sn] = ToCommit([@ EXCEPT !.addr = TRUE,
                     !.exec = "issued", !.poisoned = poisoned])]
       /\ req' = (sn :> [Request(sn) EXCEPT !.poisoned = poisoned]) @@ req
  /\ iewSquash' = ReportViolator(sn)
  /\ UNCHANGED <<phase, sc, robVars, queueVars, wbEvents, portVars, iewSquashNow,
                 squashSig, done, modeVars, memVars, retired>>

-----------------------------------------------------------------------------
(* LSQUnit::writebackStores, one iteration of its loop at a time.          *)

\* The execution phase ends with another try at a blocked store.
EndExecute ==
  /\ phase = "execute"
  /\ phase' = "writeback"
  /\ IF storeBlocked
     THEN SendStore
     ELSE UNCHANGED <<inst, req, mem, far, rcache, storeBlocked, stalled,
                      storeInFlight, storeWBIt, portVars>>
  /\ UNCHANGED <<sc, robVars, lq, sq, wbEvents, wireVars, modeVars, retired>>

\* Mutant: a store that has not retired is written back.
WritebackEarly ==
  /\ storeWBIt < Len(sq) /\ inst[StoreAtWb.sn].executed
  /\ ~(sc.tso /\ storeInFlight)

CanWriteback ==
  /\ storeWBIt < Len(sq) /\ StoreAtWb.canWB
  /\ ~(sc.tso /\ storeInFlight)

PortFree == usedStorePorts < sc.storePorts

WritebackStore ==
  /\ phase = "writeback" /\ CanWriteback /\ ~storeBlocked
  /\ \/ inst[StoreAtWb.sn].runahead /\ SendRunaheadStore
     \/ ~inst[StoreAtWb.sn].runahead /\ PortFree /\ SendStore
  /\ UNCHANGED <<phase, sc, robVars, lq, sq, wbEvents, wireVars, modeVars, retired>>

\* Without a port the iterator moves on.
SkipStore ==
  /\ phase = "writeback" /\ CanWriteback
  /\ ~inst[StoreAtWb.sn].runahead /\ ~PortFree
  /\ storeWBIt' = storeWBIt + 1
  /\ UNCHANGED <<phase, sc, robVars, inst, lq, sq, storeBlocked, storeInFlight,
                 stalled, req, wbEvents, portVars, wireVars, modeVars, memVars,
                 retired>>

\* The loop is done; LSQUnit::commitStores and commitLoads for what commit
\* retired in the cycle before.
EndWriteback ==
  /\ phase = "writeback"
  /\ ~CanWriteback \/ (storeBlocked /\ PortFree)
  /\ phase' = "commit"
  /\ sq' = [k \in DOMAIN sq |->
              IF sq[k].sn <= done THEN [sq[k] EXCEPT !.canWB = TRUE] ELSE sq[k]]
  /\ lq' = SelectSeq(lq, LAMBDA sn : sn > done)
  /\ req' = Release(req, {sn \in Range(lq) : sn <= done})
  /\ done' = 0
  /\ UNCHANGED <<sc, robVars, inst, storeWBIt, storeBlocked, storeInFlight,
                 stalled, wbEvents, portVars, iewSquash, iewSquashNow, squashSig,
                 modeVars, memVars, retired>>

-----------------------------------------------------------------------------
(* Commit, as the LSQ sees it.                                             *)

\* Commit ends its tick; what has reached it by now may retire in the next.
Aged(insts) == [sn \in DOMAIN insts |-> [insts[sn] EXCEPT !.fresh = FALSE]]

\* Squash what is younger than `to`; the reorder buffer may be slower than the
\* LSQ in marking the instructions.
SquashFrom(to, pos) ==
  /\ squashSig' = [on |-> TRUE, to |-> to]
  /\ rob' = SelectSeq(rob, LAMBDA sn : sn <= to)
  /\ nextPos' = pos
  /\ \E marked \in {{}, {sn \in Range(rob) : sn > to}} :
       inst' = [sn \in DOMAIN inst |->
                  [Aged(inst)[sn] EXCEPT !.squashed = @ \/ sn \in marked]]

\* Commit::squashFromRunaheadExit
ExitSquash ==
  /\ phase = "commit" /\ exitRunahead
  /\ phase' = "events"
  /\ SquashFrom(cause.sn - 1, cause.pos)
  /\ inRunahead' = FALSE /\ exitRunahead' = FALSE
  /\ UNCHANGED <<sc, nextSn, queueVars, req, wbEvents, portVars, iewSquash,
                 iewSquashNow, done, cause, memVars, retired>>

\* A memory order violation: squash from the load on.
ViolationSquash ==
  /\ phase = "commit" /\ ~exitRunahead
  /\ iewSquashNow \in Range(rob)
  /\ phase' = "events"
  /\ SquashFrom(iewSquashNow - 1, inst[iewSquashNow].pos)
  /\ UNCHANGED <<sc, nextSn, queueVars, req, wbEvents, portVars, iewSquash,
                 iewSquashNow, done, modeVars, memVars, retired>>

Commits == phase = "commit" /\ ~exitRunahead /\ iewSquashNow \notin Range(rob)

HeadReady == rob # <<>> /\ inst[rob[1]].toCommit > 0 /\ ~inst[rob[1]].fresh

\* Commit::commitHead; a runahead instruction pseudoretires.
Retire ==
  /\ Commits /\ HeadReady
  /\ rob' = Tail(rob)
  /\ inst' = [inst EXCEPT ![rob[1]].committed = TRUE]
  /\ done' = rob[1]
  /\ retired' = IF inst[rob[1]].runahead THEN retired
                ELSE [pos |-> inst[rob[1]].pos, val |-> inst[rob[1]].val]
  /\ UNCHANGED <<phase, sc, nextSn, nextPos, queueVars, req, wbEvents, portVars,
                 iewSquash, iewSquashNow, squashSig, modeVars, memVars>>

\* A load at the head, sent to memory in an earlier cycle and not answered,
\* that no cache near the core had a packet of.
LLLAtHead ==
  /\ rob # <<>> /\ IsLoad(rob[1]) /\ ~HeadReady /\ ~inst[rob[1]].fresh
  /\ rob[1] \in DOMAIN req
  /\ req[rob[1]].sent /\ ~req[rob[1]].complete /\ req[rob[1]].allFar

\* CPU::handleRunaheadLLL and LSQUnit::forgeResponse
Forged(i) == [i EXCEPT !.poisoned = TRUE, !.executed = TRUE, !.forged = TRUE]
ForgeResponse(sn, insts, reqs) ==
  /\ inst' = Aged([insts EXCEPT ![sn] = Forged(@)])
  /\ req' = [reqs EXCEPT ![sn].wb = "scheduled"]
  /\ wbEvents' = Append(wbEvents, sn)

\* Mutant: a store that retired in this cycle becomes a runahead store.
EveryInst(sn) == sn \in DOMAIN inst

\* CPU::enterRunahead marks the instructions in flight, not those committed in
\* this cycle.
InFlight(sn) == ~inst[sn].committed

EnterRunahead ==
  /\ Commits /\ LLLAtHead /\ ~inRunahead /\ CanRefetch
  /\ phase' = "events"
  /\ inRunahead' = TRUE
  /\ cause' = [sn |-> rob[1], pos |-> inst[rob[1]].pos]
  /\ rcache' = [b \in DOMAIN rcache |-> [rcache[b] EXCEPT !.valid = FALSE,
                                                          !.poisoned = FALSE]]
  /\ ForgeResponse(rob[1],
       [sn \in DOMAIN inst |-> IF InFlight(sn)
                               THEN [inst[sn] EXCEPT !.runahead = TRUE] ELSE inst[sn]],
       [sn \in DOMAIN req |-> IF InFlight(sn)
                              THEN [req[sn] EXCEPT !.runahead = TRUE] ELSE req[sn]])
  /\ UNCHANGED <<sc, robVars, queueVars, portVars, wireVars, exitRunahead, far,
                 mem, retired>>

PoisonLLL ==
  /\ Commits /\ LLLAtHead /\ inRunahead /\ ~inst[rob[1]].poisoned
  /\ phase' = "events"
  /\ ForgeResponse(rob[1], inst, req)
  /\ UNCHANGED <<sc, robVars, queueVars, portVars, wireVars, modeVars, memVars,
                 retired>>

EndCommit ==
  /\ Commits
  /\ phase' = "events"
  /\ inst' = Aged(inst)
  /\ UNCHANGED <<sc, robVars, queueVars, req, wbEvents, portVars, wireVars,
                 modeVars, memVars, retired>>

-----------------------------------------------------------------------------
Event ==
  \/ \E sn \in DOMAIN req : \E l \in req[sn].out : DResponse(sn, l)
  \/ \E sn \in DOMAIN req : \E l \in req[sn].rOut : RResponse(sn, l)
  \/ \E sn \in DOMAIN req : TranslationDone(sn)
  \/ WritebackEvent
  \/ Retry

Execute ==
  \E sn \in Range(rob) :
    \/ SkipPoisoned(sn)
    \/ Delay(sn)
    \/ Forward(sn)
    \/ Stall(sn)
    \/ Access(sn)
    \/ ExecuteStore(sn)

Tick ==
  \/ StartTick
  \/ Dispatch
  \/ Execute
  \/ EndExecute
  \/ WritebackStore
  \/ SkipStore
  \/ EndWriteback
  \/ ExitSquash
  \/ ViolationSquash
  \/ Retire
  \/ EnterRunahead
  \/ PoisonLLL
  \/ EndCommit

Next == Event \/ Tick

Spec == Init /\ [][Next]_vars

\* Cycles go on; what is issued eventually executes, what is ready retires,
\* memory answers and takes what it refused.
Fairness ==
  /\ WF_vars(Next)
  /\ SF_vars(Dispatch) /\ SF_vars(Execute) /\ SF_vars(Retire)
  /\ SF_vars(\E sn \in DOMAIN req : \E l \in req[sn].out : DResponse(sn, l))
  /\ SF_vars(\E sn \in DOMAIN req : TranslationDone(sn))
  /\ SF_vars(Retry)

FairSpec == Spec /\ Fairness

-----------------------------------------------------------------------------
(* Properties.                                                             *)

InstType ==
  [pos : Nat, runahead : BOOLEAN, squashed : BOOLEAN, committed : BOOLEAN,
   exec : {"ready", "deferred", "replay", "blocked", "issued"},
   addr : BOOLEAN, executed : BOOLEAN, poisoned : BOOLEAN, forged : BOOLEAN,
   toCommit : Nat, fresh : BOOLEAN, val : [Words -> Int]]

ReqType ==
  [runahead : BOOLEAN, poisoned : BOOLEAN, unsent : Seq(Lines),
   out : SUBSET Lines, rOut : SUBSET Lines, rPackets : Nat, rGot : Nat,
   got : Nat, allFar : BOOLEAN, sent : BOOLEAN, complete : BOOLEAN,
   released : BOOLEAN, wb : {"none", "scheduled", "done"}, translating : BOOLEAN]

\* The type invariant; every seqNum that is held anywhere has its DynInst.
TypeOK ==
  /\ phase \in {"events", "execute", "writeback", "commit"} /\ sc \in Scenarios
  /\ \A sn \in DOMAIN inst : inst[sn] \in InstType
  /\ \A sn \in DOMAIN req : req[sn] \in ReqType
  /\ DOMAIN req \cup Range(rob) \cup Range(lq) \cup Range(wbEvents) \subseteq DOMAIN inst
  /\ \A k \in DOMAIN sq : sq[k].sn \in DOMAIN inst
  /\ Len(lq) <= LQSize /\ Len(sq) <= SQSize /\ storeWBIt \in 0..Len(sq)
  /\ usedLoadPorts \in 0..sc.loadPorts /\ usedStorePorts \in 0..sc.storePorts

\* An instruction is sent to commit once, whichever of its responses (forged,
\* from the runahead cache, from the D-cache) come first.
ToCommitOnce == \A sn \in DOMAIN inst : inst[sn].toCommit <= 1

\* A load that waits for a store to be sent will be woken: the record of the
\* stall exists and its store has yet to be sent.
ReplayHasWaker ==
  (\E sn \in Range(rob) : inst[sn].exec = "replay") =>
    \E k \in DOMAIN sq : k > storeWBIt /\ Unstalls(sq[k].sn)

\* Every store the queue can hold finds ports for all its lines in one cycle,
\* as in the configurations the repository builds (BaseRunaheadCPU.py:67).
\* With fewer ports a store is lost (NothingPassedOver below), and what
\* follows is then asked of nothing but the retirement of the program.
PortsSuffice ==
  \A p \in DOMAIN sc.prog : sc.prog[p].kind = "store" =>
    SQSize * Cardinality({Line[w] : w \in sc.prog[p].words}) <= sc.storePorts

\* lsq_unit.hh:491, of storeWBIt: it is the first store that has not been
\* written back, so each one before it has been sent in full.
NothingPassedOver ==
  \A k \in 1..storeWBIt : sq[k].sn \in DOMAIN req /\ req[sq[k].sn].unsent = <<>>

\* A store the cache refused is the one storeWBIt is at, so the retry sends
\* it (lsq_unit.cc:950).
BlockedStoreAtWb ==
  storeBlocked /\ PortsSuffice =>
    /\ storeWBIt < Len(sq) /\ StoreAtWb.canWB
    /\ req[StoreAtWb.sn].unsent # <<>> /\ ~inst[StoreAtWb.sn].runahead

\* The assertion LSQUnit::read makes: no store younger than a load that has
\* yet to execute has been sent.
WbBehindLoads ==
  \A sn \in Range(rob) : IsLoad(sn) /\ ~inst[sn].executed =>
    \A k \in DOMAIN sq : sq[k].sn > sn => k > storeWBIt

\* Under TSO one store at a time is in the memory system, and storeInFlight
\* says whether there is one.
TsoOneInFlight ==
  sc.tso =>
    /\ Cardinality({k \in DOMAIN sq : k <= storeWBIt /\ ~sq[k].completed}) <= 1
    /\ storeInFlight <=> \E k \in DOMAIN sq : k <= storeWBIt /\ ~sq[k].completed

\* Where storeWBIt stands is right for everyone who goes by it: the write-back
\* loop, the retry, a load that searches the queue or waits for a store, TSO.
\* (The write-back loop and the retry only where PortsSuffice: LostStore.)
WritebackSound ==
  /\ PortsSuffice => NothingPassedOver
  /\ BlockedStoreAtWb /\ ReplayHasWaker /\ WbBehindLoads /\ TsoOneInFlight

\* What is retired and not written to memory, for the store buffer.
Pending(e) ==
  inst[e.sn].committed /\ ~inst[e.sn].runahead /\ req[e.sn].unsent # <<>>

Buffer ==
  LET pending == SelectSeq(sq, Pending)
      Left(sn) == {w \in WordsOf(sn) : Line[w] \in Range(req[sn].unsent)}
  IN  [k \in DOMAIN pending |-> [pos |-> inst[pending[k].sn].pos,
                                 words |-> Left(pending[k].sn)]]

SB == INSTANCE StoreBuffer WITH prog <- sc.prog, buffer <- Buffer

\* The queue, with speculation, forwarding, runahead and its own cache, looks
\* to the program like an in-order store buffer: loads retire with the newest
\* older values, memory gets every retired store once and in order, and
\* nothing of runahead.  Not so without ports for every store: the one that
\* writebackStores passes over stays in the queue unsent, later ones overtake
\* it, and loads no longer search it; NothingPassedOver is that case.
InOrderMemory == SB!Init /\ [][PortsSuffice => SB!Next]_(SB!vars)

\* The program retires, whatever was refused, replayed, deferred, squashed or
\* run ahead of; and with ports for every store, memory gets all of it.
Completes ==
  <>(/\ retired.pos = Len(sc.prog)
     /\ PortsSuffice => Buffer = <<>>)

-----------------------------------------------------------------------------
(* What an assertion says and the code does not do.                         *)

\* lsq.cc:1225, the assertion of LSQRequest's destructor: no packet is in
\* memory.  writebackDone deletes a released request (lsq.hh:553-560).  (Of a
\* load across lines, sent in part and then forwarded.)
DeletedWhenIdle ==
  \A sn \in Range(wbEvents) : req[sn].released => NoPackets(req[sn])
=============================================================================
