---------------------------- MODULE IqInvariant ----------------------------
(***************************************************************************)
(* What keeps the instruction queue, the dependence graph, the memory      *)
(* dependence unit and the ready lists of RunaheadIq in agreement with     *)
(* each other and with the reorder buffer: an inductive invariant.         *)
(***************************************************************************)
EXTENDS RunaheadIq

Ascending(s) == \A i, j \in DOMAIN s : i < j => s[i] < s[j]
Distinct(s) == \A i, j \in DOMAIN s : s[i] = s[j] => i = j

Phases == {"events", "dispatch", "execute", "writeback", "schedule", "commit"}
Signal == [on : BOOLEAN, to : Nat, tail : Nat]
RedirectOK(r) ==
  r \in [on : BOOLEAN, sn : Nat, to : Nat, pos : Nat] /\ (r.on => r.to <= r.sn /\ r.pos > 0)

-----------------------------------------------------------------------------
\* Where an instruction may be that gets on by itself, and the queues of these.
Lists == {deferred, blocked, retry, instsToExecute, iewQueue}

At ==
  [ready |-> UNION {Range(ready.insts[k]) : k \in Kinds}, blocked |-> Range(blocked),
   retry |-> Range(retry), nonSpec |-> nonSpecInsts, execute |-> Range(instsToExecute),
   unit |-> inUnit, deferred |-> Range(deferred), replay |-> instsToReplay,
   memory |-> {sn \in sent : ~inst[sn].executed}, commit |-> Range(iewQueue)]

Places == {"ready", "blocked", "retry", "nonSpec", "execute", "unit", "deferred",
           "replay", "memory", "commit"}
Unissued == {"ready", "blocked", "retry", "nonSpec"}

\* What may be in a place.
Fits(p, kind) ==
  /\ p = "nonSpec" => kind = "barrier"
  /\ p = "unit" => kind = "div"
  /\ p = "deferred" => kind \in {"load", "store"}
  /\ p \in {"blocked", "retry", "replay", "memory"} => kind = "load"

-----------------------------------------------------------------------------
Shape ==
  /\ phase \in Phases /\ sc \in Scenarios
  /\ nextSn \in Nat \ {0} /\ nextPos \in Nat \ {0}
  /\ inst = [sn \in DOMAIN inst |-> inst[sn]] /\ DOMAIN inst \subseteq 1..(nextSn - 1)
  /\ \A sn \in DOMAIN inst : inst[sn] \in InstType /\ inst[sn].pos \in DOMAIN sc.prog
  /\ rob \in Seq(Nat) /\ Ascending(rob) /\ Range(rob) \subseteq DOMAIN inst
  /\ instList \subseteq DOMAIN inst /\ freeEntries \in Nat
  /\ \A s \in Lists : s \in Seq(Nat) /\ Distinct(s)
  /\ sent \subseteq DOMAIN inst
  /\ \A p \in Places : At[p] \subseteq DOMAIN inst
  /\ {walk, squashSig, squashed} \subseteq Signal
  /\ RedirectOK(iewSquash) /\ RedirectOK(iewSquashNow)
  /\ done \in Nat /\ nonSpecSig \in Nat /\ orderIt \in Nat
  /\ {inRunahead, exitRunahead} \subseteq BOOLEAN
  /\ (exitRunahead => inRunahead) /\ cause.pos \in Nat /\ (inRunahead => cause.pos > 0)

\* The ready lists are in order, and the order list names each that is not empty,
\* the one with the oldest instruction first.
OrderOK(order) ==
  /\ order \in Seq([class : Kinds, oldest : Nat])
  /\ \A i, j \in DOMAIN order : i < j => order[i].oldest < order[j].oldest

ReadyOK(r) ==
  /\ r.insts \in [Kinds -> Seq(Nat)] /\ \A k \in Kinds : Ascending(r.insts[k])
  /\ OrderOK(r.order)
  /\ \A k \in Kinds : r.insts[k] # <<>> => \E x \in Range(r.order) : x.class = k
  /\ \A x \in Range(r.order) :
       r.insts[x.class] # <<>> /\ x.oldest = Head(r.insts[x.class])

ReadyInv ==
  ReadyOK(ready) /\ \A k \in Kinds : \A sn \in Range(ready.insts[k]) : Kind(sn) = k

-----------------------------------------------------------------------------
\* An instruction waits for registers, or for stores or barriers.
WaitsReg(sn) == inst[sn].unready > 0
WaitsMem(sn) == sn \in DOMAIN memDepHash /\ memDepHash[sn].memDeps > 0

\* No instruction is in two places, and its flags say in which one it is.
PlacesApart == \A p, q \in Places : p # q => At[p] \cap At[q] = {}

PlaceOK(p, sn) ==
  /\ Fits(p, Kind(sn)) /\ inst[sn].wb = "no" /\ ~WaitsReg(sn) /\ ~WaitsMem(sn)
  /\ inst[sn].executed <=> p = "commit"
  /\ ~inst[sn].squashed =>
       /\ p \notin Unissued => inst[sn].issued
       /\ p \in Unissued /\ ~IsMemRef(sn) => ~inst[sn].issued
       /\ p \in Unissued \/ IsMemRef(sn) => sn \in instList
  /\ p \in {"replay", "nonSpec"} => sn \in instList

PlaceInv ==
  /\ PlacesApart /\ \A p \in Places : \A sn \in At[p] : PlaceOK(p, sn)
  /\ nonSpecSig # 0 => nonSpecSig \in nonSpecInsts /\ phase # "commit"

\* What the queue holds and has not been squashed is somewhere.
SomewhereOK(sn) ==
  ~inst[sn].squashed /\ inst[sn].wb = "no" =>
    \/ \E p \in Places : sn \in At[p]
    \/ ~inst[sn].executed /\ (WaitsReg(sn) \/ WaitsMem(sn))

Somewhere == \A sn \in instList : SomewhereOK(sn)

\* The flags of an instruction that has been written back, or still waits.
FlagOK(sn) ==
  /\ inst[sn].fault => inst[sn].executed
  /\ inst[sn].memOpDone => inst[sn].wb # "no"
  /\ inst[sn].wb # "no" => inst[sn].executed
  /\ inst[sn].wb # "no" /\ ~inst[sn].squashed /\ ~inst[sn].fault =>
       inst[sn].issued /\ (IsMemRef(sn) => inst[sn].memOpDone)

WaitOK(sn) ==
  WaitsReg(sn) \/ WaitsMem(sn) =>
    ~inst[sn].issued /\ ~inst[sn].executed /\ inst[sn].wb = "no"

FlagInv == (\A sn \in DOMAIN inst : FlagOK(sn)) /\ \A sn \in instList : WaitOK(sn)

-----------------------------------------------------------------------------
\* The squash signal, the walk it begins and the range the execution stage skips.
SignalInv ==
  /\ robSquashing = walk.on
  /\ squashSig.on => phase = "events" /\ nonSpecSig = 0 /\ squashSig.tail = nextSn - 1
  /\ squashSig.on /\ walk.on => walk.to = squashSig.to
  /\ walk.on /\ ~squashSig.on => squashed.to = walk.to /\ squashed.tail = nextSn - 1
  /\ squashed.tail < nextSn /\ done < nextSn

\* What the reorder buffer keeps and what the queue keeps once it has heard of
\* the squash and of what retired are the same.
Live == {sn \in Range(rob) : walk.on => sn <= walk.to}
Listed == {sn \in instList : sn > done /\ (squashSig.on => sn <= squashSig.to)}

LiveOK(sn) == ~inst[sn].squashed /\ (inst[sn].runahead => inRunahead) /\ ~InRange(sn)

LiveInv == Live = Listed /\ \A sn \in Live : LiveOK(sn)

ListedOK(sn) ==
  /\ sn > done => sn \in Range(rob) \/ inst[sn].squashed
  /\ sn <= done => inst[sn].wb # "no" /\ ~InQueue(sn)
  /\ \A r \in Range(rob) :
       (r < sn => r \in instList) /\ (done < sn /\ sn < r => sn \in Range(rob))

\* The queue has dropped it, and the reorder buffer has not marked it yet.
UnlistedOK(sn) ==
  ~inst[sn].squashed => \/ sn \in Range(rob) /\ walk.on /\ sn > walk.to /\ InRange(sn)
                        \/ inst[sn].wb # "no" /\ \A r \in Range(rob) : sn < r

RobInv ==
  /\ \A sn \in Range(rob) : sn > done
  /\ \A sn \in instList : ListedOK(sn)
  /\ \A sn \in DOMAIN inst \ instList : UnlistedOK(sn)

-----------------------------------------------------------------------------
\* A result that has not been written back, or never will be.
Pending(sn) == inst[sn].wb = "no" \/ inst[sn].fault \/ inst[sn].squashed

EdgeOK(d) ==
  /\ d[1] < d[2] /\ d[1] > done /\ {d[1], d[2]} \subseteq instList
  /\ d[1] \in regScoreboard /\ Pending(d[1])
  /\ HasDest(OpOf(d[1])) /\ ~IsBarrier(d[2])

EdgesTo(sn) == {d \in dependGraph : d[2] = sn}

SourcesOK(sn) ==
  \A r \in Range(rob) :
    r < sn /\ inst[r].pos \in OpOf(sn).src /\ r \in regScoreboard => <<r, sn>> \in dependGraph

GraphInv ==
  /\ dependGraph \subseteq Nat \X Nat /\ \A d \in dependGraph : EdgeOK(d)
  /\ \A sn \in instList : /\ inst[sn].unready = Cardinality(EdgesTo(sn))
                          /\ ~IsBarrier(sn) => SourcesOK(sn)
  /\ \A r \in Range(rob) : r \in regScoreboard => Pending(r) /\ HasDest(OpOf(r))
  /\ \A r \in regScoreboard : r \in Nat /\ r < nextSn

EntryType == [memDeps : Int, regsReady : BOOLEAN, dependInsts : SUBSET Nat]

Producers(sn) == {s \in DOMAIN memDepHash : sn \in memDepHash[s].dependInsts}

HashOK(sn) ==
  /\ memDepHash[sn] \in EntryType
  /\ sn \in instList /\ sn > done /\ (IsMemRef(sn) \/ IsBarrier(sn)) /\ Pending(sn)
  /\ memDepHash[sn].memDeps = Cardinality(Producers(sn))
  /\ IsMemRef(sn) => (memDepHash[sn].regsReady <=> ~WaitsReg(sn))
  /\ memDepHash[sn].dependInsts # {} => Kind(sn) \in {"store", "barrier"}
  /\ \A c \in memDepHash[sn].dependInsts :
       sn < c /\ c < nextSn /\ (c \in DOMAIN inst => IsMemRef(c))

HashInv ==
  /\ memDepHash = [sn \in DOMAIN memDepHash |-> memDepHash[sn]]
  /\ \A sn \in DOMAIN memDepHash : HashOK(sn)
  /\ \A sn \in instList :
       (IsMemRef(sn) \/ IsBarrier(sn)) /\ inst[sn].wb = "no" => sn \in DOMAIN memDepHash

\* What accesses memory behind a barrier in flight waits for it, and a barrier
\* waits to be the oldest.
BarrierInv ==
  /\ \A sn \in barrierSNs : sn \in DOMAIN memDepHash /\ IsBarrier(sn)
  /\ \A b \in DOMAIN memDepHash : IsBarrier(b) /\ inst[b].wb = "no" =>
       /\ b \in barrierSNs
       /\ \A c \in DOMAIN memDepHash : IsMemRef(c) /\ b < c => c \in memDepHash[b].dependInsts
  /\ \A p \in Places \ {"nonSpec"} : \A sn \in At[p] :
       IsBarrier(sn) => \A r \in Range(rob) : sn <= r
  /\ nonSpecSig # 0 => \A r \in Range(rob) : nonSpecSig <= r

-----------------------------------------------------------------------------
\* The predictor has seen the stores it tells of.
PredictorOK(p) ==
  /\ p = [SSIT |-> p.SSIT, LFST |-> p.LFST, valid |-> p.valid,
          storeList |-> p.storeList, memOps |-> p.memOps]
  /\ p.SSIT \in [Indexes -> SSIDs \cup {NoSet}]
  /\ p.LFST \in [SSIDs -> Nat] /\ p.valid \in [SSIDs -> BOOLEAN]
  /\ \A sn \in DOMAIN p.storeList : sn \in Nat /\ p.storeList[sn] \in SSIDs
  /\ ListBehindLFST(p)

PredictorInv ==
  /\ PredictorOK(depPred)
  /\ \A s \in SSIDs :
       depPred.LFST[s] < nextSn /\ (depPred.LFST[s] \in DOMAIN inst => Kind(depPred.LFST[s]) = "store")

UnitInv == unitBusy \in [Kinds -> Nat] /\ unitsToBeFreed \in [Kinds -> Nat] /\ UnitsConserved

IqInv ==
  /\ Shape /\ ReadyInv /\ PlaceInv /\ Somewhere /\ FlagInv /\ SignalInv /\ LiveInv
  /\ RobInv /\ GraphInv /\ HashInv /\ BarrierInv /\ PredictorInv /\ UnitInv
  /\ EntriesConserved

\* A load answered before its response comes was at the head of the reorder buffer.
SentInv == \A sn \in sent : inst[sn].executed => \A r \in Range(rob) : sn <= r
=============================================================================
