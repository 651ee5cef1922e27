------------------------------ MODULE IqProofs ------------------------------
(***************************************************************************)
(* IqInv is an invariant of RunaheadIq, and with it what the runs check of *)
(* the queue: its entries, its lists, its wake-ups and what it looks up.   *)
(***************************************************************************)
EXTENDS IqStepProofs

-----------------------------------------------------------------------------
(* An instruction is dispatched *)

\* As many edges as there are registers to wait for.
LEMMA PairsCount ==
  ASSUME NEW W, IsFiniteSet(W), NEW n
  PROVE  Cardinality({<<r, n>> : r \in W}) = Cardinality(W)
<1>1. PICK T : T = {<<r, n>> : r \in W}
  OBVIOUS
<1>2. PICK f : f = [r \in W |-> <<r, n>>]
  OBVIOUS
<1>3. f \in [W -> T]
  BY <1>1, <1>2
<1>4. \A a, b \in W : f[a] = f[b] => a = b
  BY <1>2
<1>5. \A t \in T : \E r \in W : f[r] = t
  BY <1>1, <1>2
<1>6. f \in Bijection(W, T)
  BY <1>3, <1>4, <1>5 DEF Bijection, Injection, Surjection, IsInjective
<1>7. ExistsBijection(W, T)
  BY <1>6 DEF ExistsBijection
<1> QED BY <1>1, <1>7, FS_Bijection

\* The instruction n, of operation op, is new; it waits for the registers of W
\* and the stores and barriers of S.
ToReadyList(op, W, S) == op.kind # "barrier" /\ W = {} /\ S = {}
InHash(op) == op.kind \in {"load", "store", "barrier"}

NewHash(n, op, W, S) ==
  IF InHash(op)
  THEN /\ DOMAIN memDepHash' = DOMAIN memDepHash \cup {n}
       /\ memDepHash' = [s \in DOMAIN memDepHash' |-> memDepHash'[s]]
       /\ \A s \in DOMAIN memDepHash :
            memDepHash'[s] = IF s \in S
                             THEN [memDepHash[s] EXCEPT !.dependInsts = @ \cup {n}]
                             ELSE memDepHash[s]
       /\ memDepHash'[n] = Entry(Cardinality(S), op.kind # "barrier" /\ W = {})
  ELSE memDepHash' = memDepHash

Dispatches(n, op, W, S) ==
  /\ phase = "dispatch" /\ phase' = phase /\ ~robSquashing
  /\ n = nextSn /\ op = sc.prog[nextPos] /\ nextPos \in DOMAIN sc.prog /\ freeEntries > 0
  /\ nextSn' = nextSn + 1 /\ nextPos' = nextPos + 1 /\ rob' = Append(rob, n)
  /\ instList' = instList \cup {n} /\ freeEntries' = freeEntries - 1
  /\ inst' = [sn \in DOMAIN inst' |-> inst'[sn]] /\ DOMAIN inst' = DOMAIN inst \cup {n}
  /\ \A sn \in DOMAIN inst : sn # n => inst'[sn] = inst[sn]
  /\ inst'[n] = [NewInst(nextPos) EXCEPT !.unready = Cardinality(W)]
  /\ W = IF op.kind = "barrier" THEN {} ELSE AddToDependents(nextPos)
  /\ S = IF op.kind \in {"load", "store"}
         THEN ProducingStores(op.kind, nextPos) \cap DOMAIN memDepHash ELSE {}
  /\ dependGraph' = dependGraph \cup {<<r, n>> : r \in W}
  /\ NewHash(n, op, W, S)
  /\ ready' = IF ToReadyList(op, W, S) THEN AddReady(ready, op.kind, n) ELSE ready
  /\ depPred' = IF op.kind = "store" THEN InsertStore(depPred, nextPos, n) ELSE depPred
  /\ barrierSNs' = barrierSNs \cup (IF op.kind = "barrier" THEN {n} ELSE {})
  /\ nonSpecInsts' = nonSpecInsts \cup (IF op.kind = "barrier" THEN {n} ELSE {})
  /\ regScoreboard' = regScoreboard \cup (IF HasDest(op) THEN {n} ELSE {})
  /\ UNCHANGED <<sc, deferred, blocked, retry, instsToExecute, inUnit, unitBusy, unitsToBeFreed>>
  /\ UNCHANGED <<orderIt, instsToReplay, iewQueue, sent, iewSquash, iewSquashNow, squashed>>
  /\ UNCHANGED <<squashSig, walk, robSquashing, done, nonSpecSig, inRunahead, cause, exitRunahead>>

IsWith(g, f, x, v) ==
  /\ DOMAIN g = DOMAIN f \cup {x} /\ g = [y \in DOMAIN g |-> g[y]]
  /\ g[x] = v /\ \A y \in DOMAIN f : y # x => g[y] = f[y]

LEMMA WithIs ==
  ASSUME NEW f, NEW x, NEW v, NEW g, g = With(f, x, v)
  PROVE  IsWith(g, f, x, v)
BY DEF With, IsWith

LEMMA DispatchIs ==
  ASSUME IqInv, Dispatch
  PROVE  \E n, op, W, S : Dispatches(n, op, W, S)
<1>1. PICK n, p, op : n = nextSn /\ p = nextPos /\ op = sc.prog[p]
  OBVIOUS
<1>2. PICK W : W = IF op.kind = "barrier" THEN {} ELSE AddToDependents(p)
  OBVIOUS
<1>3. PICK S : S = IF op.kind \in {"load", "store"}
                   THEN ProducingStores(op.kind, p) \cap DOMAIN memDepHash ELSE {}
  OBVIOUS
<1>4. Shape /\ HashInv
  BY DEF IqInv
<1>5. p \in DOMAIN sc.prog
  <2>1. p \in Nat \ {0} /\ p <= Len(sc.prog) /\ sc.prog \in Seq(Op)
    BY <1>1, <1>4, ScTypes DEF Shape, Dispatch
  <2>2. Len(sc.prog) \in Nat /\ DOMAIN sc.prog = 1..Len(sc.prog)
    BY <2>1, SeqBasics
  <2> QED BY <2>1, <2>2
<1>6. n \notin DOMAIN memDepHash
  BY <1>1, <1>4, ShapeFacts DEF HashInv, HashOK
<1>7. /\ phase = "dispatch" /\ phase' = phase /\ ~robSquashing /\ freeEntries > 0
      /\ nextSn' = nextSn + 1 /\ nextPos' = nextPos + 1 /\ rob' = Append(rob, n)
      /\ instList' = instList \cup {n} /\ freeEntries' = freeEntries - 1
      /\ UNCHANGED <<sc, deferred, blocked, retry, instsToExecute, inUnit, unitBusy>>
      /\ UNCHANGED <<unitsToBeFreed, orderIt, instsToReplay, iewQueue, sent>>
      /\ UNCHANGED <<iewSquash, iewSquashNow, squashed, squashSig, walk, robSquashing, done>>
      /\ UNCHANGED <<nonSpecSig, inRunahead, cause, exitRunahead>>
  BY <1>1 DEF Dispatch, lists, fuVars, loopVars, memVars, iewVars, sigVars, modeVars
<1>8. regScoreboard' = regScoreboard \cup (IF HasDest(op) THEN {n} ELSE {})
  BY <1>1 DEF Dispatch
<1>9. PICK x : x = [NewInst(p) EXCEPT !.unready = Cardinality(W)]
  OBVIOUS
<1>10. CASE op.kind = "barrier"
  <2>1. InsertBarrier(n) /\ inst' = With(inst, n, NewInst(p))
    BY <1>1, <1>10 DEF Dispatch
  <2>2. W = {} /\ S = {} /\ Cardinality(W) = 0 /\ Cardinality(S) = 0
    BY <1>2, <1>3, <1>10, FS_EmptySet
  <2>3. x = NewInst(p)
    BY <1>9, <2>2 DEF NewInst
  <2>4. NewHash(n, op, W, S)
    <3>1. memDepHash' = With(memDepHash, n, Entry(0, FALSE)) /\ InHash(op)
      BY <1>10, <2>1 DEF InsertBarrier, InHash
    <3>2. IsWith(memDepHash', memDepHash, n, Entry(0, FALSE))
      BY <3>1, WithIs
    <3> QED BY <1>6, <1>10, <2>2, <3>1, <3>2 DEF NewHash, IsWith
  <2>5. /\ barrierSNs' = barrierSNs \cup {n} /\ nonSpecInsts' = nonSpecInsts \cup {n}
        /\ UNCHANGED <<ready, depPred, dependGraph>>
    BY <2>1 DEF InsertBarrier
  <2>6. dependGraph' = dependGraph \cup {<<r, n>> : r \in W}
    BY <2>2, <2>5
  <2>7. ~ToReadyList(op, W, S)
    BY <1>10 DEF ToReadyList
  <2>8. /\ inst' = [sn \in DOMAIN inst' |-> inst'[sn]] /\ DOMAIN inst' = DOMAIN inst \cup {n}
        /\ (\A sn \in DOMAIN inst : sn # n => inst'[sn] = inst[sn]) /\ inst'[n] = x
    <3>1. IsWith(inst', inst, n, x)
      BY <2>1, <2>3, WithIs
    <3> QED BY <3>1 DEF IsWith
  <2>9. Dispatches(n, op, W, S)
    BY <1>1, <1>2, <1>3, <1>5, <1>7, <1>8, <1>9, <1>10, <2>4, <2>5, <2>6, <2>7, <2>8 DEF Dispatches
  <2> QED BY <2>9
<1>11. CASE op.kind # "barrier"
  <2>1. Insert(n, p) /\ inst' = With(inst, n, x)
    BY <1>1, <1>2, <1>9, <1>11 DEF Dispatch
  <2>2. /\ inst' = [sn \in DOMAIN inst' |-> inst'[sn]] /\ DOMAIN inst' = DOMAIN inst \cup {n}
        /\ (\A sn \in DOMAIN inst : sn # n => inst'[sn] = inst[sn]) /\ inst'[n] = x
    <3>1. IsWith(inst', inst, n, x)
      BY <2>1, WithIs
    <3> QED BY <3>1 DEF IsWith
  <2>3. dependGraph' = dependGraph \cup {<<r, n>> : r \in W} /\ nonSpecInsts' = nonSpecInsts
    BY <1>2, <1>11, <2>1 DEF Insert
  <2>4. CASE op.kind \in {"load", "store"}
    <3>1. MemDepInsert(n, p, W = {})
      BY <1>1, <1>2, <1>11, <2>1, <2>4 DEF Insert
    <3>2. PICK hash : hash = [s \in DOMAIN memDepHash |->
                                IF s \in S THEN [memDepHash[s] EXCEPT !.dependInsts = @ \cup {n}]
                                ELSE memDepHash[s]]
      OBVIOUS
    <3>3. /\ memDepHash' = With(hash, n, Entry(Cardinality(S), W = {}))
          /\ ready' = IF S = {} /\ W = {} THEN AddReady(ready, op.kind, n) ELSE ready
          /\ depPred' = IF op.kind = "store" THEN InsertStore(depPred, p, n) ELSE depPred
          /\ barrierSNs' = barrierSNs
      BY <1>1, <1>3, <2>4, <3>1, <3>2 DEF MemDepInsert
    <3>4. NewHash(n, op, W, S)
      <4>1. InHash(op) /\ DOMAIN hash = DOMAIN memDepHash
        BY <2>4, <3>2 DEF InHash
      <4>2. /\ DOMAIN memDepHash' = DOMAIN memDepHash \cup {n}
            /\ memDepHash' = [s \in DOMAIN memDepHash' |-> memDepHash'[s]]
            /\ memDepHash'[n] = Entry(Cardinality(S), W = {})
            /\ \A s \in DOMAIN memDepHash : s # n => memDepHash'[s] = hash[s]
        <5>1. IsWith(memDepHash', hash, n, Entry(Cardinality(S), W = {}))
          BY <3>3, WithIs
        <5> QED BY <4>1, <5>1 DEF IsWith
      <4>3. Entry(Cardinality(S), W = {}) = Entry(Cardinality(S), op.kind # "barrier" /\ W = {})
        BY <1>11 DEF Entry
      <4> QED BY <1>6, <3>2, <4>1, <4>2, <4>3 DEF NewHash
    <3>5. ToReadyList(op, W, S) <=> S = {} /\ W = {}
      BY <1>11 DEF ToReadyList
    <3>6. Dispatches(n, op, W, S)
      BY <1>1, <1>2, <1>3, <1>5, <1>7, <1>8, <1>9, <1>11, <2>2, <2>3, <3>3, <3>4, <3>5 DEF Dispatches
    <3> QED BY <3>6
  <2>5. CASE op.kind \notin {"load", "store"}
    <3>1. /\ ready' = IF W = {} THEN AddReady(ready, op.kind, n) ELSE ready
          /\ UNCHANGED <<memDepHash, depPred, barrierSNs>>
      BY <1>1, <1>2, <1>11, <2>1, <2>5 DEF Insert
    <3>2. S = {} /\ op.kind # "store"
      BY <1>3, <2>5
    <3>3. NewHash(n, op, W, S)
      BY <1>11, <2>5, <3>1 DEF NewHash, InHash
    <3>4. ToReadyList(op, W, S) <=> W = {}
      BY <1>11, <3>2 DEF ToReadyList
    <3>5. Dispatches(n, op, W, S)
      BY <1>1, <1>2, <1>3, <1>5, <1>7, <1>8, <1>9, <1>11, <2>2, <2>3, <3>1, <3>2, <3>3, <3>4
      DEF Dispatches
    <3> QED BY <3>5
  <2> QED BY <2>4, <2>5
<1> QED BY <1>10, <1>11

\* The store the predictor tells of, and the barriers in flight.
LEMMA ProducersAre ==
  ASSUME Shape, HashInv, BarrierInv, PredictorInv, NEW kind, NEW p \in Nat
  PROVE  \A s \in ProducingStores(kind, p) \cap DOMAIN memDepHash :
           s \in DOMAIN inst /\ Kind(s) \in {"store", "barrier"}
<1> TAKE s \in ProducingStores(kind, p) \cap DOMAIN memDepHash
<1>1. s \in DOMAIN inst /\ s \in Nat /\ 0 < s
  <2>1. s \in instList
    BY DEF HashInv, HashOK
  <2> QED BY <2>1, ShapeFacts
<1>2. CASE barrierSNs # {}
  <2>1. s \in barrierSNs
    BY <1>2 DEF ProducingStores
  <2>2. IsBarrier(s)
    BY <2>1 DEF BarrierInv
  <2> QED BY <1>1, <2>2 DEF IsBarrier
<1>3. CASE barrierSNs = {}
  <2>1. s = CheckInst(depPred, p)
    BY <1>3 DEF ProducingStores
  <2>2. PICK set : set = SetOf(depPred, p)
    OBVIOUS
  <2>3. set \in SSIDs \cup {NoSet}
    BY <2>2, SetOfRange DEF PredictorInv
  <2>4. s = IF set = NoSet THEN 0 ELSE IF depPred.valid[set] THEN depPred.LFST[set] ELSE 0
    BY <2>1, <2>2 DEF CheckInst
  <2>5. s # 0
    BY <1>1
  <2>6. set # NoSet /\ s = depPred.LFST[set]
    BY <2>4, <2>5
  <2>7. Kind(s) = "store"
    BY <1>1, <2>3, <2>6 DEF PredictorInv
  <2> QED BY <1>1, <2>7
<1> QED BY <1>2, <1>3

LEMMA DispatchFacts ==
  ASSUME IqInv, NEW n, NEW op, NEW W, NEW S, Dispatches(n, op, W, S)
  PROVE  /\ n \in Nat /\ n > 0 /\ n \notin DOMAIN inst /\ n \notin DOMAIN memDepHash
         /\ n \notin instList /\ n \notin Range(rob) /\ n \notin regScoreboard
         /\ \A p \in Places : n \notin At[p]
         /\ op \in Op /\ op.kind \in Kinds /\ nextPos \in Nat /\ done < n
         /\ ~walk.on /\ ~squashSig.on
         /\ W \subseteq Range(rob) /\ W \subseteq regScoreboard /\ IsFiniteSet(W)
         /\ Cardinality(W) \in Nat /\ (Cardinality(W) = 0 <=> W = {})
         /\ (op.kind = "barrier" => W = {} /\ S = {}) /\ (S # {} => InHash(op))
         /\ S \subseteq DOMAIN memDepHash /\ IsFiniteSet(S)
         /\ Cardinality(S) \in Nat /\ (Cardinality(S) = 0 <=> S = {})
         /\ \A s \in S : s \in DOMAIN inst /\ s < n /\ Kind(s) \in {"store", "barrier"}
<1>1. /\ Shape /\ SignalInv /\ GraphInv /\ HashInv /\ BarrierInv /\ PredictorInv
  BY DEF IqInv
<1>2. /\ n = nextSn /\ op = sc.prog[nextPos] /\ nextPos \in DOMAIN sc.prog
      /\ phase = "dispatch" /\ ~robSquashing
      /\ W = (IF op.kind = "barrier" THEN {} ELSE AddToDependents(nextPos))
      /\ S = IF op.kind \in {"load", "store"}
             THEN ProducingStores(op.kind, nextPos) \cap DOMAIN memDepHash ELSE {}
  BY DEF Dispatches
<1>3. n \in Nat /\ n > 0 /\ \A sn \in DOMAIN inst : sn \in Nat /\ sn < n
  BY <1>1, <1>2, ShapeFacts DEF Shape
<1>4. n \notin DOMAIN inst
  BY <1>3
<1>5. DOMAIN memDepHash \subseteq instList /\ instList \subseteq DOMAIN inst /\ Range(rob) \subseteq DOMAIN inst
  BY <1>1, ShapeFacts DEF HashInv, HashOK
<1>6. n \notin regScoreboard
  BY <1>1, <1>2, <1>3 DEF GraphInv
<1>7. \A p \in Places : n \notin At[p]
  BY <1>1, <1>4 DEF Shape
<1>8. op \in Op /\ op.kind \in Kinds /\ nextPos \in Nat
  BY <1>1, <1>2, ScTypes
<1>9. done < n /\ ~walk.on /\ ~squashSig.on
  BY <1>1, <1>2 DEF SignalInv
<1>10. W \subseteq Range(rob) /\ W \subseteq regScoreboard
  BY <1>2 DEF AddToDependents, SrcRegs
<1>11. S \subseteq DOMAIN memDepHash
  BY <1>2
<1>12. Bounded(W) /\ Bounded(S)
  BY <1>1, <1>5, <1>10, <1>11, InstSubsets
<1>13. /\ IsFiniteSet(W) /\ Cardinality(W) \in Nat /\ (Cardinality(W) = 0 <=> W = {})
       /\ IsFiniteSet(S) /\ Cardinality(S) \in Nat /\ (Cardinality(S) = 0 <=> S = {})
  BY <1>12, FiniteMax
<1>14. (op.kind = "barrier" => W = {} /\ S = {}) /\ (S # {} => InHash(op))
  BY <1>2 DEF InHash
<1>15. \A s \in S : s \in DOMAIN inst /\ s < n /\ Kind(s) \in {"store", "barrier"}
  <2> TAKE s \in S
  <2>1. s \in ProducingStores(op.kind, nextPos) \cap DOMAIN memDepHash
    BY <1>2
  <2>2. s \in DOMAIN inst /\ Kind(s) \in {"store", "barrier"}
    BY <1>1, <1>8, <2>1, ProducersAre
  <2> QED BY <1>3, <2>2
<1>16. n \notin DOMAIN memDepHash /\ n \notin instList /\ n \notin Range(rob)
  BY <1>4, <1>5
<1> QED BY <1>3, <1>4, <1>6, <1>7, <1>8, <1>9, <1>10, <1>11, <1>13, <1>14, <1>15, <1>16

\* What the new instruction is.
LEMMA DispatchNew ==
  ASSUME IqInv, NEW n, NEW op, NEW W, NEW S, Dispatches(n, op, W, S)
  PROVE  /\ inst'[n] \in InstType /\ inst'[n].pos = nextPos /\ inst'[n].wb = "no"
         /\ inst'[n].unready = Cardinality(W) /\ inst'[n].runahead = inRunahead
         /\ ~inst'[n].issued /\ ~inst'[n].executed /\ ~inst'[n].memOpDone /\ ~inst'[n].fault
         /\ ~inst'[n].squashed
         /\ OpOf(n)' = op /\ Kind(n)' = op.kind
         /\ (IsMemRef(n)' <=> op.kind \in {"load", "store"}) /\ (IsBarrier(n)' <=> op.kind = "barrier")
         /\ (WaitsReg(n)' <=> W # {}) /\ (WaitsMem(n)' <=> S # {})
         /\ Pending(n)' /\ InQueue(n)'
<1>1. /\ n \notin DOMAIN memDepHash /\ nextPos \in Nat /\ Cardinality(W) \in Nat
      /\ (Cardinality(W) = 0 <=> W = {}) /\ (S # {} => InHash(op)) /\ Cardinality(S) \in Nat
      /\ (Cardinality(S) = 0 <=> S = {})
  BY DispatchFacts
<1>2. inst'[n] = [NewInst(nextPos) EXCEPT !.unready = Cardinality(W)]
  BY DEF Dispatches
<1>3. PICK c, p, r : c = Cardinality(W) /\ p = nextPos /\ r = inRunahead
  OBVIOUS
<1>4. inst'[n] = [pos |-> p, runahead |-> r, unready |-> c, issued |-> FALSE,
                  executed |-> FALSE, memOpDone |-> FALSE, translated |-> FALSE,
                  fault |-> FALSE, squashed |-> FALSE, wb |-> "no"]
  BY <1>2, <1>3 DEF NewInst
<1>5. r \in BOOLEAN /\ c \in Nat /\ p \in Nat
  BY <1>1, <1>3 DEF IqInv, Shape
<1>6. PICK x : x = inst'[n]
  OBVIOUS
<1>7. /\ x \in InstType /\ x.pos = p /\ x.wb = "no" /\ x.unready = c /\ x.runahead = r
      /\ ~x.issued /\ ~x.executed /\ ~x.memOpDone /\ ~x.fault /\ ~x.squashed
  <2>1. x = [pos |-> p, runahead |-> r, unready |-> c, issued |-> FALSE,
             executed |-> FALSE, memOpDone |-> FALSE, translated |-> FALSE,
             fault |-> FALSE, squashed |-> FALSE, wb |-> "no"]
    BY <1>4, <1>6
  <2> QED BY ONLY <1>5, <2>1 DEF InstType
<1>8. OpOf(n)' = op
  BY <1>3, <1>6, <1>7 DEF OpOf, Dispatches
<1>9. Kind(n)' = op.kind
  BY <1>8 DEF Kind
<1>10. (IsMemRef(n)' <=> op.kind \in {"load", "store"}) /\ (IsBarrier(n)' <=> op.kind = "barrier")
  BY <1>9 DEF IsMemRef, IsBarrier
<1>11. WaitsReg(n)' <=> W # {}
  <2>1. inst'[n].unready = c /\ c \in Nat /\ (c = 0 <=> W = {})
    BY <1>1, <1>3, <1>6, <1>7
  <2>2. c > 0 <=> W # {}
    BY ONLY <2>1
  <2> QED BY <2>1, <2>2 DEF WaitsReg
<1>12. WaitsMem(n)' <=> S # {}
  <2>1. CASE InHash(op)
    <3>1. n \in DOMAIN memDepHash' /\ memDepHash'[n].memDeps = Cardinality(S)
      BY <2>1 DEF Dispatches, NewHash, Entry
    <3> QED BY <1>1, <3>1 DEF WaitsMem
  <2>2. CASE ~InHash(op)
    <3>1. memDepHash' = memDepHash
      BY <2>2 DEF Dispatches, NewHash
    <3> QED BY <1>1, <2>2, <3>1 DEF WaitsMem
  <2> QED BY <2>1, <2>2
<1>13. Pending(n)' /\ InQueue(n)'
  BY <1>6, <1>7 DEF Pending, InQueue
<1> QED BY <1>3, <1>6, <1>7, <1>8, <1>9, <1>10, <1>11, <1>12, <1>13

\* The entries of the memory dependence unit.
HashGrows(n, op, W, S) ==
  /\ DOMAIN memDepHash' = DOMAIN memDepHash \cup (IF InHash(op) THEN {n} ELSE {})
  /\ memDepHash' = [s \in DOMAIN memDepHash' |-> memDepHash'[s]]
  /\ \A s \in DOMAIN memDepHash :
       /\ memDepHash'[s] \in EntryType
       /\ memDepHash'[s].memDeps = memDepHash[s].memDeps
       /\ memDepHash'[s].regsReady = memDepHash[s].regsReady
       /\ memDepHash'[s].dependInsts = memDepHash[s].dependInsts \cup (IF s \in S THEN {n} ELSE {})
  /\ InHash(op) => /\ memDepHash'[n] \in EntryType
                   /\ memDepHash'[n].memDeps = Cardinality(S)
                   /\ (memDepHash'[n].regsReady <=> op.kind # "barrier" /\ W = {})
                   /\ memDepHash'[n].dependInsts = {}

LEMMA DispatchHash ==
  ASSUME IqInv, NEW n, NEW op, NEW W, NEW S, Dispatches(n, op, W, S)
  PROVE  HashGrows(n, op, W, S)
<1>1. /\ n \notin DOMAIN memDepHash /\ (S # {} => InHash(op)) /\ Cardinality(S) \in Nat /\ n \in Nat
  BY DispatchFacts
<1>2. HashInv
  BY DEF IqInv
<1>3. NewHash(n, op, W, S)
  BY DEF Dispatches
<1>4. /\ DOMAIN memDepHash' = DOMAIN memDepHash \cup (IF InHash(op) THEN {n} ELSE {})
      /\ memDepHash' = [s \in DOMAIN memDepHash' |-> memDepHash'[s]]
  BY <1>2, <1>3 DEF NewHash, HashInv
<1>5. ASSUME NEW s \in DOMAIN memDepHash
      PROVE  /\ memDepHash'[s] \in EntryType
             /\ memDepHash'[s].memDeps = memDepHash[s].memDeps
             /\ memDepHash'[s].regsReady = memDepHash[s].regsReady
             /\ memDepHash'[s].dependInsts =
                  memDepHash[s].dependInsts \cup (IF s \in S THEN {n} ELSE {})
  <2>1. memDepHash[s] \in EntryType
    BY <1>2 DEF HashInv, HashOK
  <2>2. PICK x, y : x = memDepHash[s] /\ y = memDepHash'[s]
    OBVIOUS
  <2>3. y = IF s \in S THEN [x EXCEPT !.dependInsts = @ \cup {n}] ELSE x
    BY <1>1, <1>3, <2>2 DEF NewHash
  <2>4. /\ y \in EntryType /\ y.memDeps = x.memDeps /\ y.regsReady = x.regsReady
        /\ y.dependInsts = x.dependInsts \cup (IF s \in S THEN {n} ELSE {})
    <3>1. x \in EntryType /\ n \in Nat
      BY <1>1, <2>1, <2>2
    <3> QED BY ONLY <2>3, <3>1 DEF EntryType
  <2> QED BY <2>2, <2>4
<1>6. ASSUME InHash(op)
      PROVE  /\ memDepHash'[n] \in EntryType
             /\ memDepHash'[n].memDeps = Cardinality(S)
             /\ (memDepHash'[n].regsReady <=> op.kind # "barrier" /\ W = {})
             /\ memDepHash'[n].dependInsts = {}
  <2>1. PICK c, b, y : /\ c = Cardinality(S) /\ b = (op.kind # "barrier" /\ W = {})
                       /\ y = memDepHash'[n]
    OBVIOUS
  <2>2. y = Entry(c, b) /\ c \in Nat /\ b \in BOOLEAN
    BY <1>1, <1>3, <1>6, <2>1 DEF NewHash
  <2>3. y \in EntryType /\ y.memDeps = c /\ y.regsReady = b /\ y.dependInsts = {}
    BY ONLY <2>2 DEF Entry, EntryType
  <2> QED BY <2>1, <2>3
<1> QED BY <1>4, <1>5, <1>6 DEF HashGrows

\* What the others are, they stay.
LEMMA DispatchKeeps ==
  ASSUME IqInv, NEW n, NEW op, NEW W, NEW S, Dispatches(n, op, W, S)
  PROVE  /\ DOMAIN inst' = DOMAIN inst \cup {n}
         /\ \A sn \in DOMAIN inst :
              /\ inst'[sn] = inst[sn] /\ Kind(sn)' = Kind(sn) /\ OpOf(sn)' = OpOf(sn)
              /\ (IsMemRef(sn)' <=> IsMemRef(sn)) /\ (IsBarrier(sn)' <=> IsBarrier(sn))
              /\ (WaitsReg(sn)' <=> WaitsReg(sn)) /\ (WaitsMem(sn)' <=> WaitsMem(sn))
              /\ (Pending(sn)' <=> Pending(sn)) /\ (InQueue(sn)' <=> InQueue(sn))
         /\ \A sn : InRange(sn)' <=> InRange(sn)
<1>1. n \notin DOMAIN inst /\ n \notin DOMAIN memDepHash
  BY DispatchFacts
<1>2. /\ DOMAIN inst' = DOMAIN inst \cup {n} /\ sc' = sc /\ squashed' = squashed
      /\ \A sn \in DOMAIN inst : sn # n => inst'[sn] = inst[sn]
  BY DEF Dispatches
<1>5. HashGrows(n, op, W, S)
  BY DispatchHash
<1>3. ASSUME NEW sn \in DOMAIN inst
      PROVE  /\ inst'[sn] = inst[sn] /\ Kind(sn)' = Kind(sn) /\ OpOf(sn)' = OpOf(sn)
             /\ (IsMemRef(sn)' <=> IsMemRef(sn)) /\ (IsBarrier(sn)' <=> IsBarrier(sn))
             /\ (WaitsReg(sn)' <=> WaitsReg(sn)) /\ (WaitsMem(sn)' <=> WaitsMem(sn))
             /\ (Pending(sn)' <=> Pending(sn)) /\ (InQueue(sn)' <=> InQueue(sn))
  <2>1. inst'[sn] = inst[sn] /\ sn # n
    BY <1>1, <1>2
  <2>2. OpOf(sn)' = OpOf(sn)
    BY <1>2, <2>1 DEF OpOf
  <2>3. Kind(sn)' = Kind(sn)
    BY <2>2 DEF Kind
  <2>4. (IsMemRef(sn)' <=> IsMemRef(sn)) /\ (IsBarrier(sn)' <=> IsBarrier(sn))
    BY <2>3 DEF IsMemRef, IsBarrier
  <2>5. (WaitsReg(sn)' <=> WaitsReg(sn)) /\ (Pending(sn)' <=> Pending(sn))
    BY <2>1 DEF WaitsReg, Pending
  <2>6. InQueue(sn)' <=> InQueue(sn)
    BY <2>1, <2>4 DEF InQueue
  <2>7. WaitsMem(sn)' <=> WaitsMem(sn)
    <3>1. sn \in DOMAIN memDepHash' <=> sn \in DOMAIN memDepHash
      BY <1>5, <2>1 DEF HashGrows
    <3>2. sn \in DOMAIN memDepHash => memDepHash'[sn].memDeps = memDepHash[sn].memDeps
      BY <1>5 DEF HashGrows
    <3> QED BY <3>1, <3>2 DEF WaitsMem
  <2> QED BY <2>1, <2>2, <2>3, <2>4, <2>5, <2>6, <2>7
<1>4. \A sn : InRange(sn)' <=> InRange(sn)
  BY <1>2 DEF InRange
<1> QED BY <1>2, <1>3, <1>4

\* It goes to the ready list, or to those told when to execute, or waits.
LEMMA DispatchReady ==
  ASSUME IqInv, NEW n, NEW op, NEW W, NEW S, Dispatches(n, op, W, S)
  PROVE  /\ ReadyOK(ready')
         /\ \A j \in Kinds : Range(ready'.insts[j]) =
              Range(ready.insts[j]) \cup (IF ToReadyList(op, W, S) /\ j = op.kind THEN {n} ELSE {})
         /\ ReadySet(ready') = ReadySet(ready) \cup (IF ToReadyList(op, W, S) THEN {n} ELSE {})
<1>1. ReadyOK(ready) /\ n \in Nat /\ op.kind \in Kinds /\ n \notin At["ready"]
  BY DispatchFacts DEF IqInv, ReadyInv, Places
<1>2. n \notin ReadySet(ready)
  BY <1>1, AtIs
<1>3. ready' = IF ToReadyList(op, W, S) THEN AddReady(ready, op.kind, n) ELSE ready
  BY DEF Dispatches
<1>4. PICK r, q, k : r = ready /\ q = ready' /\ k = op.kind
  OBVIOUS
<1>5. CASE ToReadyList(op, W, S)
  <2>1. q = AddReady(r, k, n) /\ ReadyOK(r) /\ k \in Kinds /\ n \in Nat /\ n \notin ReadySet(r)
    BY <1>1, <1>2, <1>3, <1>4, <1>5
  <2>2. /\ ReadyOK(q) /\ ReadySet(q) = ReadySet(r) \cup {n}
        /\ \A j \in Kinds : Range(q.insts[j]) = Range(r.insts[j]) \cup (IF j = k THEN {n} ELSE {})
    BY <2>1, AddReadyOK
  <2> QED BY <1>4, <1>5, <2>2
<1>6. CASE ~ToReadyList(op, W, S)
  BY <1>1, <1>3, <1>6
<1> QED BY <1>5, <1>6

LEMMA DispatchReadyInv ==
  ASSUME IqInv, NEW n, NEW op, NEW W, NEW S, Dispatches(n, op, W, S)
  PROVE  ReadyInv'
<1>1. Shape /\ ReadyInv
  BY DEF IqInv
<1>2. ReadyOK(ready')
  BY DispatchReady
<1>3. ASSUME NEW k \in Kinds, NEW sn \in Range(ready'.insts[k]) PROVE Kind(sn)' = k
  <2>1. sn \in Range(ready.insts[k]) \/ (sn = n /\ k = op.kind)
    BY DispatchReady
  <2>2. CASE sn \in Range(ready.insts[k])
    <3>1. sn \in DOMAIN inst /\ Kind(sn) = k
      BY <1>1, <2>2, ReadyKinds
    <3> QED BY <3>1, DispatchKeeps
  <2>3. CASE sn = n /\ k = op.kind
    BY <2>3, DispatchNew
  <2> QED BY <2>1, <2>2, <2>3
<1> QED BY <1>2, <1>3 DEF ReadyInv

LEMMA DispatchAt ==
  ASSUME IqInv, NEW n, NEW op, NEW W, NEW S, Dispatches(n, op, W, S)
  PROVE  \A p \in Places :
           At[p]' = At[p] \cup (IF (p = "ready" /\ ToReadyList(op, W, S)) \/
                                   (p = "nonSpec" /\ op.kind = "barrier") THEN {n} ELSE {})
<1>1. ReadySet(ready') = ReadySet(ready) \cup (IF ToReadyList(op, W, S) THEN {n} ELSE {})
  BY DispatchReady
<1>2. nonSpecInsts' = nonSpecInsts \cup (IF op.kind = "barrier" THEN {n} ELSE {})
  BY DEF Dispatches
<1>3. UNCHANGED <<deferred, blocked, retry, instsToExecute, inUnit, instsToReplay, iewQueue, sent>>
  BY DEF Dispatches
<1>4. {sn \in sent' : ~inst'[sn].executed} = {sn \in sent : ~inst[sn].executed}
  <2>1. sent \subseteq DOMAIN inst
    BY DEF IqInv, Shape
  <2> QED BY <1>3, <2>1, DispatchKeeps
<1> TAKE p \in Places
<1>5. CASE p = "ready"
  BY <1>1, <1>5, AtIs, AtIsNext
<1>6. CASE p = "nonSpec"
  BY <1>2, <1>6, AtIs, AtIsNext
<1>7. CASE p = "memory"
  BY <1>4, <1>7, AtIs, AtIsNext
<1>8. CASE p \notin {"ready", "nonSpec", "memory"}
  <2>1. At[p]' = At[p]
    BY <1>3, <1>8, PlacesAre, AtIs, AtIsNext
  <2> QED BY <1>8, <2>1
<1> QED BY <1>5, <1>6, <1>7, <1>8

LEMMA DispatchPlaces ==
  ASSUME IqInv, NEW n, NEW op, NEW W, NEW S, Dispatches(n, op, W, S)
  PROVE  PlaceInv'
<1>1. Shape /\ PlaceInv
  BY DEF IqInv
<1>2. instList' = instList \cup {n} /\ nonSpecSig' = nonSpecSig /\ phase' = "dispatch"
      /\ nonSpecInsts' = nonSpecInsts \cup (IF op.kind = "barrier" THEN {n} ELSE {})
  BY DEF Dispatches
<1>3. PlacesApart'
  <2> SUFFICES ASSUME NEW p \in Places, NEW q \in Places, p # q PROVE At[p]' \cap At[q]' = {}
    BY DEF PlacesApart
  <2>1. At[p] \cap At[q] = {} /\ n \notin At[p] /\ n \notin At[q]
    BY <1>1, DispatchFacts DEF PlaceInv, PlacesApart
  <2>2. /\ At[p]' = At[p] \cup (IF (p = "ready" /\ ToReadyList(op, W, S)) \/
                                   (p = "nonSpec" /\ op.kind = "barrier") THEN {n} ELSE {})
        /\ At[q]' = At[q] \cup (IF (q = "ready" /\ ToReadyList(op, W, S)) \/
                                   (q = "nonSpec" /\ op.kind = "barrier") THEN {n} ELSE {})
    BY DispatchAt
  <2>3. ToReadyList(op, W, S) => op.kind # "barrier"
    BY DEF ToReadyList
  <2> QED BY <2>1, <2>2, <2>3
<1>4. ASSUME NEW p \in Places, NEW sn \in At[p]' PROVE PlaceOK(p, sn)'
  <2>1. sn \in At[p] \/ (sn = n /\ ((p = "ready" /\ ToReadyList(op, W, S)) \/
                                    (p = "nonSpec" /\ op.kind = "barrier")))
    BY DispatchAt
  <2>2. CASE sn \in At[p]
    <3>1. PlaceOK(p, sn) /\ sn \in DOMAIN inst
      BY <1>1, <2>2 DEF PlaceInv, Shape
    <3>2. /\ inst'[sn] = inst[sn] /\ Kind(sn)' = Kind(sn)
          /\ (IsMemRef(sn)' <=> IsMemRef(sn))
          /\ (WaitsReg(sn)' <=> WaitsReg(sn)) /\ (WaitsMem(sn)' <=> WaitsMem(sn))
      BY <3>1, DispatchKeeps
    <3>3. sn \in instList => sn \in instList'
      BY <1>2
    <3> QED BY <3>1, <3>2, <3>3 DEF PlaceOK, Fits
  <2>3. CASE sn = n /\ ((p = "ready" /\ ToReadyList(op, W, S)) \/ (p = "nonSpec" /\ op.kind = "barrier"))
    <3>1. (op.kind = "barrier" => W = {} /\ S = {})
      BY DispatchFacts
    <3>2. W = {} /\ S = {}
      BY <2>3, <3>1 DEF ToReadyList
    <3>3. /\ inst'[n].wb = "no" /\ Kind(n)' = op.kind /\ ~inst'[n].executed /\ ~inst'[n].issued
          /\ ~WaitsReg(n)' /\ ~WaitsMem(n)'
      BY <3>2, DispatchNew
    <3>4. n \in instList'
      BY <1>2
    <3>5. Fits(p, Kind(n)')
      BY <2>3, <3>3 DEF Fits
    <3>6. p \in Unissued /\ p # "commit" /\ p # "replay"
      BY <2>3 DEF Unissued
    <3> QED BY <2>3, <3>3, <3>4, <3>5, <3>6 DEF PlaceOK
  <2> QED BY <2>1, <2>2, <2>3
<1>5. nonSpecSig' # 0 => nonSpecSig' \in nonSpecInsts' /\ phase' # "commit"
  BY <1>1, <1>2 DEF PlaceInv
<1> QED BY <1>3, <1>4, <1>5 DEF PlaceInv

LEMMA DispatchFlags ==
  ASSUME IqInv, NEW n, NEW op, NEW W, NEW S, Dispatches(n, op, W, S)
  PROVE  Somewhere' /\ FlagInv'
<1>1. Shape /\ Somewhere /\ FlagInv
  BY DEF IqInv
<1>2. instList' = instList \cup {n} /\ instList \subseteq DOMAIN inst
  BY <1>1, ShapeFacts DEF Dispatches
<1>3. /\ inst'[n].wb = "no" /\ ~inst'[n].executed /\ ~inst'[n].issued /\ ~inst'[n].memOpDone
      /\ ~inst'[n].fault /\ (WaitsReg(n)' <=> W # {}) /\ (WaitsMem(n)' <=> S # {})
  BY DispatchNew
<1>4. ASSUME NEW sn \in instList PROVE SomewhereOK(sn)' /\ WaitOK(sn)'
  <2>1. SomewhereOK(sn) /\ WaitOK(sn) /\ sn \in DOMAIN inst
    BY <1>1, <1>2 DEF Somewhere, FlagInv
  <2>2. /\ inst'[sn] = inst[sn]
        /\ (WaitsReg(sn)' <=> WaitsReg(sn)) /\ (WaitsMem(sn)' <=> WaitsMem(sn))
    BY <2>1, DispatchKeeps
  <2>3. \A p \in Places : sn \in At[p] => sn \in At[p]'
    BY DispatchAt
  <2> QED BY <2>1, <2>2, <2>3 DEF SomewhereOK, WaitOK
<1>5. SomewhereOK(n)'
  <2>1. CASE W = {} /\ S = {}
    <3>1. n \in At["ready"]' \/ n \in At["nonSpec"]'
      BY <2>1, DispatchAt DEF ToReadyList, Places
    <3> QED BY <3>1 DEF SomewhereOK, Places
  <2>2. CASE ~(W = {} /\ S = {})
    BY <1>3, <2>2 DEF SomewhereOK
  <2> QED BY <2>1, <2>2
<1>6. WaitOK(n)' /\ FlagOK(n)'
  BY <1>3 DEF WaitOK, FlagOK
<1>7. ASSUME NEW sn \in DOMAIN inst PROVE FlagOK(sn)'
  <2>1. FlagOK(sn)
    BY <1>1 DEF FlagInv
  <2>2. inst'[sn] = inst[sn] /\ (IsMemRef(sn)' <=> IsMemRef(sn))
    BY DispatchKeeps
  <2> QED BY <2>1, <2>2 DEF FlagOK
<1>8. DOMAIN inst' = DOMAIN inst \cup {n}
  BY DispatchKeeps
<1> QED BY <1>2, <1>4, <1>5, <1>6, <1>7, <1>8 DEF Somewhere, FlagInv

LEMMA DispatchSignals ==
  ASSUME IqInv, NEW n, NEW op, NEW W, NEW S, Dispatches(n, op, W, S)
  PROVE  SignalInv'
<1>1. SignalInv /\ nextSn \in Nat /\ squashed.tail \in Int /\ done \in Nat
  BY DEF IqInv, Shape, Signal
<1>2. ~walk.on /\ ~squashSig.on
  BY DispatchFacts
<1>3. /\ nextSn' = nextSn + 1
      /\ UNCHANGED <<squashed, squashSig, walk, robSquashing, done>>
  BY DEF Dispatches
<1>4. squashed.tail < nextSn /\ done < nextSn
  BY <1>1 DEF SignalInv
<1>5. squashed'.tail < nextSn' /\ done' < nextSn'
  BY <1>1, <1>3, <1>4
<1>6. robSquashing' = walk'.on
  BY <1>1, <1>3 DEF SignalInv
<1> QED BY <1>2, <1>3, <1>5, <1>6 DEF SignalInv

LEMMA DispatchLive ==
  ASSUME IqInv, NEW n, NEW op, NEW W, NEW S, Dispatches(n, op, W, S)
  PROVE  LiveInv'
<1>1. Shape /\ LiveInv /\ SignalInv
  BY DEF IqInv
<1>2. ~walk.on /\ ~squashSig.on /\ done < n /\ n \in Nat
  BY DispatchFacts
<1>3. /\ rob' = Append(rob, n) /\ instList' = instList \cup {n}
      /\ UNCHANGED <<squashed, squashSig, walk, done, inRunahead>> /\ n = nextSn
  BY DEF Dispatches
<1>4. Range(rob') = Range(rob) \cup {n}
  BY <1>1, <1>2, <1>3, AppendSeq, ShapeFacts
<1>5. Live = Range(rob) /\ Live' = Range(rob) \cup {n}
  BY <1>2, <1>3, <1>4 DEF Live
<1>6. Listed' = Listed \cup {n}
  BY <1>2, <1>3 DEF Listed
<1>7. ASSUME NEW sn \in Range(rob) PROVE LiveOK(sn)'
  <2>1. LiveOK(sn) /\ sn \in DOMAIN inst
    BY <1>1, <1>5, ShapeFacts DEF LiveInv
  <2>2. inst'[sn] = inst[sn] /\ (InRange(sn)' <=> InRange(sn))
    BY <2>1, DispatchKeeps
  <2> QED BY <1>3, <2>1, <2>2 DEF LiveOK
<1>8. LiveOK(n)'
  <2>1. ~inst'[n].squashed /\ inst'[n].runahead = inRunahead /\ (InRange(n)' <=> InRange(n))
    BY DispatchNew, DispatchKeeps
  <2>2. squashed.tail < n /\ squashed.tail \in Nat
    BY <1>1, <1>3 DEF SignalInv, Shape, Signal
  <2>3. ~InRange(n)
    BY <1>2, <2>2 DEF InRange
  <2> QED BY <1>3, <2>1, <2>3 DEF LiveOK
<1> QED BY <1>1, <1>5, <1>6, <1>7, <1>8 DEF LiveInv

LEMMA DispatchRob ==
  ASSUME IqInv, NEW n, NEW op, NEW W, NEW S, Dispatches(n, op, W, S)
  PROVE  RobInv'
<1>1. Shape /\ RobInv
  BY DEF IqInv
<1>2. /\ done < n /\ n \in Nat /\ ~walk.on /\ n \notin instList /\ n \notin DOMAIN inst
  BY DispatchFacts
<1>3. /\ rob' = Append(rob, n) /\ instList' = instList \cup {n}
      /\ UNCHANGED <<walk, done>> /\ n = nextSn
  BY DEF Dispatches
<1>4. Range(rob') = Range(rob) \cup {n}
  BY <1>1, <1>2, <1>3, AppendSeq, ShapeFacts
<1>5. /\ \A sn \in DOMAIN inst : sn \in Nat /\ sn < n
      /\ Range(rob) \subseteq DOMAIN inst /\ instList \subseteq DOMAIN inst /\ done \in Nat
  BY <1>1, <1>3, ShapeFacts
<1>6. \A sn \in Range(rob') : sn > done'
  BY <1>1, <1>2, <1>3, <1>4 DEF RobInv
<1>7. ASSUME NEW sn \in instList PROVE ListedOK(sn)'
  <2>1. ListedOK(sn) /\ sn \in DOMAIN inst /\ sn < n /\ sn \in Nat
    BY <1>1, <1>5 DEF RobInv
  <2>2. inst'[sn] = inst[sn] /\ (InQueue(sn)' <=> InQueue(sn))
    BY <2>1, DispatchKeeps
  <2>3. sn > done => sn \in Range(rob') \/ inst'[sn].squashed
    BY <1>4, <2>1, <2>2 DEF ListedOK
  <2>4. sn <= done => inst'[sn].wb # "no" /\ ~InQueue(sn)'
    BY <2>1, <2>2 DEF ListedOK
  <2>5. ASSUME NEW r \in Range(rob')
        PROVE  (r < sn => r \in instList') /\ (done < sn /\ sn < r => sn \in Range(rob'))
    <3>1. CASE r \in Range(rob)
      BY <1>3, <1>4, <2>1, <3>1 DEF ListedOK
    <3>2. CASE r = n
      <4>1. ~(n < sn)
        BY <1>2, <2>1
      <4>2. ASSUME done < sn PROVE sn \in Range(rob')
        <5>1. sn \in Listed
          BY <1>5, <2>1, <4>2, DispatchFacts DEF Listed
        <5>2. sn \in Live
          BY <5>1 DEF IqInv, LiveInv
        <5> QED BY <1>4, <5>2 DEF Live
      <4> QED BY <3>2, <4>1, <4>2
    <3> QED BY <1>4, <3>1, <3>2
  <2> QED BY <1>3, <2>3, <2>4, <2>5 DEF ListedOK
<1>8. ListedOK(n)'
  <2>1. ~(n <= done)
    BY <1>2, <1>5
  <2>2. n \in Range(rob')
    BY <1>4
  <2>3. ASSUME NEW r \in Range(rob')
        PROVE  (r < n => r \in instList') /\ (done < n /\ n < r => n \in Range(rob'))
    <3>1. ASSUME r \in Range(rob) PROVE r \in instList
      <4>1. r \in Live
        BY <1>2, <3>1 DEF Live
      <4> QED BY <4>1 DEF IqInv, LiveInv, Listed
    <3>2. CASE r \in Range(rob)
      BY <1>3, <1>4, <3>1, <3>2
    <3>3. CASE r = n
      BY <1>3, <1>4, <3>3
    <3> QED BY <1>4, <3>2, <3>3
  <2> QED BY <1>3, <2>1, <2>2, <2>3 DEF ListedOK
<1>9. ASSUME NEW sn \in DOMAIN inst, sn \notin instList PROVE UnlistedOK(sn)'
  <2>1. UnlistedOK(sn) /\ sn < n /\ inst'[sn] = inst[sn]
    BY <1>1, <1>5, <1>9, DispatchKeeps DEF RobInv
  <2>2. ~inst[sn].squashed => inst[sn].wb # "no" /\ \A r \in Range(rob) : sn < r
    BY <1>2, <2>1 DEF UnlistedOK
  <2> QED BY <1>4, <2>1, <2>2 DEF UnlistedOK
<1>10. DOMAIN inst' = DOMAIN inst \cup {n}
  BY DispatchKeeps
<1> QED BY <1>3, <1>6, <1>7, <1>8, <1>9, <1>10 DEF RobInv

\* It waits for those of its sources that are not ready, and nobody for it.
LEMMA DispatchGraph ==
  ASSUME IqInv, NEW n, NEW op, NEW W, NEW S, Dispatches(n, op, W, S)
  PROVE  GraphInv'
<1>1. Shape /\ RobInv /\ GraphInv
  BY DEF IqInv
<1>2. /\ n \in Nat /\ n \notin instList /\ n \notin Range(rob) /\ n \notin regScoreboard
      /\ n \notin DOMAIN inst
      /\ W \subseteq Range(rob) /\ W \subseteq regScoreboard /\ IsFiniteSet(W)
      /\ (op.kind = "barrier" => W = {}) /\ ~walk.on
  BY DispatchFacts
<1>3. /\ dependGraph' = dependGraph \cup {<<r, n>> : r \in W}
      /\ regScoreboard' = regScoreboard \cup (IF HasDest(op) THEN {n} ELSE {})
      /\ instList' = instList \cup {n} /\ rob' = Append(rob, n) /\ done' = done
      /\ n = nextSn /\ nextSn' = nextSn + 1
      /\ op = sc.prog[nextPos]
      /\ W = (IF op.kind = "barrier" THEN {} ELSE AddToDependents(nextPos))
  BY DEF Dispatches
<1>4. Range(rob') = Range(rob) \cup {n}
  BY <1>1, <1>2, <1>3, AppendSeq, ShapeFacts
<1>5. /\ \A sn \in DOMAIN inst : sn \in Nat /\ sn < n
      /\ Range(rob) \subseteq DOMAIN inst /\ instList \subseteq DOMAIN inst
  BY <1>1, <1>3, ShapeFacts
<1>6. \A r \in Range(rob) : r \in instList /\ r > done
  <2> TAKE r \in Range(rob)
  <2>1. r \in Live /\ r > done
    BY <1>1, <1>2 DEF Live, RobInv
  <2> QED BY <2>1 DEF IqInv, LiveInv, Listed
<1>7. \A d \in dependGraph : d[1] # n /\ d[2] # n
  BY <1>1, <1>2 DEF GraphInv, EdgeOK
<1>8. ASSUME NEW d \in dependGraph PROVE EdgeOK(d)'
  <2>1. EdgeOK(d)
    BY <1>1 DEF GraphInv
  <2>2. d[1] \in DOMAIN inst /\ d[2] \in DOMAIN inst
    BY <1>5, <2>1 DEF EdgeOK
  <2>3. /\ (Pending(d[1])' <=> Pending(d[1])) /\ OpOf(d[1])' = OpOf(d[1])
        /\ (IsBarrier(d[2])' <=> IsBarrier(d[2]))
    BY <2>2, DispatchKeeps
  <2> QED BY <1>3, <2>1, <2>3 DEF EdgeOK
<1>9. ASSUME NEW r \in W PROVE EdgeOK(<<r, n>>)' /\ <<r, n>> \in Nat \X Nat
  <2>1. r \in Range(rob) /\ r \in regScoreboard /\ r \in DOMAIN inst /\ r < n /\ r \in Nat
        /\ r \in instList /\ r > done
    BY <1>2, <1>5, <1>6
  <2>2. Pending(r) /\ HasDest(OpOf(r))
    BY <1>1, <2>1 DEF GraphInv
  <2>3. Pending(r)' /\ OpOf(r)' = OpOf(r)
    BY <2>1, <2>2, DispatchKeeps
  <2>4. ~IsBarrier(n)'
    BY <1>2, DispatchNew
  <2> QED BY <1>2, <1>3, <2>1, <2>2, <2>3, <2>4 DEF EdgeOK
<1>10. dependGraph' \subseteq Nat \X Nat /\ \A d \in dependGraph' : EdgeOK(d)'
  <2>1. dependGraph \subseteq Nat \X Nat
    BY <1>1 DEF GraphInv
  <2>2. \A d \in dependGraph' : d \in dependGraph \/ \E r \in W : d = <<r, n>>
    BY <1>3
  <2> QED BY <1>8, <1>9, <2>1, <2>2
<1>11. ASSUME NEW sn \in instList
       PROVE  inst'[sn].unready = Cardinality(EdgesTo(sn)') /\ (~IsBarrier(sn)' => SourcesOK(sn)')
  <2>1. sn \in DOMAIN inst /\ sn < n /\ sn # n /\ sn \in Nat
    BY <1>2, <1>5
  <2>2. EdgesTo(sn)' = EdgesTo(sn)
    BY <1>3, <2>1 DEF EdgesTo
  <2>3. inst[sn].unready = Cardinality(EdgesTo(sn)) /\ (~IsBarrier(sn) => SourcesOK(sn))
    BY <1>1 DEF GraphInv
  <2>4. inst'[sn] = inst[sn] /\ OpOf(sn)' = OpOf(sn) /\ (IsBarrier(sn)' <=> IsBarrier(sn))
    BY <2>1, DispatchKeeps
  <2>5. SourcesOK(sn) => SourcesOK(sn)'
    <3> SUFFICES ASSUME SourcesOK(sn), NEW r \in Range(rob'), r < sn, inst'[r].pos \in OpOf(sn)'.src,
                        r \in regScoreboard'
                 PROVE  <<r, sn>> \in dependGraph'
      BY DEF SourcesOK
    <3>1. r # n
      BY <1>2, <2>1
    <3>2. r \in Range(rob) /\ r \in regScoreboard /\ r \in DOMAIN inst
      BY <1>3, <1>4, <1>5, <3>1
    <3>3. inst'[r] = inst[r]
      BY <3>2, DispatchKeeps
    <3>4. <<r, sn>> \in dependGraph
      BY <2>4, <3>2, <3>3 DEF SourcesOK
    <3> QED BY <1>3, <3>4
  <2> QED BY <2>2, <2>3, <2>4, <2>5
<1>12. inst'[n].unready = Cardinality(EdgesTo(n)')
  <2>1. EdgesTo(n)' = {<<r, n>> : r \in W}
    BY <1>3, <1>7 DEF EdgesTo
  <2>2. Cardinality({<<r, n>> : r \in W}) = Cardinality(W)
    BY <1>2, PairsCount
  <2>3. inst'[n].unready = Cardinality(W)
    BY DispatchNew
  <2> QED BY <2>1, <2>2, <2>3
<1>13. ~IsBarrier(n)' => SourcesOK(n)'
  <2> SUFFICES ASSUME ~IsBarrier(n)', NEW r \in Range(rob'), r < n, inst'[r].pos \in OpOf(n)'.src,
                      r \in regScoreboard'
               PROVE  <<r, n>> \in dependGraph'
    BY DEF SourcesOK
  <2>1. r # n
    BY <1>2
  <2>2. r \in Range(rob) /\ r \in regScoreboard /\ r \in DOMAIN inst
    BY <1>3, <1>4, <1>5, <2>1
  <2>3. inst'[r] = inst[r] /\ OpOf(n)' = op /\ op.kind # "barrier"
    BY <2>2, DispatchKeeps, DispatchNew
  <2>4. r \in AddToDependents(nextPos)
    BY <1>3, <2>2, <2>3 DEF AddToDependents, SrcRegs
  <2>5. r \in W
    BY <1>3, <2>3, <2>4
  <2> QED BY <1>3, <2>5
<1>14. ASSUME NEW r \in Range(rob'), r \in regScoreboard' PROVE Pending(r)' /\ HasDest(OpOf(r)')
  <2>1. CASE r \in Range(rob)
    <3>1. r \in DOMAIN inst /\ r \in regScoreboard
      BY <1>2, <1>3, <1>5, <1>14, <2>1
    <3>2. Pending(r) /\ HasDest(OpOf(r))
      BY <1>1, <2>1, <3>1 DEF GraphInv
    <3> QED BY <3>1, <3>2, DispatchKeeps
  <2>2. CASE r = n
    <3>1. HasDest(op)
      BY <1>2, <1>3, <1>14, <2>2
    <3> QED BY <2>2, <3>1, DispatchNew
  <2> QED BY <1>4, <2>1, <2>2
<1>15. \A r \in regScoreboard' : r \in Nat /\ r < nextSn'
  <2> TAKE r \in regScoreboard'
  <2>1. r \in regScoreboard \/ r = n
    BY <1>3
  <2>2. (r \in Nat /\ r < nextSn) \/ r = n
    BY <1>1, <2>1 DEF GraphInv
  <2> QED BY <1>2, <1>3, <2>2
<1> QED BY <1>3, <1>10, <1>11, <1>12, <1>13, <1>14, <1>15 DEF GraphInv

LEMMA DispatchHashOK ==
  ASSUME IqInv, NEW n, NEW op, NEW W, NEW S, Dispatches(n, op, W, S)
  PROVE  \A sn \in DOMAIN memDepHash' : HashOK(sn)'
<1>0. HashGrows(n, op, W, S)
  BY DispatchHash
<1>1. Shape /\ HashInv
  BY DEF IqInv
<1>2. /\ n \in Nat /\ n \notin DOMAIN inst /\ n \notin DOMAIN memDepHash /\ done < n
      /\ S \subseteq DOMAIN memDepHash /\ \A s \in S : s < n /\ Kind(s) \in {"store", "barrier"}
  BY DispatchFacts
<1>3. /\ instList' = instList \cup {n} /\ done' = done /\ n = nextSn /\ nextSn' = nextSn + 1
      /\ (S # {} => op.kind \in {"load", "store"})
  BY DEF Dispatches
<1>4. \A s \in DOMAIN memDepHash : HashOK(s) /\ s \in DOMAIN inst /\ s \in Nat /\ s < n
  <2> TAKE s \in DOMAIN memDepHash
  <2>1. HashOK(s) /\ s \in instList
    BY <1>1 DEF HashInv, HashOK
  <2> QED BY <1>1, <1>3, <2>1, ShapeFacts
<1>5. /\ DOMAIN memDepHash' = DOMAIN memDepHash \cup (IF InHash(op) THEN {n} ELSE {})
      /\ \A s \in DOMAIN memDepHash :
           memDepHash'[s].dependInsts = memDepHash[s].dependInsts \cup (IF s \in S THEN {n} ELSE {})
      /\ InHash(op) => memDepHash'[n].dependInsts = {}
  BY <1>0 DEF HashGrows
<1>6. \A s \in DOMAIN memDepHash : n \notin memDepHash[s].dependInsts
  <2> TAKE s \in DOMAIN memDepHash
  <2>1. HashOK(s)
    BY <1>4
  <2>2. ~(n < nextSn)
    BY <1>2, <1>3
  <2> QED BY <2>1, <2>2 DEF HashOK
<1>7. ASSUME NEW sn \in DOMAIN memDepHash PROVE HashOK(sn)'
  <2>1. HashOK(sn) /\ sn \in DOMAIN inst /\ sn # n /\ sn \in Nat /\ sn < n
    BY <1>2, <1>4
  <2>2. /\ memDepHash'[sn] \in EntryType
        /\ memDepHash'[sn].memDeps = memDepHash[sn].memDeps
        /\ memDepHash'[sn].regsReady = memDepHash[sn].regsReady
        /\ memDepHash'[sn].dependInsts =
             memDepHash[sn].dependInsts \cup (IF sn \in S THEN {n} ELSE {})
    BY <1>0 DEF HashGrows
  <2>3. /\ inst'[sn] = inst[sn] /\ Kind(sn)' = Kind(sn) /\ (IsMemRef(sn)' <=> IsMemRef(sn))
        /\ (IsBarrier(sn)' <=> IsBarrier(sn)) /\ (WaitsReg(sn)' <=> WaitsReg(sn))
        /\ (Pending(sn)' <=> Pending(sn))
    BY <2>1, DispatchKeeps
  <2>4. Producers(sn)' = Producers(sn)
    BY <1>2, <1>5, <2>1 DEF Producers
  <2>5. memDepHash'[sn].memDeps = Cardinality(Producers(sn)')
    BY <2>1, <2>2, <2>4 DEF HashOK
  <2>6. /\ sn \in instList' /\ sn > done' /\ (IsMemRef(sn)' \/ IsBarrier(sn)') /\ Pending(sn)'
        /\ (IsMemRef(sn)' => (memDepHash'[sn].regsReady <=> ~WaitsReg(sn)'))
    BY <1>3, <2>1, <2>2, <2>3 DEF HashOK
  <2>7. memDepHash'[sn].dependInsts # {} => Kind(sn)' \in {"store", "barrier"}
    <3>1. CASE sn \in S
      BY <1>2, <2>3, <3>1
    <3>2. CASE sn \notin S
      BY <2>1, <2>2, <2>3, <3>2 DEF HashOK
    <3> QED BY <3>1, <3>2
  <2>8. ASSUME NEW c \in memDepHash'[sn].dependInsts
        PROVE  sn < c /\ c < nextSn' /\ (c \in DOMAIN inst' => IsMemRef(c)')
    <3>1. c \in memDepHash[sn].dependInsts \/ (c = n /\ sn \in S)
      BY <2>2
    <3>2. CASE c \in memDepHash[sn].dependInsts
      <4>1. sn < c /\ c < nextSn /\ (c \in DOMAIN inst => IsMemRef(c))
        BY <2>1, <3>2 DEF HashOK
      <4>2. c \in Nat
        BY <2>1, <3>2 DEF HashOK, EntryType
      <4>3. c < nextSn' /\ c # n
        BY <1>2, <1>3, <4>1, <4>2
      <4>4. c \in DOMAIN inst' => c \in DOMAIN inst
        BY <4>3, DispatchKeeps
      <4> QED BY <4>1, <4>3, <4>4, DispatchKeeps
    <3>3. CASE c = n /\ sn \in S
      <4>1. IsMemRef(n)'
        BY <1>3, <3>3, DispatchNew
      <4> QED BY <1>2, <1>3, <2>1, <3>3, <4>1
    <3> QED BY <3>1, <3>2, <3>3
  <2> QED BY <2>2, <2>5, <2>6, <2>7, <2>8 DEF HashOK
<1>8. ASSUME InHash(op) PROVE HashOK(n)'
  <2>1. /\ memDepHash'[n] \in EntryType /\ memDepHash'[n].memDeps = Cardinality(S)
        /\ (memDepHash'[n].regsReady <=> op.kind # "barrier" /\ W = {})
        /\ memDepHash'[n].dependInsts = {}
    BY <1>8, <1>0 DEF HashGrows
  <2>2. /\ (IsMemRef(n)' <=> op.kind \in {"load", "store"}) /\ (IsBarrier(n)' <=> op.kind = "barrier")
        /\ (WaitsReg(n)' <=> W # {}) /\ Pending(n)'
    BY DispatchNew
  <2>3. Producers(n)' = S
    <3>1. \A s \in DOMAIN memDepHash' : n \in memDepHash'[s].dependInsts <=> s \in S
      <4> TAKE s \in DOMAIN memDepHash'
      <4>1. CASE s = n
        BY <1>2, <2>1, <4>1
      <4>2. CASE s # n
        <5>1. s \in DOMAIN memDepHash
          BY <1>5, <4>2
        <5> QED BY <1>5, <1>6, <5>1
      <4> QED BY <4>1, <4>2
    <3>2. S \subseteq DOMAIN memDepHash'
      BY <1>2, <1>5
    <3> QED BY <3>1, <3>2 DEF Producers
  <2>4. n \in instList' /\ n > done' /\ (IsMemRef(n)' \/ IsBarrier(n)')
    BY <1>2, <1>3, <1>8, <2>2, ShapeFacts, <1>1 DEF InHash
  <2>5. IsMemRef(n)' => (memDepHash'[n].regsReady <=> ~WaitsReg(n)')
    BY <2>1, <2>2
  <2> QED BY <2>1, <2>2, <2>3, <2>4, <2>5 DEF HashOK
<1> QED BY <1>5, <1>7, <1>8

LEMMA DispatchHashInv ==
  ASSUME IqInv, NEW n, NEW op, NEW W, NEW S, Dispatches(n, op, W, S)
  PROVE  HashInv'
<1>0. HashGrows(n, op, W, S)
  BY DispatchHash
<1>1. Shape /\ HashInv
  BY DEF IqInv
<1>2. instList' = instList \cup {n}
  BY DEF Dispatches
<1>3. /\ DOMAIN memDepHash' = DOMAIN memDepHash \cup (IF InHash(op) THEN {n} ELSE {})
      /\ memDepHash' = [s \in DOMAIN memDepHash' |-> memDepHash'[s]]
  BY <1>0 DEF HashGrows
<1>4. ASSUME NEW sn \in instList', IsMemRef(sn)' \/ IsBarrier(sn)', inst'[sn].wb = "no"
      PROVE  sn \in DOMAIN memDepHash'
  <2>1. CASE sn \in instList
    <3>1. sn \in DOMAIN inst
      BY <1>1, <2>1, ShapeFacts
    <3>2. /\ inst'[sn] = inst[sn] /\ (IsMemRef(sn)' <=> IsMemRef(sn))
          /\ (IsBarrier(sn)' <=> IsBarrier(sn))
      BY <3>1, DispatchKeeps
    <3>3. sn \in DOMAIN memDepHash
      BY <1>1, <1>4, <2>1, <3>2 DEF HashInv
    <3> QED BY <1>3, <3>3
  <2>2. CASE sn = n
    <3>1. InHash(op)
      BY <1>4, <2>2, DispatchNew DEF InHash
    <3> QED BY <1>3, <2>2, <3>1
  <2> QED BY <1>2, <2>1, <2>2
<1> QED BY <1>3, <1>4, DispatchHashOK DEF HashInv

LEMMA DispatchBarriers ==
  ASSUME IqInv, NEW n, NEW op, NEW W, NEW S, Dispatches(n, op, W, S)
  PROVE  BarrierInv'
<1>0. HashGrows(n, op, W, S)
  BY DispatchHash
<1>1. Shape /\ HashInv /\ BarrierInv /\ PlaceInv
  BY DEF IqInv
<1>2. /\ n \in Nat /\ n \notin DOMAIN inst /\ n \notin DOMAIN memDepHash
      /\ \A p \in Places : n \notin At[p]
  BY DispatchFacts
<1>3. /\ barrierSNs' = barrierSNs \cup (IF op.kind = "barrier" THEN {n} ELSE {})
      /\ n = nextSn /\ rob' = Append(rob, n) /\ nonSpecSig' = nonSpecSig
      /\ S = IF op.kind \in {"load", "store"}
             THEN ProducingStores(op.kind, nextPos) \cap DOMAIN memDepHash ELSE {}
  BY DEF Dispatches
<1>4. Range(rob') = Range(rob) \cup {n}
  BY <1>1, <1>2, <1>3, AppendSeq, ShapeFacts
<1>5. /\ DOMAIN memDepHash' = DOMAIN memDepHash \cup (IF InHash(op) THEN {n} ELSE {})
      /\ \A s \in DOMAIN memDepHash :
           memDepHash'[s].dependInsts = memDepHash[s].dependInsts \cup (IF s \in S THEN {n} ELSE {})
  BY <1>0 DEF HashGrows
<1>6. /\ \A sn \in DOMAIN inst : sn \in Nat /\ sn < n
      /\ DOMAIN memDepHash \subseteq DOMAIN inst
  <2>1. DOMAIN memDepHash \subseteq instList
    BY <1>1 DEF HashInv, HashOK
  <2> QED BY <1>1, <1>3, <2>1, ShapeFacts
<1>7. ASSUME NEW sn \in barrierSNs' PROVE sn \in DOMAIN memDepHash' /\ IsBarrier(sn)'
  <2>1. CASE sn \in barrierSNs
    <3>1. sn \in DOMAIN memDepHash /\ IsBarrier(sn)
      BY <1>1, <2>1 DEF BarrierInv
    <3> QED BY <1>5, <1>6, <3>1, DispatchKeeps
  <2>2. CASE sn = n /\ op.kind = "barrier"
    BY <1>5, <2>2, DispatchNew DEF InHash
  <2> QED BY <1>3, <2>1, <2>2
<1>8. ASSUME NEW b \in DOMAIN memDepHash', IsBarrier(b)', inst'[b].wb = "no"
      PROVE  /\ b \in barrierSNs'
             /\ \A c \in DOMAIN memDepHash' : IsMemRef(c)' /\ b < c => c \in memDepHash'[b].dependInsts
  <2>1. CASE b \in DOMAIN memDepHash
    <3>1. IsBarrier(b) /\ inst[b].wb = "no" /\ b \in DOMAIN inst
      BY <1>6, <1>8, <2>1, DispatchKeeps
    <3>2. /\ b \in barrierSNs
          /\ \A c \in DOMAIN memDepHash : IsMemRef(c) /\ b < c => c \in memDepHash[b].dependInsts
      BY <1>1, <2>1, <3>1 DEF BarrierInv
    <3>3. ASSUME NEW c \in DOMAIN memDepHash', IsMemRef(c)', b < c
          PROVE  c \in memDepHash'[b].dependInsts
      <4>1. CASE c \in DOMAIN memDepHash
        <5>1. IsMemRef(c)
          BY <1>6, <3>3, <4>1, DispatchKeeps
        <5> QED BY <1>5, <2>1, <3>2, <3>3, <4>1, <5>1
      <4>2. CASE c = n
        <5>1. op.kind \in {"load", "store"}
          BY <3>3, <4>2, DispatchNew
        <5>2. b \in ProducingStores(op.kind, nextPos)
          BY <3>2 DEF ProducingStores
        <5>3. b \in S
          BY <1>3, <2>1, <5>1, <5>2
        <5> QED BY <1>5, <2>1, <4>2, <5>3
      <4> QED BY <1>5, <4>1, <4>2
    <3> QED BY <1>3, <3>2, <3>3
  <2>2. CASE b = n
    <3>1. op.kind = "barrier"
      BY <1>8, <2>2, DispatchNew
    <3>2. ASSUME NEW c \in DOMAIN memDepHash' PROVE ~(n < c)
      <4>1. c = n \/ c \in DOMAIN inst
        BY <1>5, <1>6
      <4>2. c \in Nat /\ c <= n
        BY <1>2, <1>6, <4>1
      <4> QED BY <1>2, <4>2
    <3> QED BY <1>3, <2>2, <3>1, <3>2
  <2> QED BY <1>5, <2>1, <2>2
<1>9. ASSUME NEW p \in Places \ {"nonSpec"}, NEW sn \in At[p]', IsBarrier(sn)'
      PROVE  \A r \in Range(rob') : sn <= r
  <2>1. sn \in At[p] \/ (sn = n /\ ToReadyList(op, W, S))
    BY DispatchAt
  <2>2. ~(sn = n /\ ToReadyList(op, W, S))
    BY <1>9, DispatchNew DEF ToReadyList
  <2>3. sn \in At[p] /\ sn \in DOMAIN inst
    BY <1>1, <2>1, <2>2 DEF Shape
  <2>4. \A r \in Range(rob) : sn <= r
    BY <1>1, <1>9, <2>3, DispatchKeeps DEF BarrierInv
  <2>5. sn <= n
    BY <1>2, <1>6, <2>3
  <2> QED BY <1>4, <2>4, <2>5
<1>10. nonSpecSig # 0 => \A r \in Range(rob') : nonSpecSig <= r
  <2> HAVE nonSpecSig # 0
  <2>1. nonSpecSig \in At["nonSpec"] /\ \A r \in Range(rob) : nonSpecSig <= r
    BY <1>1, AtIs DEF PlaceInv, BarrierInv
  <2>2. nonSpecSig \in DOMAIN inst
    BY <1>1, <2>1 DEF Shape, Places
  <2>3. nonSpecSig <= n
    BY <1>2, <1>6, <2>2
  <2> QED BY <1>4, <2>1, <2>3
<1> QED BY <1>3, <1>7, <1>8, <1>9, <1>10 DEF BarrierInv

LEMMA DispatchPredictor ==
  ASSUME IqInv, NEW n, NEW op, NEW W, NEW S, Dispatches(n, op, W, S)
  PROVE  PredictorInv'
<1>1. Shape /\ PredictorInv
  BY DEF IqInv
<1>2. n \in Nat /\ nextPos \in Nat
  BY DispatchFacts
<1>3. n = nextSn /\ nextSn' = nextSn + 1
      /\ depPred' = IF op.kind = "store" THEN InsertStore(depPred, nextPos, n) ELSE depPred
  BY DEF Dispatches
<1>4. \A s \in SSIDs : depPred.LFST[s] \in Nat /\ depPred.LFST[s] < n
  BY <1>1, <1>3 DEF PredictorInv, PredictorOK
<1>5. /\ PredictorOK(depPred')
      /\ \A s \in SSIDs : \/ depPred'.LFST[s] = depPred.LFST[s]
                          \/ depPred'.LFST[s] = n /\ op.kind = "store"
  <2>1. CASE op.kind = "store"
    <3>1. PICK p, q, pc : p = depPred /\ q = depPred' /\ pc = nextPos
      OBVIOUS
    <3>2. q = InsertStore(p, pc, n) /\ pc \in Nat /\ PredictorOK(p)
      BY <1>1, <1>2, <1>3, <2>1, <3>1 DEF PredictorInv
    <3>3. \A s \in SSIDs : p.LFST[s] <= n
      BY <1>2, <1>4, <3>1
    <3>4. PredictorOK(q) /\ \A s \in SSIDs : q.LFST[s] \in {p.LFST[s], n}
      BY <1>2, <3>2, <3>3, InsertStoreOK
    <3> QED BY <2>1, <3>1, <3>4
  <2>2. CASE op.kind # "store"
    BY <1>1, <1>3, <2>2 DEF PredictorInv
  <2> QED BY <2>1, <2>2
<1>6. ASSUME NEW s \in SSIDs, NEW x, x = depPred'.LFST[s]
      PROVE  x < nextSn' /\ (x \in DOMAIN inst' => Kind(x)' = "store")
  <2>1. CASE x = depPred.LFST[s]
    <3>1. x \in Nat /\ x < n /\ (x \in DOMAIN inst => Kind(x) = "store")
      BY <1>1, <1>4, <2>1 DEF PredictorInv
    <3>2. x < nextSn' /\ x # n
      BY <1>2, <1>3, <3>1
    <3>3. x \in DOMAIN inst' => x \in DOMAIN inst
      BY <3>2, DispatchKeeps
    <3>4. x \in DOMAIN inst' => Kind(x)' = "store"
      BY <3>1, <3>3, DispatchKeeps
    <3> QED BY <3>2, <3>4
  <2>2. CASE x = n /\ op.kind = "store"
    <3>1. Kind(n)' = "store" /\ n < nextSn'
      BY <1>2, <1>3, <2>2, DispatchNew
    <3> QED BY <2>2, <3>1
  <2> QED BY <1>5, <1>6, <2>1, <2>2
<1>7. \A s \in SSIDs : \A x : x = depPred'.LFST[s] =>
        x < nextSn' /\ (x \in DOMAIN inst' => sc'.prog[inst'[x].pos].kind = "store")
  BY <1>6 DEF Kind, OpOf
<1> QED BY <1>5, <1>7 DEF PredictorInv, Kind, OpOf

LEMMA DispatchUnits ==
  ASSUME IqInv, NEW n, NEW op, NEW W, NEW S, Dispatches(n, op, W, S)
  PROVE  UnitInv' /\ EntriesConserved'
<1>1. Shape /\ UnitInv /\ EntriesConserved
  BY DEF IqInv
<1>2. UnitInv'
  <2>1. UNCHANGED <<inUnit, unitBusy, unitsToBeFreed, sc>>
    BY DEF Dispatches
  <2>2. inUnit \subseteq DOMAIN inst
    BY <1>1, AtIs DEF Shape, Places
  <2>3. \A sn \in inUnit : Kind(sn)' = Kind(sn)
    BY <2>2, DispatchKeeps
  <2>4. ASSUME NEW k \in Kinds
        PROVE  {sn \in inUnit' : Kind(sn)' = k} = {sn \in inUnit : Kind(sn) = k}
    BY <2>1, <2>3
  <2> QED BY <1>1, <2>1, <2>4 DEF UnitInv, UnitsConserved
<1>3. EntriesConserved'
  <2>1. PICK A : A = {sn \in instList : InQueue(sn)}
    OBVIOUS
  <2>2. instList' = instList \cup {n} /\ freeEntries' = freeEntries - 1
    BY DEF Dispatches
  <2>3. instList \subseteq DOMAIN inst /\ n \notin instList
    BY <1>1, ShapeFacts, DispatchFacts
  <2>4. \A sn \in instList : InQueue(sn)' <=> InQueue(sn)
    BY <2>3, DispatchKeeps
  <2>5. InQueue(n)'
    BY DispatchNew
  <2>6. {sn \in instList' : InQueue(sn)'} = A \cup {n}
    BY <2>1, <2>2, <2>4, <2>5
  <2>7. A \subseteq DOMAIN inst /\ n \notin A
    BY <2>1, <2>3
  <2>8. Cardinality(A) \in Nat /\ Cardinality(A \cup {n}) = Cardinality(A) + 1
    BY <1>1, <2>7, InstSubsets
  <2>9. freeEntries + Cardinality(A) = NumEntries /\ freeEntries \in Nat
    BY <1>1, <2>1 DEF EntriesConserved, Shape
  <2>10. (freeEntries - 1) + (Cardinality(A) + 1) = NumEntries
    BY <2>8, <2>9
  <2> QED BY <2>2, <2>6, <2>8, <2>10 DEF EntriesConserved
<1> QED BY <1>2, <1>3

LEMMA DispatchShape ==
  ASSUME IqInv, NEW n, NEW op, NEW W, NEW S, Dispatches(n, op, W, S)
  PROVE  Shape'
<1>1. Shape
  BY DEF IqInv
<1>2. /\ UNCHANGED <<sc, deferred, blocked, retry, instsToExecute, sent, done, nonSpecSig, orderIt>>
      /\ UNCHANGED <<walk, iewSquash, iewSquashNow, squashed, squashSig, iewQueue>>
      /\ UNCHANGED <<inRunahead, cause, exitRunahead>>
      /\ phase' = "dispatch" /\ nextSn' = nextSn + 1 /\ nextPos' = nextPos + 1
      /\ n = nextSn /\ rob' = Append(rob, n) /\ instList' = instList \cup {n}
      /\ freeEntries' = freeEntries - 1 /\ freeEntries > 0
      /\ nextPos \in DOMAIN sc.prog
      /\ inst' = [sn \in DOMAIN inst' |-> inst'[sn]]
  BY DEF Dispatches
<1>3. /\ n \in Nat /\ n > 0 /\ n \notin DOMAIN inst
  BY DispatchFacts
<1>4. DOMAIN inst' = DOMAIN inst \cup {n} /\ \A sn \in DOMAIN inst : inst'[sn] = inst[sn]
  BY DispatchKeeps
<1>5. inst'[n] \in InstType /\ inst'[n].pos = nextPos
  BY DispatchNew
<1>6. /\ rob \in Seq(Nat) /\ Ascending(rob) /\ Range(rob) \subseteq DOMAIN inst
      /\ \A sn \in DOMAIN inst : sn \in Nat /\ sn < n
  BY <1>1, <1>2, ShapeFacts
<1>7. /\ rob' \in Seq(Nat) /\ Ascending(rob') /\ Range(rob') \subseteq DOMAIN inst'
  <2>1. \A x \in Range(rob) : x < n
    BY <1>6
  <2>2. Append(rob, n) \in Seq(Nat) /\ Range(Append(rob, n)) = Range(rob) \cup {n}
    BY <1>3, <1>6, AppendSeq
  <2>3. Ascending(Append(rob, n))
    BY <1>3, <1>6, <2>1, AppendAscending
  <2> QED BY <1>2, <1>4, <1>6, <2>2, <2>3
<1>8. DOMAIN inst' \subseteq 1..(nextSn' - 1)
  BY <1>2, <1>3, <1>4, <1>1 DEF Shape
<1>9. \A sn \in DOMAIN inst' : inst'[sn] \in InstType /\ inst'[sn].pos \in DOMAIN sc.prog
  BY <1>1, <1>2, <1>4, <1>5 DEF Shape
<1>10. \A s \in Lists' : s \in Seq(Nat) /\ Distinct(s)
  BY <1>1, <1>2, ListsAre, ListsNext
<1>11. \A p \in Places : At[p]' \subseteq DOMAIN inst'
  <2> TAKE p \in Places
  <2>1. At[p]' \subseteq At[p] \cup {n}
    BY DispatchAt
  <2> QED BY <1>1, <1>4, <2>1 DEF Shape
<1>12. /\ nextSn' \in Nat \ {0} /\ nextPos' \in Nat \ {0} /\ freeEntries' \in Nat
  BY <1>1, <1>2 DEF Shape
<1>13. /\ phase' \in Phases /\ sc' \in Scenarios /\ instList' \subseteq DOMAIN inst'
       /\ sent' \subseteq DOMAIN inst' /\ {walk', squashSig', squashed'} \subseteq Signal
       /\ RedirectOK(iewSquash') /\ RedirectOK(iewSquashNow')
       /\ done' \in Nat /\ nonSpecSig' \in Nat /\ orderIt' \in Nat
       /\ {inRunahead', exitRunahead'} \subseteq BOOLEAN
       /\ (exitRunahead' => inRunahead') /\ cause'.pos \in Nat /\ (inRunahead' => cause'.pos > 0)
  <2>1. Phases = Phases' /\ "dispatch" \in Phases
    BY DEF Phases
  <2>2. /\ sc \in Scenarios /\ instList \subseteq DOMAIN inst
        /\ sent \subseteq DOMAIN inst /\ {walk, squashSig, squashed} \subseteq Signal
        /\ RedirectOK(iewSquash) /\ RedirectOK(iewSquashNow)
        /\ done \in Nat /\ nonSpecSig \in Nat /\ orderIt \in Nat
        /\ {inRunahead, exitRunahead} \subseteq BOOLEAN
        /\ (exitRunahead => inRunahead) /\ cause.pos \in Nat /\ (inRunahead => cause.pos > 0)
    BY <1>1 DEF Shape
  <2> QED BY <1>2, <1>4, <2>1, <2>2
<1> QED BY <1>2, <1>7, <1>8, <1>9, <1>10, <1>11, <1>12, <1>13 DEF Shape

LEMMA DispatchStep ==
  ASSUME IqInv, Dispatch
  PROVE  IqInv'
<1>1. PICK n, op, W, S : Dispatches(n, op, W, S)
  BY DispatchIs
<1>2. Shape' /\ ReadyInv' /\ PlaceInv' /\ Somewhere' /\ FlagInv' /\ SignalInv'
  BY <1>1, DispatchShape, DispatchReadyInv, DispatchPlaces, DispatchFlags, DispatchSignals
<1>3. LiveInv' /\ RobInv' /\ GraphInv' /\ HashInv' /\ BarrierInv'
  BY <1>1, DispatchLive, DispatchRob, DispatchGraph, DispatchHashInv, DispatchBarriers
<1>4. PredictorInv' /\ UnitInv' /\ EntriesConserved'
  BY <1>1, DispatchPredictor, DispatchUnits
<1> QED BY <1>2, <1>3, <1>4 DEF IqInv

-----------------------------------------------------------------------------
(* An instruction is written back *)

\* sn wakes the consumers of its register, E, and the instructions that wait for
\* it, a store or a barrier, D; or nobody.
Gives(sn, G, E, D) ==
  /\ sn \in Range(iewQueue) /\ G = IF Wakes(sn) THEN {sn} ELSE {}
  /\ E = {d[2] : d \in {e \in dependGraph : e[1] \in G}}
  /\ D = {c \in DOMAIN memDepHash : \E s \in G : s \in Producers(c)}

LEMMA ProducersFinite ==
  ASSUME Shape, HashInv, NEW c
  PROVE  /\ IsFiniteSet(Producers(c)) /\ Cardinality(Producers(c)) \in Nat
         /\ (Cardinality(Producers(c)) = 0 <=> Producers(c) = {})
<1>1. Producers(c) \subseteq DOMAIN inst
  <2>1. DOMAIN memDepHash \subseteq instList /\ instList \subseteq DOMAIN inst
    BY ShapeFacts DEF HashInv, HashOK
  <2> QED BY <2>1 DEF Producers
<1>2. Bounded(Producers(c))
  BY <1>1, InstSubsets
<1> QED BY <1>2, FiniteMax

LEMMA WritesBackIs ==
  ASSUME IqInv, NEW sn, sn \in Range(iewQueue)
  PROVE  /\ sn \in DOMAIN inst /\ sn \in Nat /\ sn \in At["commit"] /\ PlaceOK("commit", sn)
         /\ inst[sn] \in InstType /\ inst[sn].wb = "no" /\ inst[sn].executed
         /\ ~inst[sn].memOpDone /\ ~WaitsReg(sn) /\ ~WaitsMem(sn)
         /\ Wakes(sn) => inst[sn].issued /\ (IsMemRef(sn) => sn \in instList)
<1>1. Shape /\ PlaceInv /\ FlagInv
  BY DEF IqInv
<1>2. sn \in At["commit"] /\ "commit" \in Places
  BY AtIs DEF Places
<1>3. sn \in DOMAIN inst /\ PlaceOK("commit", sn)
  BY <1>1, <1>2 DEF Shape, PlaceInv
<1>4. sn \in Nat /\ inst[sn] \in InstType /\ FlagOK(sn)
  BY <1>1, <1>3, ShapeFacts DEF FlagInv
<1>5. inst[sn].wb = "no" /\ inst[sn].executed /\ ~WaitsReg(sn) /\ ~WaitsMem(sn)
  BY <1>3 DEF PlaceOK
<1>6. ~inst[sn].memOpDone
  BY <1>4, <1>5 DEF FlagOK
<1>7. Wakes(sn) => inst[sn].issued /\ (IsMemRef(sn) => sn \in instList)
  BY <1>3 DEF Wakes, PlaceOK, Unissued
<1> QED BY <1>2, <1>3, <1>4, <1>5, <1>6, <1>7

Waiting(sn, G, E, D) ==
  /\ \A c \in E : /\ c \in instList /\ c \in DOMAIN inst /\ ~IsBarrier(c) /\ WaitsReg(c)
                  /\ sn \in G /\ <<sn, c>> \in dependGraph /\ HasDest(OpOf(sn))
  /\ \A c \in D : /\ c \in instList /\ c \in DOMAIN inst /\ IsMemRef(c) /\ WaitsMem(c)
                  /\ c \in DOMAIN memDepHash /\ sn \in G /\ sn \in DOMAIN memDepHash
                  /\ c \in memDepHash[sn].dependInsts /\ Kind(sn) \in {"store", "barrier"}
  /\ \A c \in E \cup D : /\ c # sn /\ \A p \in Places : c \notin At[p]
                         /\ ~inst[c].issued /\ ~inst[c].executed /\ inst[c].wb = "no"
  /\ E = {} \/ D = {}

\* These wait, so that they are nowhere yet; a store gives no register.
LEMMA WaitersAre ==
  ASSUME IqInv, NEW sn, NEW G, NEW E, NEW D, Gives(sn, G, E, D)
  PROVE  Waiting(sn, G, E, D)
<1>1. Shape /\ PlaceInv /\ FlagInv /\ GraphInv /\ HashInv
  BY DEF IqInv
<1>2. instList \subseteq DOMAIN inst
  BY <1>1, ShapeFacts
<1>3. ASSUME NEW c \in E
      PROVE  /\ c \in instList /\ c \in DOMAIN inst /\ ~IsBarrier(c) /\ WaitsReg(c)
             /\ sn \in G /\ <<sn, c>> \in dependGraph /\ HasDest(OpOf(sn))
  <2>1. PICK d \in dependGraph : d[1] \in G /\ d[2] = c
    BY DEF Gives
  <2>2. d[1] = sn /\ sn \in G
    BY <2>1 DEF Gives
  <2>3. EdgeOK(d) /\ d \in Nat \X Nat
    BY <1>1 DEF GraphInv
  <2>4. d = <<sn, c>>
    BY <2>1, <2>2, <2>3
  <2>5. c \in instList /\ ~IsBarrier(c) /\ HasDest(OpOf(sn))
    BY <2>1, <2>2, <2>3 DEF EdgeOK
  <2>6. d \in EdgesTo(c)
    BY <2>1 DEF EdgesTo
  <2>7. inst[c].unready = Cardinality(EdgesTo(c))
    BY <1>1, <2>5 DEF GraphInv
  <2>8. Cardinality(EdgesTo(c)) \in Nat /\ Cardinality(EdgesTo(c)) # 0
    BY <1>1, <2>6, EdgesFinite
  <2>9. WaitsReg(c)
    BY <2>7, <2>8 DEF WaitsReg
  <2> QED BY <1>2, <2>1, <2>2, <2>4, <2>5, <2>9
<1>4. ASSUME NEW c \in D
      PROVE  /\ c \in instList /\ c \in DOMAIN inst /\ IsMemRef(c) /\ WaitsMem(c)
             /\ c \in DOMAIN memDepHash /\ sn \in G /\ sn \in DOMAIN memDepHash
             /\ c \in memDepHash[sn].dependInsts /\ Kind(sn) \in {"store", "barrier"}
  <2>1. c \in DOMAIN memDepHash /\ sn \in G /\ sn \in Producers(c)
    BY DEF Gives
  <2>2. sn \in DOMAIN memDepHash /\ c \in memDepHash[sn].dependInsts
    BY <2>1 DEF Producers
  <2>3. HashOK(c) /\ HashOK(sn)
    BY <1>1, <2>1, <2>2 DEF HashInv
  <2>4. c \in instList /\ c \in DOMAIN inst
    BY <1>2, <2>3 DEF HashOK
  <2>5. IsMemRef(c) /\ Kind(sn) \in {"store", "barrier"}
    BY <2>2, <2>3, <2>4 DEF HashOK
  <2>6. memDepHash[c].memDeps = Cardinality(Producers(c))
    BY <2>3 DEF HashOK
  <2>7. Cardinality(Producers(c)) \in Nat /\ Cardinality(Producers(c)) # 0
    BY <1>1, <2>1, ProducersFinite
  <2>8. WaitsMem(c)
    BY <2>1, <2>6, <2>7 DEF WaitsMem
  <2> QED BY <2>1, <2>2, <2>4, <2>5, <2>8
<1>5. ASSUME NEW c \in E \cup D
      PROVE  /\ c # sn /\ \A p \in Places : c \notin At[p]
             /\ ~inst[c].issued /\ ~inst[c].executed /\ inst[c].wb = "no"
  <2>1. (WaitsReg(c) \/ WaitsMem(c)) /\ c \in instList
    BY <1>3, <1>4
  <2>2. \A p \in Places : c \notin At[p]
    BY <1>1, <2>1 DEF PlaceInv, PlaceOK
  <2>3. c # sn
    BY <2>1, WritesBackIs DEF Gives
  <2>4. WaitOK(c)
    BY <1>1, <2>1 DEF FlagInv
  <2> QED BY <2>1, <2>2, <2>3, <2>4 DEF WaitOK
<1>6. E = {} \/ D = {}
  <2> SUFFICES ASSUME NEW c \in E, NEW e \in D PROVE FALSE
    OBVIOUS
  <2>1. HasDest(OpOf(sn)) /\ Kind(sn) \in {"store", "barrier"}
    BY <1>3, <1>4
  <2> QED BY <2>1 DEF HasDest, Kind
<1> QED BY <1>3, <1>4, <1>5, <1>6 DEF Waiting

\* What a step of writebackInsts does: T are those that wait no longer.
Woken(E, D, T) == T = {c \in E \cup D : ~WaitsReg(c)' /\ ~WaitsMem(c)'}

InstsWritten(sn, G, E) ==
  /\ inst' = [c \in DOMAIN inst' |-> inst'[c]] /\ DOMAIN inst' = DOMAIN inst
  /\ \A c \in DOMAIN inst : c # sn =>
       inst'[c] = [inst[c] EXCEPT !.unready = IF c \in E THEN @ - 1 ELSE @]
  /\ inst'[sn] = [inst[sn] EXCEPT !.memOpDone = IF sn \in G THEN IsMemRef(sn) ELSE @, !.wb = "fresh"]

HashWritten(G, E, D) ==
  /\ memDepHash' = [s \in DOMAIN memDepHash' |-> memDepHash'[s]]
  /\ DOMAIN memDepHash' = DOMAIN memDepHash \ G
  /\ \A s \in DOMAIN memDepHash' :
       memDepHash'[s] =
         [memDepHash[s] EXCEPT !.regsReady = @ \/ (s \in E /\ inst[s].unready = 1),
                               !.memDeps = IF s \in D THEN @ - 1 ELSE @]

ReadyWritten(T) ==
  /\ ReadyOK(ready')
  /\ \A j \in Kinds : Range(ready'.insts[j]) = Range(ready.insts[j]) \cup {c \in T : Kind(c) = j}

Writes(sn, G, E, D, T) ==
  /\ Gives(sn, G, E, D) /\ phase = "writeback" /\ phase' = phase
  /\ QueueOK(iewQueue') /\ Range(iewQueue') = Range(iewQueue) \ {sn}
  /\ InstsWritten(sn, G, E) /\ HashWritten(G, E, D) /\ Woken(E, D, T) /\ ReadyWritten(T)
  /\ barrierSNs' = barrierSNs \ G /\ regScoreboard' = regScoreboard \ G
  /\ dependGraph' = {d \in dependGraph : d[1] \notin G}
  /\ freeEntries' = IF sn \in G /\ IsMemRef(sn) THEN freeEntries + 1 ELSE freeEntries
  /\ UNCHANGED <<sc, nextSn, nextPos, rob, instList, nonSpecInsts, deferred, blocked, retry>>
  /\ UNCHANGED <<instsToExecute, inUnit, unitBusy, unitsToBeFreed, orderIt, instsToReplay, depPred>>
  /\ UNCHANGED <<sent, iewSquash, iewSquashNow, squashed, squashSig, walk, robSquashing, done>>
  /\ UNCHANGED <<nonSpecSig, inRunahead, cause, exitRunahead>>

\* What the head of the queue leaves.
LEMMA WritebackFrame ==
  ASSUME IqInv, Writeback, NEW sn, sn = Head(iewQueue)
  PROVE  /\ sn \in Range(iewQueue) /\ phase = "writeback" /\ phase' = phase
         /\ QueueOK(iewQueue') /\ Range(iewQueue') = Range(iewQueue) \ {sn}
         /\ UNCHANGED <<sc, nextSn, nextPos, rob, instList, nonSpecInsts, deferred, blocked, retry>>
         /\ UNCHANGED <<instsToExecute, inUnit, unitBusy, unitsToBeFreed, orderIt, instsToReplay, depPred>>
         /\ UNCHANGED <<sent, iewSquash, iewSquashNow, squashed, squashSig, walk, robSquashing, done>>
         /\ UNCHANGED <<nonSpecSig, inRunahead, cause, exitRunahead>>
<1>1. QueueOK(iewQueue) /\ iewQueue # <<>> /\ iewQueue' = Tail(iewQueue)
  BY ListsAre DEF IqInv, Writeback
<1>2. PICK s : s = iewQueue
  OBVIOUS
<1>3. s \in Seq(Nat) /\ Distinct(s) /\ s # <<>> /\ sn = Head(s)
  BY <1>1, <1>2 DEF QueueOK
<1>4. /\ Tail(s) \in Seq(Nat) /\ Range(s) = Range(Tail(s)) \cup {Head(s)}
      /\ Distinct(Tail(s)) /\ Head(s) \notin Range(Tail(s))
  BY <1>3, TailSeq
<1>5. QueueOK(iewQueue') /\ Range(iewQueue') = Range(iewQueue) \ {sn} /\ sn \in Range(iewQueue)
  BY <1>1, <1>2, <1>3, <1>4 DEF QueueOK
<1> QED BY <1>5 DEF Writeback, lists, fuVars, loopVars, memVars, iewVars, sigVars, modeVars, robVars

LEMMA WritesQuietly ==
  ASSUME IqInv, Writeback, NEW sn, sn = Head(iewQueue), ~Wakes(sn)
  PROVE  Writes(sn, {}, {}, {}, {})
<1>1. /\ Shape /\ ReadyInv /\ HashInv /\ sn \in DOMAIN inst
  BY WritebackFrame, WritesBackIs DEF IqInv
<1>2. /\ inst' = [inst EXCEPT ![sn].wb = "fresh"]
      /\ UNCHANGED <<memDepHash, barrierSNs, ready, freeEntries, dependGraph, regScoreboard>>
  BY DEF Writeback
<1>3. Gives(sn, {}, {}, {})
  BY WritebackFrame DEF Gives
<1>4. InstsWritten(sn, {}, {})
  <2>1. /\ DOMAIN inst' = DOMAIN inst /\ inst' = [c \in DOMAIN inst' |-> inst'[c]]
        /\ \A c \in DOMAIN inst : c # sn => inst'[c] = inst[c]
        /\ inst'[sn] = [inst[sn] EXCEPT !.wb = "fresh"]
    BY <1>1, <1>2 DEF Shape
  <2>2. ASSUME NEW c \in DOMAIN inst
        PROVE  /\ inst[c] = [inst[c] EXCEPT !.unready = @]
               /\ [inst[c] EXCEPT !.wb = "fresh"] = [inst[c] EXCEPT !.memOpDone = @, !.wb = "fresh"]
    <3>1. inst[c] \in InstType
      BY <1>1 DEF Shape
    <3>2. PICK x : x = inst[c]
      OBVIOUS
    <3>3. /\ x = [x EXCEPT !.unready = @]
          /\ [x EXCEPT !.wb = "fresh"] = [x EXCEPT !.memOpDone = @, !.wb = "fresh"]
      <4>1. x \in InstType
        BY <3>1, <3>2
      <4> QED BY ONLY <4>1 DEF InstType
    <3> QED BY <3>2, <3>3
  <2>3. \A c \in DOMAIN inst : c # sn =>
          inst'[c] = [inst[c] EXCEPT !.unready = IF c \in {} THEN @ - 1 ELSE @]
    BY <2>1, <2>2
  <2>4. inst'[sn] = [inst[sn] EXCEPT !.memOpDone = IF sn \in {} THEN IsMemRef(sn) ELSE @, !.wb = "fresh"]
    BY <1>1, <2>1, <2>2
  <2> QED BY <2>1, <2>3, <2>4 DEF InstsWritten
<1>5. HashWritten({}, {}, {})
  <2>1. ASSUME NEW s \in DOMAIN memDepHash
        PROVE  memDepHash[s] = [memDepHash[s] EXCEPT
                 !.regsReady = @ \/ (s \in {} /\ inst[s].unready = 1),
                 !.memDeps = IF s \in {} THEN @ - 1 ELSE @]
    <3>1. PICK x : x = memDepHash[s]
      OBVIOUS
    <3>2. x \in EntryType
      BY <1>1, <3>1 DEF HashInv, HashOK
    <3>3. x.regsReady \in BOOLEAN
      BY <3>2 DEF EntryType
    <3>4. (x.regsReady \/ (s \in {} /\ inst[s].unready = 1)) = x.regsReady
      BY <3>3
    <3>5. x = [x EXCEPT !.regsReady = x.regsReady, !.memDeps = x.memDeps]
      BY ONLY <3>2 DEF EntryType
    <3> QED BY <3>1, <3>4, <3>5
  <2>2. memDepHash = [s \in DOMAIN memDepHash |-> memDepHash[s]]
    BY <1>1 DEF HashInv
  <2> QED BY <1>2, <2>1, <2>2 DEF HashWritten
<1>6. Woken({}, {}, {})
  BY DEF Woken
<1>7. ReadyWritten({})
  BY <1>1, <1>2 DEF ReadyWritten, ReadyInv
<1>8. dependGraph' = {d \in dependGraph : d[1] \notin {}}
  BY <1>2
<1> QED BY <1>2, <1>3, <1>4, <1>5, <1>6, <1>7, <1>8, WritebackFrame DEF Writes

\* Whether what waited waits no more.
LEMMA WaitsAfter ==
  ASSUME IqInv, NEW sn, NEW G, NEW E, NEW D, Gives(sn, G, E, D),
         InstsWritten(sn, G, E), HashWritten(G, E, D)
  PROVE  \A c \in E \cup D :
           /\ WaitsReg(c)' <=> IF c \in E THEN inst[c].unready # 1 ELSE WaitsReg(c)
           /\ WaitsMem(c)' <=> /\ c \in DOMAIN memDepHash
                               /\ IF c \in D THEN memDepHash[c].memDeps # 1
                                  ELSE memDepHash[c].memDeps > 0
<1>1. Shape /\ HashInv
  BY DEF IqInv
<1>0. Waiting(sn, G, E, D)
  BY WaitersAre
<1> TAKE c \in E \cup D
<1>2. c \in DOMAIN inst /\ c # sn /\ inst[c] \in InstType
  BY <1>1, <1>0 DEF Waiting, Shape
<1>3. WaitsReg(c)' <=> IF c \in E THEN inst[c].unready # 1 ELSE WaitsReg(c)
  <2>1. PICK x, y : x = inst[c] /\ y = inst'[c]
    OBVIOUS
  <2>2. y = [x EXCEPT !.unready = IF c \in E THEN @ - 1 ELSE @] /\ x \in InstType
    BY <1>2, <2>1 DEF InstsWritten
  <2>3. y.unready = (IF c \in E THEN x.unready - 1 ELSE x.unready) /\ x.unready \in Nat
    BY ONLY <2>2 DEF InstType
  <2>4. CASE c \in E
    <3>1. x.unready > 0
      BY <2>1, <2>4, <1>0 DEF Waiting, WaitsReg
    <3>2. y.unready > 0 <=> x.unready # 1
      BY <2>3, <2>4, <3>1
    <3> QED BY <2>1, <2>4, <3>2 DEF WaitsReg
  <2>5. CASE c \notin E
    BY <2>1, <2>3, <2>5 DEF WaitsReg
  <2> QED BY <2>4, <2>5
<1>4. WaitsMem(c)' <=> /\ c \in DOMAIN memDepHash
                       /\ IF c \in D THEN memDepHash[c].memDeps # 1
                          ELSE memDepHash[c].memDeps > 0
  <2>1. c \in DOMAIN memDepHash' <=> c \in DOMAIN memDepHash
    BY <1>2 DEF HashWritten, Gives
  <2>2. CASE c \in DOMAIN memDepHash
    <3>1. PICK x, y, b : /\ x = memDepHash[c] /\ y = memDepHash'[c]
                         /\ b = (x.regsReady \/ (c \in E /\ inst[c].unready = 1))
      OBVIOUS
    <3>2. y = [x EXCEPT !.regsReady = b, !.memDeps = IF c \in D THEN @ - 1 ELSE @]
      BY <2>1, <2>2, <3>1 DEF HashWritten
    <3>3. x \in EntryType
      BY <1>1, <2>2, <3>1 DEF HashInv, HashOK
    <3>4. y.memDeps = (IF c \in D THEN x.memDeps - 1 ELSE x.memDeps) /\ x.memDeps \in Int
      BY ONLY <3>2, <3>3 DEF EntryType
    <3>5. CASE c \in D
      <4>1. x.memDeps > 0
        BY <3>1, <3>5, <1>0 DEF Waiting, WaitsMem
      <4>2. y.memDeps > 0 <=> x.memDeps # 1
        BY <3>4, <3>5, <4>1
      <4> QED BY <2>1, <2>2, <3>1, <3>5, <4>2 DEF WaitsMem
    <3>6. CASE c \notin D
      BY <2>1, <2>2, <3>1, <3>4, <3>6 DEF WaitsMem
    <3> QED BY <3>5, <3>6
  <2>3. CASE c \notin DOMAIN memDepHash
    <3>1. c \notin D
      BY <2>3 DEF Gives
    <3> QED BY <2>1, <2>3 DEF WaitsMem
  <2> QED BY <2>2, <2>3
<1> QED BY <1>3, <1>4

LEMMA WritesWaking ==
  ASSUME IqInv, Writeback, NEW sn, sn = Head(iewQueue), Wakes(sn)
  PROVE  \E G, E, D, T : Writes(sn, G, E, D, T)
<1>1. /\ Shape /\ ReadyInv /\ HashInv /\ BarrierInv /\ PlaceInv /\ sn \in DOMAIN inst
      /\ sn \in Range(iewQueue)
  BY WritebackFrame, WritesBackIs DEF IqInv
<1>2. WakeDependents(sn)
  BY DEF Writeback
<1>3. PICK G, E, D : /\ G = {sn} /\ E = {d[2] : d \in {e \in dependGraph : e[1] \in G}}
                     /\ D = {c \in DOMAIN memDepHash : \E s \in G : s \in Producers(c)}
  OBVIOUS
<1>4. Gives(sn, G, E, D)
  BY <1>1, <1>3 DEF Gives
<1>0. Waiting(sn, G, E, D)
  BY <1>4, WaitersAre
<1>5. Consumers(sn) = E
  BY <1>3 DEF Consumers
<1>6. PICK R : R = {c \in E : inst[c].unready = 1}
  OBVIOUS
<1>7. D = IF sn \in DOMAIN memDepHash /\ Kind(sn) \in {"store", "barrier"}
          THEN memDepHash[sn].dependInsts \cap DOMAIN memDepHash ELSE {}
  <2>1. D = {c \in DOMAIN memDepHash : sn \in DOMAIN memDepHash /\ c \in memDepHash[sn].dependInsts}
    BY <1>3 DEF Producers
  <2>2. sn \in DOMAIN memDepHash /\ memDepHash[sn].dependInsts # {} => Kind(sn) \in {"store", "barrier"}
    BY <1>1 DEF HashInv, HashOK
  <2> QED BY <2>1, <2>2
<1>8. PICK hash : hash = [s \in DOMAIN memDepHash |->
                    [memDepHash[s] EXCEPT !.regsReady = @ \/ s \in {c \in R : IsMemRef(c)},
                                          !.memDeps = IF s \in D THEN @ - 1 ELSE @]]
  OBVIOUS
<1>9. PICK N : N = {c \in D : MemReady(memDepHash[c])} \cup (R \ {c \in R : IsMemRef(c)}) \cup
                   {c \in {c \in R : IsMemRef(c)} : memDepHash[c].memDeps = 0}
  OBVIOUS
<1>10. {c \in Consumers(sn) : AllRegsReady(c)} = R
  BY <1>5, <1>6 DEF AllRegsReady
<1>11. /\ memDepHash' = IF IsMemRef(sn) \/ IsBarrier(sn) THEN Restrict(hash, DOMAIN hash \ {sn}) ELSE hash
       /\ barrierSNs' = barrierSNs \ {sn} /\ ready' = AddAllReady(ready, N)
       /\ freeEntries' = (IF IsMemRef(sn) THEN freeEntries + 1 ELSE freeEntries)
       /\ dependGraph' = {d \in dependGraph : d[1] # sn} /\ regScoreboard' = regScoreboard \ {sn}
       /\ inst' = [c \in DOMAIN inst |->
                     IF c = sn THEN [inst[c] EXCEPT !.memOpDone = IsMemRef(sn), !.wb = "fresh"]
                     ELSE [inst[c] EXCEPT !.unready = IF c \in E THEN @ - 1 ELSE @]]
  BY <1>2, <1>5, <1>7, <1>8, <1>9, <1>10 DEF WakeDependents
<1>12. InstsWritten(sn, G, E)
  BY <1>1, <1>3, <1>11 DEF InstsWritten
<1>13. HashWritten(G, E, D)
  <2>1. sn \in DOMAIN memDepHash => IsMemRef(sn) \/ IsBarrier(sn)
    BY <1>1 DEF HashInv, HashOK
  <2>2. DOMAIN hash = DOMAIN memDepHash
    BY <1>8
  <2>3. /\ DOMAIN memDepHash' = DOMAIN memDepHash \ {sn}
        /\ memDepHash' = [s \in DOMAIN memDepHash' |-> memDepHash'[s]]
        /\ \A s \in DOMAIN memDepHash' : memDepHash'[s] = hash[s]
    <3>1. CASE IsMemRef(sn) \/ IsBarrier(sn)
      BY <1>11, <2>2, <3>1 DEF Restrict
    <3>2. CASE ~(IsMemRef(sn) \/ IsBarrier(sn))
      <4>1. memDepHash' = hash
        BY <1>11, <3>2
      <4>2. hash = [s \in DOMAIN hash |-> hash[s]]
        BY <1>8
      <4>3. sn \notin DOMAIN memDepHash
        BY <2>1, <3>2
      <4> QED BY <2>2, <4>1, <4>2, <4>3
    <3> QED BY <3>1, <3>2
  <2>4. ASSUME NEW s \in DOMAIN memDepHash
        PROVE  hash[s] = [memDepHash[s] EXCEPT
                            !.regsReady = @ \/ (s \in E /\ inst[s].unready = 1),
                            !.memDeps = IF s \in D THEN @ - 1 ELSE @]
    <3>1. s \in {c \in R : IsMemRef(c)} <=> (s \in E /\ inst[s].unready = 1)
      <4>1. s \in R <=> s \in E /\ inst[s].unready = 1
        BY <1>6
      <4>2. s \in E => ~IsBarrier(s)
        BY <1>0 DEF Waiting
      <4>3. IsMemRef(s) \/ IsBarrier(s)
        BY <1>1 DEF HashInv, HashOK
      <4> QED BY <4>1, <4>2, <4>3
    <3>2. PICK x, a, b : /\ x = memDepHash[s] /\ a = (x.regsReady \/ s \in {c \in R : IsMemRef(c)})
                         /\ b = (x.regsReady \/ (s \in E /\ inst[s].unready = 1))
      OBVIOUS
    <3>3. hash[s] = [x EXCEPT !.regsReady = a, !.memDeps = IF s \in D THEN @ - 1 ELSE @]
      BY <1>8, <3>2
    <3>4. a = b
      BY <3>1, <3>2
    <3> QED BY <3>2, <3>3, <3>4
  <2> QED BY <1>3, <2>3, <2>4 DEF HashWritten
<1>14. N = {c \in E \cup D : ~WaitsReg(c)' /\ ~WaitsMem(c)'}
  <2>1. N \subseteq E \cup D
    BY <1>6, <1>9
  <2>2. ASSUME NEW c \in E \cup D PROVE c \in N <=> ~WaitsReg(c)' /\ ~WaitsMem(c)'
    <3>1. /\ WaitsReg(c)' <=> IF c \in E THEN inst[c].unready # 1 ELSE WaitsReg(c)
          /\ WaitsMem(c)' <=> /\ c \in DOMAIN memDepHash
                              /\ IF c \in D THEN memDepHash[c].memDeps # 1
                                 ELSE memDepHash[c].memDeps > 0
      BY <1>4, <1>12, <1>13, WaitsAfter
    <3>2. E = {} \/ D = {}
      BY <1>0 DEF Waiting
    <3>3. CASE c \in E
      <4>1. c \notin D /\ ~IsBarrier(c) /\ c \in instList /\ inst[c].wb = "no"
        BY <1>4, <3>2, <3>3, <1>0 DEF Waiting
      <4>2. c \in N <=> c \in R /\ (IsMemRef(c) => memDepHash[c].memDeps = 0)
        BY <1>9, <4>1
      <4>3. c \in DOMAIN memDepHash <=> IsMemRef(c)
        BY <1>1, <4>1 DEF HashInv, HashOK
      <4>4. c \in DOMAIN memDepHash => memDepHash[c].memDeps \in Nat
        BY <1>1, ProducersFinite DEF HashInv, HashOK
      <4>5. c \in DOMAIN memDepHash => (memDepHash[c].memDeps = 0 <=> ~(memDepHash[c].memDeps > 0))
        BY <4>4
      <4> QED BY <1>6, <3>1, <3>3, <4>1, <4>2, <4>3, <4>5
    <3>4. CASE c \in D
      <4>1. c \notin E /\ c \notin R /\ c \in DOMAIN memDepHash /\ IsMemRef(c)
        BY <1>4, <1>6, <3>2, <3>4, <1>0 DEF Waiting
      <4>2. c \in N <=> memDepHash[c].memDeps = 1 /\ memDepHash[c].regsReady
        BY <1>9, <3>4, <4>1 DEF MemReady
      <4>3. memDepHash[c].regsReady <=> ~WaitsReg(c)
        BY <1>1, <4>1 DEF HashInv, HashOK
      <4> QED BY <3>1, <3>4, <4>1, <4>2, <4>3
    <3> QED BY <3>3, <3>4
  <2> QED BY <2>1, <2>2
<1>15. ReadyWritten(N)
  <2>1. \A c \in N : c \in DOMAIN inst /\ c \notin At["ready"]
    BY <1>4, <1>14, <1>0 DEF Waiting, Places
  <2>2. Bounded(N) /\ N \cap ReadySet(ready) = {} /\ \A c \in N : Kind(c) \in Kinds
    BY <1>1, <2>1, InstSubsets, AtIs, ShapeFacts
  <2>3. ReadyOK(ready)
    BY <1>1 DEF ReadyInv
  <2>4. PICK r : r = ready
    OBVIOUS
  <2>5. /\ ReadyOK(AddAllReady(r, N))
        /\ \A j \in Kinds : Range(AddAllReady(r, N).insts[j]) =
                              Range(r.insts[j]) \cup {c \in N : Kind(c) = j}
    BY <2>2, <2>3, <2>4, AddAllReadyOK
  <2> QED BY <1>11, <2>4, <2>5 DEF ReadyWritten
<1>16. Writes(sn, G, E, D, N)
  <2>1. Woken(E, D, N)
    BY <1>14 DEF Woken
  <2>2. /\ barrierSNs' = barrierSNs \ G /\ regScoreboard' = regScoreboard \ G
        /\ dependGraph' = {d \in dependGraph : d[1] \notin G}
        /\ freeEntries' = IF sn \in G /\ IsMemRef(sn) THEN freeEntries + 1 ELSE freeEntries
    BY <1>3, <1>11
  <2> QED BY <1>4, <1>12, <1>13, <1>15, <2>1, <2>2, WritebackFrame DEF Writes
<1> QED BY <1>16

LEMMA WritebackIs ==
  ASSUME IqInv, Writeback
  PROVE  \E sn, G, E, D, T : Writes(sn, G, E, D, T)
<1>1. PICK sn : sn = Head(iewQueue)
  OBVIOUS
<1>2. CASE Wakes(sn)
  BY <1>1, <1>2, WritesWaking
<1>3. CASE ~Wakes(sn)
  BY <1>1, <1>3, WritesQuietly
<1> QED BY <1>2, <1>3

\* What changes of an instruction when sn is written back.
Written(c, sn, G, E) ==
  /\ inst'[c] \in InstType /\ inst'[c].pos = inst[c].pos /\ inst'[c].runahead = inst[c].runahead
  /\ inst'[c].issued = inst[c].issued /\ inst'[c].executed = inst[c].executed
  /\ inst'[c].fault = inst[c].fault /\ inst'[c].squashed = inst[c].squashed
  /\ inst'[c].unready = (IF c \in E THEN inst[c].unready - 1 ELSE inst[c].unready)
  /\ inst'[c].wb = (IF c = sn THEN "fresh" ELSE inst[c].wb)
  /\ c # sn \/ sn \notin G => inst'[c].memOpDone = inst[c].memOpDone
  /\ c = sn /\ sn \in G => inst'[c].memOpDone = IsMemRef(sn)

\* And of what the memory dependence unit knows of it.
Entered(s, E, D) ==
  /\ memDepHash'[s] \in EntryType /\ memDepHash'[s].dependInsts = memDepHash[s].dependInsts
  /\ memDepHash'[s].memDeps = (IF s \in D THEN memDepHash[s].memDeps - 1 ELSE memDepHash[s].memDeps)
  /\ (memDepHash'[s].regsReady <=> memDepHash[s].regsReady \/ (s \in E /\ inst[s].unready = 1))

LEMMA WrittenIs ==
  ASSUME IqInv, NEW sn, NEW G, NEW E, NEW D, NEW T, Writes(sn, G, E, D, T)
  PROVE  /\ DOMAIN inst' = DOMAIN inst /\ \A c \in DOMAIN inst : Written(c, sn, G, E)
         /\ DOMAIN memDepHash' = DOMAIN memDepHash \ G /\ \A s \in DOMAIN memDepHash' : Entered(s, E, D)
<1>1. Shape /\ HashInv /\ Gives(sn, G, E, D) /\ InstsWritten(sn, G, E) /\ HashWritten(G, E, D)
  BY DEF IqInv, Writes
<1>2. Waiting(sn, G, E, D)
  BY <1>1, WaitersAre
<1>3. \A c \in DOMAIN inst : inst[c] \in InstType
  BY <1>1 DEF Shape
<1>4. sn \notin E /\ \A c \in E : WaitsReg(c) /\ c \in DOMAIN inst
  BY <1>2 DEF Waiting
<1>5. ASSUME NEW c \in DOMAIN inst PROVE Written(c, sn, G, E)
  <2>1. PICK x, y, m : x = inst[c] /\ y = inst'[c] /\ m = IsMemRef(sn)
    OBVIOUS
  <2>2. x \in InstType
    BY <1>3, <2>1
  <2>3. CASE c # sn
    <3>1. y = [x EXCEPT !.unready = IF c \in E THEN @ - 1 ELSE @]
      BY <1>1, <2>1, <2>3 DEF InstsWritten
    <3>2. x.unready \in Nat /\ (c \in E => x.unready > 0)
      BY <1>4, <2>1, <2>2, InstTypes DEF WaitsReg
    <3>3. PICK u : u = IF c \in E THEN x.unready - 1 ELSE x.unready
      OBVIOUS
    <3>4. u \in Nat
      BY <3>2, <3>3
    <3>5. y = [x EXCEPT !.unready = u]
      BY <3>1, <3>3
    <3>6. /\ y \in InstType /\ y.pos = x.pos /\ y.runahead = x.runahead /\ y.issued = x.issued
          /\ y.executed = x.executed /\ y.fault = x.fault /\ y.squashed = x.squashed
          /\ y.unready = u /\ y.wb = x.wb /\ y.memOpDone = x.memOpDone
      BY ONLY <2>2, <3>4, <3>5 DEF InstType
    <3> QED BY <2>1, <2>3, <3>3, <3>6 DEF Written
  <2>4. CASE c = sn
    <3>1. PICK b : b = IF sn \in G THEN m ELSE x.memOpDone
      OBVIOUS
    <3>2. y = [x EXCEPT !.memOpDone = b, !.wb = "fresh"]
      BY <1>1, <2>1, <2>4, <3>1 DEF InstsWritten
    <3>5. m \in BOOLEAN
      <4>1. CASE IsMemRef(sn)
        <5>1. IsMemRef(sn) = TRUE
          BY <4>1
        <5> QED BY <2>1, <5>1
      <4>2. CASE ~IsMemRef(sn)
        <5>1. IsMemRef(sn) = FALSE
          BY <4>2 DEF IsMemRef
        <5> QED BY <2>1, <5>1
      <4> QED BY <4>1, <4>2
    <3>6. x.memOpDone \in BOOLEAN
      BY <2>2, InstTypes
    <3>3. b \in BOOLEAN
      BY <3>1, <3>5, <3>6
    <3>4. /\ y \in InstType /\ y.pos = x.pos /\ y.runahead = x.runahead /\ y.issued = x.issued
          /\ y.executed = x.executed /\ y.fault = x.fault /\ y.squashed = x.squashed
          /\ y.unready = x.unready /\ y.wb = "fresh" /\ y.memOpDone = b
      BY ONLY <2>2, <3>2, <3>3 DEF InstType
    <3> QED BY <1>4, <2>1, <2>4, <3>1, <3>4 DEF Written
  <2> QED BY <2>3, <2>4
<1>6. ASSUME NEW s \in DOMAIN memDepHash' PROVE Entered(s, E, D)
  <2>1. s \in DOMAIN memDepHash
    BY <1>1 DEF HashWritten
  <2>2. PICK x, y, b : /\ x = memDepHash[s] /\ y = memDepHash'[s]
                       /\ b = (x.regsReady \/ (s \in E /\ inst[s].unready = 1))
    OBVIOUS
  <2>3. y = [x EXCEPT !.regsReady = b, !.memDeps = IF s \in D THEN @ - 1 ELSE @]
    BY <1>1, <2>2 DEF HashWritten
  <2>4. x \in EntryType
    BY <1>1, <2>1, <2>2 DEF HashInv, HashOK
  <2>5. b \in BOOLEAN
    BY <2>2, <2>4 DEF EntryType
  <2>6. PICK u, z : /\ u = (IF s \in D THEN x.memDeps - 1 ELSE x.memDeps)
                    /\ z = [x EXCEPT !.regsReady = b]
    OBVIOUS
  <2>7. z \in EntryType /\ z.dependInsts = x.dependInsts /\ z.regsReady = b /\ z.memDeps = x.memDeps
    BY ONLY <2>4, <2>5, <2>6 DEF EntryType
  <2>8. y = [z EXCEPT !.memDeps = u]
    BY <2>3, <2>4, <2>6 DEF EntryType
  <2>9. u \in Int
    <3>1. x.memDeps \in Int
      BY <2>4 DEF EntryType
    <3> QED BY <2>6, <3>1
  <2>10. y \in EntryType /\ y.dependInsts = x.dependInsts /\ y.regsReady = b /\ y.memDeps = u
    BY ONLY <2>7, <2>8, <2>9 DEF EntryType
  <2> QED BY <2>2, <2>6, <2>10 DEF Entered
<1> QED BY <1>1, <1>5, <1>6 DEF InstsWritten, HashWritten

\* What stays true of the others.
WriteKept(c, G) ==
  /\ Kind(c)' = Kind(c) /\ OpOf(c)' = OpOf(c) /\ (IsMemRef(c)' <=> IsMemRef(c))
  /\ (IsBarrier(c)' <=> IsBarrier(c)) /\ (WaitsReg(c)' => WaitsReg(c)) /\ (WaitsMem(c)' => WaitsMem(c))
  /\ Pending(c) /\ c \notin G => Pending(c)'

LEMMA WriteKeeps ==
  ASSUME IqInv, NEW sn, NEW G, NEW E, NEW D, NEW T, Writes(sn, G, E, D, T)
  PROVE  /\ \A c \in DOMAIN inst : WriteKept(c, G)
         /\ \A c : InRange(c)' <=> InRange(c)
         /\ \A c \in DOMAIN inst : c \notin E \cup D /\ c \notin G =>
              (WaitsReg(c)' <=> WaitsReg(c)) /\ (WaitsMem(c)' <=> WaitsMem(c))
<1>1. /\ sc' = sc /\ squashed' = squashed /\ Gives(sn, G, E, D) /\ Shape /\ HashInv
  BY DEF Writes, IqInv
<1>2. ASSUME NEW c \in DOMAIN inst
      PROVE  /\ WriteKept(c, G)
             /\ c \notin E \cup D /\ c \notin G =>
                  (WaitsReg(c)' <=> WaitsReg(c)) /\ (WaitsMem(c)' <=> WaitsMem(c))
  <2>1. Written(c, sn, G, E) /\ inst[c] \in InstType
    BY <1>1, WrittenIs DEF Shape
  <2>2. OpOf(c)' = OpOf(c)
    BY <1>1, <2>1 DEF OpOf, Written
  <2>3. Kind(c)' = Kind(c)
    BY <2>2 DEF Kind
  <2>4. (IsMemRef(c)' <=> IsMemRef(c)) /\ (IsBarrier(c)' <=> IsBarrier(c))
    BY <2>3 DEF IsMemRef, IsBarrier
  <2>5. (WaitsReg(c)' => WaitsReg(c)) /\ (c \notin E => (WaitsReg(c)' <=> WaitsReg(c)))
    <3>1. inst[c].unready \in Nat
      BY <2>1, InstTypes
    <3>2. inst'[c].unready = IF c \in E THEN inst[c].unready - 1 ELSE inst[c].unready
      BY <2>1 DEF Written
    <3> QED BY <3>1, <3>2 DEF WaitsReg
  <2>6. (WaitsMem(c)' => WaitsMem(c)) /\ (c \notin D /\ c \notin G => (WaitsMem(c)' <=> WaitsMem(c)))
    <3>1. DOMAIN memDepHash' = DOMAIN memDepHash \ G
      BY WrittenIs
    <3>2. CASE c \in DOMAIN memDepHash'
      <4>1. Entered(c, E, D) /\ c \in DOMAIN memDepHash
        BY <3>1, <3>2, WrittenIs
      <4>2. memDepHash[c].memDeps \in Int
        BY <1>1, <4>1 DEF HashInv, HashOK, EntryType
      <4>3. memDepHash'[c].memDeps = IF c \in D THEN memDepHash[c].memDeps - 1 ELSE memDepHash[c].memDeps
        BY <4>1 DEF Entered
      <4> QED BY <3>2, <4>1, <4>2, <4>3 DEF WaitsMem
    <3>3. CASE c \notin DOMAIN memDepHash'
      BY <3>1, <3>3 DEF WaitsMem
    <3> QED BY <3>2, <3>3
  <2>7. Pending(c) /\ c \notin G => Pending(c)'
    <3>1. CASE c = sn
      <4>1. c \notin G => inst[c].squashed \/ inst[c].fault
        BY <1>1, <3>1 DEF Gives, Wakes
      <4> QED BY <2>1, <4>1 DEF Written, Pending
    <3>2. CASE c # sn
      BY <2>1, <3>2 DEF Written, Pending
    <3> QED BY <3>1, <3>2
  <2> QED BY <2>2, <2>3, <2>4, <2>5, <2>6, <2>7 DEF WriteKept
<1>3. \A c : InRange(c)' <=> InRange(c)
  BY <1>1 DEF InRange
<1> QED BY <1>2, <1>3

\* Those that wait no longer: they go to the ready lists.
LEMMA WokenFacts ==
  ASSUME IqInv, NEW sn, NEW G, NEW E, NEW D, NEW T, Writes(sn, G, E, D, T), NEW c \in T
  PROVE  /\ c \in E \cup D /\ c \in instList /\ c \in DOMAIN inst /\ c # sn
         /\ ~IsBarrier(c) /\ Kind(c) \in Kinds /\ c \notin G
         /\ ~inst[c].issued /\ ~inst[c].executed /\ inst[c].wb = "no"
         /\ ~WaitsReg(c)' /\ ~WaitsMem(c)' /\ \A p \in Places : c \notin At[p]
<1>1. Waiting(sn, G, E, D) /\ Shape /\ Gives(sn, G, E, D)
  BY WaitersAre DEF Writes, IqInv
<1>2. c \in E \cup D /\ ~WaitsReg(c)' /\ ~WaitsMem(c)'
  BY DEF Writes, Woken
<1>3. c \in instList /\ c \in DOMAIN inst /\ (~IsBarrier(c) \/ IsMemRef(c)) /\ c # sn
      /\ ~inst[c].issued /\ ~inst[c].executed /\ inst[c].wb = "no" /\ \A p \in Places : c \notin At[p]
  BY <1>1, <1>2 DEF Waiting
<1>4. ~IsBarrier(c)
  BY <1>3 DEF IsBarrier, IsMemRef
<1>5. Kind(c) \in Kinds
  BY <1>1, <1>3, ShapeFacts
<1>6. c \notin G
  BY <1>1, <1>3 DEF Gives
<1> QED BY <1>2, <1>3, <1>4, <1>5, <1>6

LEMMA WriteAt ==
  ASSUME IqInv, NEW sn, NEW G, NEW E, NEW D, NEW T, Writes(sn, G, E, D, T)
  PROVE  \A p \in Places :
           At[p]' = (At[p] \ (IF p = "commit" THEN {sn} ELSE {})) \cup (IF p = "ready" THEN T ELSE {})
<1>1. ReadySet(ready') = ReadySet(ready) \cup T
  <2>1. \A j \in Kinds : Range(ready'.insts[j]) = Range(ready.insts[j]) \cup {c \in T : Kind(c) = j}
    BY DEF Writes, ReadyWritten
  <2>2. \A c \in T : Kind(c) \in Kinds
    BY WokenFacts
  <2> QED BY <2>1, <2>2 DEF ReadySet
<1>2. Range(iewQueue') = Range(iewQueue) \ {sn}
  BY DEF Writes
<1>3. UNCHANGED <<deferred, blocked, retry, nonSpecInsts, instsToExecute, inUnit, instsToReplay, sent>>
  BY DEF Writes
<1>4. {s \in sent' : ~inst'[s].executed} = {s \in sent : ~inst[s].executed}
  <2>1. sent \subseteq DOMAIN inst
    BY DEF IqInv, Shape
  <2>2. \A c \in DOMAIN inst : inst'[c].executed = inst[c].executed
    BY WrittenIs DEF Written
  <2> QED BY <1>3, <2>1, <2>2
<1> TAKE p \in Places
<1>5. CASE p = "ready"
  BY <1>1, <1>5, AtIs, AtIsNext
<1>6. CASE p = "commit"
  BY <1>2, <1>6, AtIs, AtIsNext
<1>7. CASE p = "memory"
  BY <1>4, <1>7, AtIs, AtIsNext
<1>8. CASE p \notin {"ready", "commit", "memory"}
  <2>1. At[p]' = At[p]
    BY <1>3, <1>8, PlacesAre, AtIs, AtIsNext
  <2> QED BY <1>8, <2>1
<1> QED BY <1>5, <1>6, <1>7, <1>8

LEMMA WriteReadyInv ==
  ASSUME IqInv, NEW sn, NEW G, NEW E, NEW D, NEW T, Writes(sn, G, E, D, T)
  PROVE  ReadyInv'
<1>1. Shape /\ ReadyInv
  BY DEF IqInv
<1>2. /\ ReadyOK(ready')
      /\ \A j \in Kinds : Range(ready'.insts[j]) = Range(ready.insts[j]) \cup {c \in T : Kind(c) = j}
  BY DEF Writes, ReadyWritten
<1>3. ASSUME NEW k \in Kinds, NEW c \in Range(ready'.insts[k]) PROVE Kind(c)' = k
  <2>1. c \in Range(ready.insts[k]) \/ (c \in T /\ Kind(c) = k)
    BY <1>2
  <2>2. c \in DOMAIN inst /\ Kind(c) = k
    BY <1>1, <2>1, ReadyKinds, WokenFacts
  <2> QED BY <2>2, WriteKeeps DEF WriteKept
<1> QED BY <1>2, <1>3 DEF ReadyInv

LEMMA WritePlaces ==
  ASSUME IqInv, NEW sn, NEW G, NEW E, NEW D, NEW T, Writes(sn, G, E, D, T)
  PROVE  PlaceInv'
<1>1. Shape /\ PlaceInv
  BY DEF IqInv
<1>2. instList' = instList /\ nonSpecSig' = nonSpecSig /\ phase' = "writeback" /\ nonSpecInsts' = nonSpecInsts
  BY DEF Writes
<1>3. PlacesApart'
  <2> SUFFICES ASSUME NEW p \in Places, NEW q \in Places, p # q PROVE At[p]' \cap At[q]' = {}
    BY DEF PlacesApart
  <2>1. At[p] \cap At[q] = {}
    BY <1>1 DEF PlaceInv, PlacesApart
  <2>2. \A c \in T : c \notin At[p] /\ c \notin At[q]
    BY WokenFacts
  <2>3. /\ At[p]' = (At[p] \ (IF p = "commit" THEN {sn} ELSE {})) \cup (IF p = "ready" THEN T ELSE {})
        /\ At[q]' = (At[q] \ (IF q = "commit" THEN {sn} ELSE {})) \cup (IF q = "ready" THEN T ELSE {})
    BY WriteAt
  <2> QED BY <2>1, <2>2, <2>3
<1>4. ASSUME NEW p \in Places, NEW c \in At[p]' PROVE PlaceOK(p, c)'
  <2>1. (c \in At[p] /\ (p = "commit" => c # sn)) \/ (p = "ready" /\ c \in T)
    BY WriteAt
  <2>2. CASE c \in At[p] /\ (p = "commit" => c # sn)
    <3>1. PlaceOK(p, c) /\ c \in DOMAIN inst
      BY <1>1, <2>2 DEF PlaceInv, Shape
    <3>2. Written(c, sn, G, E) /\ WriteKept(c, G)
      BY <3>1, WrittenIs, WriteKeeps
    <3>3. c # sn
      <4>1. sn \in At["commit"] /\ "commit" \in Places
        BY WritesBackIs DEF Writes, Gives, Places
      <4> QED BY <1>1, <2>2, <4>1 DEF PlaceInv, PlacesApart
    <3>4. /\ inst'[c].wb = inst[c].wb /\ inst'[c].executed = inst[c].executed
          /\ inst'[c].squashed = inst[c].squashed /\ inst'[c].issued = inst[c].issued
      BY <3>2, <3>3 DEF Written
    <3>5. /\ Kind(c)' = Kind(c) /\ (IsMemRef(c)' <=> IsMemRef(c))
          /\ (WaitsReg(c)' => WaitsReg(c)) /\ (WaitsMem(c)' => WaitsMem(c))
      BY <3>2 DEF WriteKept
    <3> QED BY <1>2, <3>1, <3>4, <3>5 DEF PlaceOK, Fits
  <2>3. CASE p = "ready" /\ c \in T
    <3>1. /\ c \in instList /\ c \in DOMAIN inst /\ c # sn
          /\ ~inst[c].issued /\ ~inst[c].executed /\ inst[c].wb = "no"
          /\ ~WaitsReg(c)' /\ ~WaitsMem(c)'
      BY <2>3, WokenFacts
    <3>2. Written(c, sn, G, E)
      BY <3>1, WrittenIs
    <3>3. ~inst'[c].issued /\ ~inst'[c].executed /\ inst'[c].wb = "no"
      BY <3>1, <3>2 DEF Written
    <3>4. Fits(p, Kind(c)')
      BY <2>3 DEF Fits
    <3>5. p \in Unissued /\ p # "commit" /\ p \notin {"replay", "nonSpec"}
      BY <2>3 DEF Unissued
    <3> QED BY <1>2, <3>1, <3>3, <3>4, <3>5 DEF PlaceOK
  <2> QED BY <2>1, <2>2, <2>3
<1>5. nonSpecSig' # 0 => nonSpecSig' \in nonSpecInsts' /\ phase' # "commit"
  BY <1>1, <1>2 DEF PlaceInv
<1> QED BY <1>3, <1>4, <1>5 DEF PlaceInv

LEMMA WriteFlags ==
  ASSUME IqInv, NEW sn, NEW G, NEW E, NEW D, NEW T, Writes(sn, G, E, D, T)
  PROVE  Somewhere' /\ FlagInv'
<1>1. Shape /\ Somewhere /\ FlagInv /\ Gives(sn, G, E, D) /\ Waiting(sn, G, E, D)
  BY WaitersAre DEF IqInv, Writes
<1>2. instList' = instList /\ instList \subseteq DOMAIN inst /\ DOMAIN inst' = DOMAIN inst
  BY <1>1, ShapeFacts, WrittenIs DEF Writes
<1>3. \A c \in DOMAIN inst : Written(c, sn, G, E) /\ WriteKept(c, G)
  BY WrittenIs, WriteKeeps
<1>4. /\ inst[sn].executed /\ inst[sn].wb = "no" /\ ~WaitsReg(sn) /\ ~WaitsMem(sn)
      /\ (Wakes(sn) => inst[sn].issued) /\ sn \in DOMAIN inst
  BY <1>1, WritesBackIs DEF Gives
<1>5. ASSUME NEW c \in instList PROVE SomewhereOK(c)' /\ WaitOK(c)'
  <2>1. SomewhereOK(c) /\ WaitOK(c) /\ c \in DOMAIN inst
    BY <1>1, <1>2 DEF Somewhere, FlagInv
  <2>2. /\ inst'[c].squashed = inst[c].squashed /\ inst'[c].executed = inst[c].executed
        /\ inst'[c].issued = inst[c].issued /\ inst'[c].wb = (IF c = sn THEN "fresh" ELSE inst[c].wb)
        /\ (WaitsReg(c)' => WaitsReg(c)) /\ (WaitsMem(c)' => WaitsMem(c))
    BY <1>3, <2>1 DEF Written, WriteKept
  <2>3. WaitOK(c)'
    BY <1>4, <2>1, <2>2 DEF WaitOK
  <2>4. SomewhereOK(c)'
    <3> SUFFICES ASSUME ~inst'[c].squashed, inst'[c].wb = "no"
                 PROVE  \/ \E p \in Places : c \in At[p]'
                        \/ ~inst'[c].executed /\ (WaitsReg(c)' \/ WaitsMem(c)')
      BY DEF SomewhereOK
    <3>1. c # sn /\ inst[c].wb = "no" /\ ~inst[c].squashed
      BY <2>2
    <3>2. CASE \E p \in Places : c \in At[p]
      <4>1. PICK p \in Places : c \in At[p]
        BY <3>2
      <4>2. c \in At[p]'
        BY <3>1, <4>1, WriteAt
      <4> QED BY <4>2
    <3>3. CASE c \in E \cup D
      <4>1. ~inst'[c].executed
        BY <1>1, <2>2, <3>3 DEF Waiting
      <4>2. CASE c \in T
        <5>1. c \in At["ready"]' /\ "ready" \in Places
          BY <4>2, WriteAt DEF Places
        <5> QED BY <5>1
      <4>3. CASE c \notin T
        BY <3>3, <4>1, <4>3 DEF Writes, Woken
      <4> QED BY <4>2, <4>3
    <3>4. CASE c \notin E \cup D /\ ~ \E p \in Places : c \in At[p]
      <4>1. ~inst[c].executed /\ (WaitsReg(c) \/ WaitsMem(c))
        BY <2>1, <3>1, <3>4 DEF SomewhereOK
      <4>2. c \notin G
        BY <1>1, <3>1 DEF Gives
      <4>3. (WaitsReg(c)' <=> WaitsReg(c)) /\ (WaitsMem(c)' <=> WaitsMem(c))
        BY <2>1, <3>4, <4>2, WriteKeeps
      <4> QED BY <2>2, <4>1, <4>3
    <3> QED BY <3>2, <3>3, <3>4
  <2> QED BY <2>3, <2>4
<1>6. ASSUME NEW c \in DOMAIN inst PROVE FlagOK(c)'
  <2>1. FlagOK(c) /\ Written(c, sn, G, E) /\ (IsMemRef(c)' <=> IsMemRef(c))
    BY <1>1, <1>3 DEF FlagInv, WriteKept
  <2>2. CASE c # sn
    BY <2>1, <2>2 DEF FlagOK, Written
  <2>3. CASE c = sn /\ sn \in G
    <3>1. inst'[c].memOpDone = IsMemRef(sn) /\ inst'[c].wb = "fresh"
      BY <2>1, <2>3 DEF Written
    <3>2. inst'[c].issued /\ inst'[c].executed
      BY <1>1, <1>4, <2>1, <2>3 DEF Written, Gives
    <3>3. inst'[c].wb # "no" /\ (IsMemRef(c)' => inst'[c].memOpDone)
      BY <2>1, <2>3, <3>1
    <3> QED BY <3>2, <3>3 DEF FlagOK
  <2>4. CASE c = sn /\ sn \notin G
    <3>1. inst[sn].squashed \/ inst[sn].fault
      BY <1>1, <2>4 DEF Gives, Wakes
    <3>2. inst'[c].squashed \/ inst'[c].fault
      BY <2>1, <2>4, <3>1 DEF Written
    <3>3. inst'[c].executed /\ inst'[c].wb # "no"
      BY <1>4, <2>1, <2>4 DEF Written
    <3> QED BY <3>2, <3>3 DEF FlagOK
  <2> QED BY <2>2, <2>3, <2>4
<1> QED BY <1>2, <1>5, <1>6 DEF Somewhere, FlagInv

LEMMA WriteRob ==
  ASSUME IqInv, NEW sn, NEW G, NEW E, NEW D, NEW T, Writes(sn, G, E, D, T)
  PROVE  SignalInv' /\ LiveInv' /\ RobInv'
<1>1. Shape /\ SignalInv /\ LiveInv /\ RobInv
  BY DEF IqInv
<1>2. /\ UNCHANGED <<nextSn, rob, instList, squashed, squashSig, walk, robSquashing, done, nonSpecSig, inRunahead>>
      /\ phase' = phase
  BY DEF Writes
<1>3. /\ Range(rob) \subseteq DOMAIN inst /\ instList \subseteq DOMAIN inst /\ DOMAIN inst' = DOMAIN inst
      /\ \A c \in DOMAIN inst : c \in Nat
  BY <1>1, ShapeFacts, WrittenIs
<1>4. \A c \in DOMAIN inst : Written(c, sn, G, E) /\ WriteKept(c, G)
  BY WrittenIs, WriteKeeps
<1>5. \A c : InRange(c)' <=> InRange(c)
  BY WriteKeeps
<1>6. SignalInv'
  BY <1>1, <1>2 DEF SignalInv
<1>7. LiveInv'
  <2>1. Live' = Live /\ Listed' = Listed
    BY <1>2 DEF Live, Listed
  <2>2. ASSUME NEW c \in Live PROVE LiveOK(c)'
    <3>1. c \in DOMAIN inst /\ LiveOK(c)
      BY <1>1, <1>3 DEF Live, LiveInv
    <3>2. inst'[c].squashed = inst[c].squashed /\ inst'[c].runahead = inst[c].runahead
      BY <1>4, <3>1 DEF Written
    <3> QED BY <1>2, <1>5, <3>1, <3>2 DEF LiveOK
  <2> QED BY <1>1, <2>1, <2>2 DEF LiveInv
<1>8. ASSUME NEW c \in instList PROVE ListedOK(c)'
  <2>1. ListedOK(c) /\ c \in DOMAIN inst /\ Written(c, sn, G, E) /\ (IsMemRef(c)' <=> IsMemRef(c))
    BY <1>1, <1>3, <1>4 DEF RobInv, WriteKept
  <2>2. inst'[c].squashed = inst[c].squashed
    BY <2>1 DEF Written
  <2>3. c <= done => inst'[c].wb # "no" /\ ~InQueue(c)'
    <3> SUFFICES ASSUME c <= done PROVE inst'[c].wb # "no" /\ ~InQueue(c)'
      OBVIOUS
    <3>1. inst[c].wb # "no" /\ ~InQueue(c)
      BY <2>1 DEF ListedOK
    <3>2. c # sn
      BY <3>1, WritesBackIs DEF Writes, Gives
    <3>3. /\ inst'[c].wb = inst[c].wb /\ inst'[c].issued = inst[c].issued
          /\ inst'[c].memOpDone = inst[c].memOpDone
      BY <2>1, <3>2 DEF Written
    <3> QED BY <2>1, <3>1, <3>3 DEF InQueue
  <2> QED BY <1>2, <2>1, <2>2, <2>3 DEF ListedOK
<1>9. ASSUME NEW c \in DOMAIN inst' \ instList' PROVE UnlistedOK(c)'
  <2>1. UnlistedOK(c) /\ c \in DOMAIN inst
    BY <1>1, <1>2, <1>3 DEF RobInv
  <2>2. inst'[c].squashed = inst[c].squashed /\ (inst[c].wb # "no" => inst'[c].wb # "no")
    BY <1>4, <2>1 DEF Written
  <2> QED BY <1>2, <1>5, <2>1, <2>2 DEF UnlistedOK
<1>10. RobInv'
  BY <1>1, <1>2, <1>8, <1>9 DEF RobInv
<1> QED BY <1>6, <1>7, <1>10

LEMMA WriteGraph ==
  ASSUME IqInv, NEW sn, NEW G, NEW E, NEW D, NEW T, Writes(sn, G, E, D, T)
  PROVE  GraphInv'
<1>1. Shape /\ GraphInv /\ Gives(sn, G, E, D) /\ Waiting(sn, G, E, D)
  BY WaitersAre DEF IqInv, Writes
<1>2. /\ UNCHANGED <<nextSn, rob, instList, done>>
      /\ regScoreboard' = regScoreboard \ G /\ dependGraph' = {d \in dependGraph : d[1] \notin G}
  BY DEF Writes
<1>3. Range(rob) \subseteq DOMAIN inst /\ instList \subseteq DOMAIN inst
  BY <1>1, ShapeFacts
<1>4. \A c \in DOMAIN inst : Written(c, sn, G, E) /\ WriteKept(c, G)
  BY WrittenIs, WriteKeeps
<1>5. ASSUME NEW d \in dependGraph' PROVE d \in Nat \X Nat /\ EdgeOK(d)'
  <2>1. d \in dependGraph /\ d[1] \notin G
    BY <1>2
  <2>2. EdgeOK(d) /\ d \in Nat \X Nat
    BY <1>1, <2>1 DEF GraphInv
  <2>3. d[1] \in DOMAIN inst /\ d[2] \in DOMAIN inst /\ d[1] \in regScoreboard'
    BY <1>2, <1>3, <2>1, <2>2 DEF EdgeOK
  <2>4. PICK a, b : a = d[1] /\ b = d[2]
    OBVIOUS
  <2>5. WriteKept(a, G) /\ WriteKept(b, G) /\ a \notin G
    BY <1>4, <2>1, <2>3, <2>4
  <2>6. /\ OpOf(a)' = OpOf(a) /\ (IsBarrier(b)' <=> IsBarrier(b)) /\ (Pending(a) => Pending(a)')
    BY <2>5 DEF WriteKept
  <2>7. /\ a < b /\ a > done' /\ {a, b} \subseteq instList' /\ a \in regScoreboard'
        /\ Pending(a)' /\ HasDest(OpOf(a)') /\ ~IsBarrier(b)'
    BY <1>2, <2>2, <2>3, <2>4, <2>6 DEF EdgeOK
  <2> QED BY <2>2, <2>4, <2>7 DEF EdgeOK
<1>6. ASSUME NEW c \in instList PROVE inst'[c].unready = Cardinality(EdgesTo(c)')
  <2>1. c \in DOMAIN inst /\ inst[c].unready = Cardinality(EdgesTo(c))
    BY <1>1, <1>3 DEF GraphInv
  <2>2. inst'[c].unready = IF c \in E THEN inst[c].unready - 1 ELSE inst[c].unready
    BY <1>4, <2>1 DEF Written
  <2>3. \A d \in EdgesTo(c) : d = <<d[1], c>>
    BY <1>1 DEF EdgesTo, GraphInv
  <2>4. EdgesTo(c)' = {d \in EdgesTo(c) : d[1] \notin G}
    BY <1>2 DEF EdgesTo
  <2>5. CASE c \in E
    <3>1. sn \in G /\ <<sn, c>> \in dependGraph
      BY <1>1, <2>5 DEF Waiting
    <3>2. G = {sn} /\ <<sn, c>> \in EdgesTo(c)
      BY <1>1, <3>1 DEF Gives, EdgesTo
    <3>3. EdgesTo(c)' = EdgesTo(c) \ {<<sn, c>>}
      BY <2>3, <2>4, <3>2
    <3>4. IsFiniteSet(EdgesTo(c))
      BY <1>1, EdgesFinite
    <3>5. PICK U : U = EdgesTo(c)
      OBVIOUS
    <3>6. Cardinality(U \ {<<sn, c>>}) = Cardinality(U) - 1
      BY <3>2, <3>4, <3>5, FS_RemoveElement
    <3> QED BY <2>1, <2>2, <2>5, <3>3, <3>5, <3>6
  <2>6. CASE c \notin E
    <3>1. \A d \in EdgesTo(c) : d[1] \notin G
      BY <1>1, <2>6 DEF Gives, EdgesTo
    <3>2. EdgesTo(c)' = EdgesTo(c)
      BY <2>4, <3>1
    <3> QED BY <2>1, <2>2, <2>6, <3>2
  <2> QED BY <2>5, <2>6
<1>7. ASSUME NEW c \in instList, ~IsBarrier(c)' PROVE SourcesOK(c)'
  <2>1. c \in DOMAIN inst /\ WriteKept(c, G)
    BY <1>3, <1>4
  <2>2. ~IsBarrier(c) /\ OpOf(c)' = OpOf(c)
    BY <1>7, <2>1 DEF WriteKept
  <2>3. SourcesOK(c)
    BY <1>1, <2>2 DEF GraphInv
  <2> SUFFICES ASSUME NEW r \in Range(rob'), r < c, inst'[r].pos \in OpOf(c)'.src, r \in regScoreboard'
               PROVE  <<r, c>> \in dependGraph'
    BY DEF SourcesOK
  <2>4. r \in Range(rob) /\ r \in DOMAIN inst /\ r \in regScoreboard /\ r \notin G
    BY <1>2, <1>3
  <2>5. inst'[r].pos = inst[r].pos
    BY <1>4, <2>4 DEF Written
  <2>6. <<r, c>> \in dependGraph
    BY <2>2, <2>3, <2>4, <2>5 DEF SourcesOK
  <2> QED BY <1>2, <2>4, <2>6
<1>8. ASSUME NEW r \in Range(rob'), r \in regScoreboard' PROVE Pending(r)' /\ HasDest(OpOf(r)')
  <2>1. r \in Range(rob) /\ r \in DOMAIN inst /\ r \in regScoreboard /\ r \notin G
    BY <1>2, <1>3, <1>8
  <2>2. Pending(r) /\ HasDest(OpOf(r)) /\ WriteKept(r, G)
    BY <1>1, <1>4, <2>1 DEF GraphInv
  <2> QED BY <2>1, <2>2 DEF WriteKept
<1>9. \A r \in regScoreboard' : r \in Nat /\ r < nextSn'
  BY <1>1, <1>2 DEF GraphInv
<1>10. \A d \in dependGraph' : EdgeOK(d)'
  BY <1>5
<1> QED BY <1>2, <1>5, <1>6, <1>7, <1>8, <1>9, <1>10 DEF GraphInv

LEMMA WriteHashOK ==
  ASSUME IqInv, NEW sn, NEW G, NEW E, NEW D, NEW T, Writes(sn, G, E, D, T),
         NEW s, s \in DOMAIN memDepHash'
  PROVE  HashOK(s)'
<1>1. Shape /\ HashInv /\ Gives(sn, G, E, D) /\ Waiting(sn, G, E, D)
  BY WaitersAre DEF IqInv, Writes
<1>2. UNCHANGED <<nextSn, instList, done>>
  BY DEF Writes
<1>3. /\ DOMAIN inst' = DOMAIN inst /\ DOMAIN memDepHash' = DOMAIN memDepHash \ G
      /\ \A c \in DOMAIN inst : Written(c, sn, G, E) /\ WriteKept(c, G)
      /\ \A t \in DOMAIN memDepHash' : Entered(t, E, D)
  BY WrittenIs, WriteKeeps
<1>4. s \in DOMAIN memDepHash /\ s \notin G /\ HashOK(s)
  BY <1>1, <1>3 DEF HashInv
<1>5. s \in instList /\ s \in DOMAIN inst
  BY <1>1, <1>4, ShapeFacts DEF HashOK
<1>6. /\ Kind(s)' = Kind(s) /\ (IsMemRef(s)' <=> IsMemRef(s)) /\ (IsBarrier(s)' <=> IsBarrier(s))
      /\ Pending(s)'
  BY <1>3, <1>4, <1>5 DEF WriteKept, HashOK
<1>7. Entered(s, E, D)
  BY <1>3
<1>8. memDepHash'[s].memDeps = Cardinality(Producers(s)')
  <2>1. \A t \in DOMAIN memDepHash' : memDepHash'[t].dependInsts = memDepHash[t].dependInsts
    BY <1>3 DEF Entered
  <2>2. Producers(s)' = Producers(s) \ G
    BY <1>3, <2>1 DEF Producers
  <2>3. memDepHash[s].memDeps = Cardinality(Producers(s))
    BY <1>4 DEF HashOK
  <2>4. memDepHash'[s].memDeps = IF s \in D THEN memDepHash[s].memDeps - 1 ELSE memDepHash[s].memDeps
    BY <1>7 DEF Entered
  <2>5. CASE s \in D
    <3>1. sn \in G /\ sn \in DOMAIN memDepHash /\ s \in memDepHash[sn].dependInsts
      BY <1>1, <2>5 DEF Waiting
    <3>2. G = {sn} /\ sn \in Producers(s)
      BY <1>1, <3>1 DEF Gives, Producers
    <3>3. IsFiniteSet(Producers(s))
      BY <1>1, ProducersFinite
    <3>4. PICK U : U = Producers(s)
      OBVIOUS
    <3>5. Cardinality(U \ {sn}) = Cardinality(U) - 1
      BY <3>2, <3>3, <3>4, FS_RemoveElement
    <3> QED BY <2>2, <2>3, <2>4, <2>5, <3>2, <3>4, <3>5
  <2>6. CASE s \notin D
    <3>1. \A t \in G : t \notin Producers(s)
      BY <1>1, <1>4, <2>6 DEF Gives
    <3>2. Producers(s)' = Producers(s)
      BY <2>2, <3>1
    <3> QED BY <2>3, <2>4, <2>6, <3>2
  <2> QED BY <2>5, <2>6
<1>9. IsMemRef(s)' => (memDepHash'[s].regsReady <=> ~WaitsReg(s)')
  <2> SUFFICES ASSUME IsMemRef(s)' PROVE memDepHash'[s].regsReady <=> ~WaitsReg(s)'
    OBVIOUS
  <2>1. memDepHash[s].regsReady <=> ~WaitsReg(s)
    BY <1>4, <1>6 DEF HashOK
  <2>2. memDepHash'[s].regsReady <=> memDepHash[s].regsReady \/ (s \in E /\ inst[s].unready = 1)
    BY <1>7 DEF Entered
  <2>3. inst'[s].unready = IF s \in E THEN inst[s].unready - 1 ELSE inst[s].unready
    BY <1>3, <1>5 DEF Written
  <2>4. inst[s].unready \in Nat /\ (s \in E => WaitsReg(s))
    BY <1>1, <1>5, InstTypes DEF Waiting, Shape
  <2>5. WaitsReg(s)' <=> inst'[s].unready > 0
    BY DEF WaitsReg
  <2>6. WaitsReg(s) <=> inst[s].unready > 0
    BY DEF WaitsReg
  <2>7. CASE s \in E
    <3>1. WaitsReg(s)' <=> inst[s].unready # 1
      BY <2>3, <2>4, <2>5, <2>6, <2>7
    <3> QED BY <2>1, <2>2, <2>4, <2>7, <3>1
  <2>8. CASE s \notin E
    <3>1. WaitsReg(s)' <=> WaitsReg(s)
      BY <2>3, <2>5, <2>6, <2>8
    <3> QED BY <2>1, <2>2, <2>8, <3>1
  <2> QED BY <2>7, <2>8
<1>10. memDepHash'[s] \in EntryType /\ memDepHash'[s].dependInsts = memDepHash[s].dependInsts
  BY <1>7 DEF Entered
<1>11. ASSUME NEW c \in memDepHash'[s].dependInsts
       PROVE  s < c /\ c < nextSn' /\ (c \in DOMAIN inst' => IsMemRef(c)')
  <2>1. s < c /\ c < nextSn /\ (c \in DOMAIN inst => IsMemRef(c))
    BY <1>4, <1>10 DEF HashOK
  <2> QED BY <1>2, <1>3, <2>1 DEF WriteKept
<1>12. memDepHash'[s].dependInsts # {} => Kind(s)' \in {"store", "barrier"}
  BY <1>4, <1>6, <1>10 DEF HashOK
<1>13. /\ memDepHash'[s] \in EntryType'
       /\ s \in instList' /\ s > done' /\ (IsMemRef(s)' \/ IsBarrier(s)') /\ Pending(s)'
  BY <1>2, <1>4, <1>5, <1>6, <1>10 DEF HashOK, EntryType
<1> QED BY <1>8, <1>9, <1>11, <1>12, <1>13 DEF HashOK

LEMMA WriteHash ==
  ASSUME IqInv, NEW sn, NEW G, NEW E, NEW D, NEW T, Writes(sn, G, E, D, T)
  PROVE  HashInv'
<1>1. Shape /\ HashInv /\ Gives(sn, G, E, D)
  BY DEF IqInv, Writes
<1>2. instList' = instList /\ memDepHash' = [s \in DOMAIN memDepHash' |-> memDepHash'[s]]
  BY DEF Writes, HashWritten
<1>3. ASSUME NEW c \in instList', IsMemRef(c)' \/ IsBarrier(c)', inst'[c].wb = "no"
      PROVE  c \in DOMAIN memDepHash'
  <2>1. c \in instList /\ c \in DOMAIN inst
    BY <1>1, <1>2, ShapeFacts
  <2>2. Written(c, sn, G, E) /\ WriteKept(c, G)
    BY <2>1, WrittenIs, WriteKeeps
  <2>3. c # sn /\ inst[c].wb = "no"
    BY <1>3, <2>2 DEF Written
  <2>4. IsMemRef(c) \/ IsBarrier(c)
    BY <1>3, <2>2 DEF WriteKept
  <2>5. c \in DOMAIN memDepHash
    BY <1>1, <2>1, <2>3, <2>4 DEF HashInv
  <2>6. c \notin G
    BY <1>1, <2>3 DEF Gives
  <2> QED BY <2>5, <2>6, WrittenIs
<1>4. \A s \in DOMAIN memDepHash' : HashOK(s)'
  BY WriteHashOK
<1> QED BY <1>2, <1>3, <1>4 DEF HashInv

LEMMA WriteBarriers ==
  ASSUME IqInv, NEW sn, NEW G, NEW E, NEW D, NEW T, Writes(sn, G, E, D, T)
  PROVE  BarrierInv'
<1>1. Shape /\ HashInv /\ BarrierInv /\ Gives(sn, G, E, D)
  BY DEF IqInv, Writes
<1>2. rob' = rob /\ nonSpecSig' = nonSpecSig /\ barrierSNs' = barrierSNs \ G
  BY DEF Writes
<1>3. /\ DOMAIN inst' = DOMAIN inst /\ DOMAIN memDepHash' = DOMAIN memDepHash \ G
      /\ \A c \in DOMAIN inst : Written(c, sn, G, E) /\ WriteKept(c, G)
      /\ \A t \in DOMAIN memDepHash' : Entered(t, E, D)
  BY WrittenIs, WriteKeeps
<1>4. ASSUME NEW s \in DOMAIN memDepHash
      PROVE  s \in DOMAIN inst /\ (IsMemRef(s)' <=> IsMemRef(s)) /\ (IsBarrier(s)' <=> IsBarrier(s))
  <2>1. s \in DOMAIN inst
    BY <1>1, ShapeFacts DEF HashInv, HashOK
  <2> QED BY <1>3, <2>1 DEF WriteKept
<1>5. \A s \in barrierSNs' : s \in DOMAIN memDepHash' /\ IsBarrier(s)'
  BY <1>1, <1>2, <1>3, <1>4 DEF BarrierInv
<1>6. ASSUME NEW b \in DOMAIN memDepHash', IsBarrier(b)', inst'[b].wb = "no"
      PROVE  /\ b \in barrierSNs'
             /\ \A c \in DOMAIN memDepHash' : IsMemRef(c)' /\ b < c => c \in memDepHash'[b].dependInsts
  <2>1. b \in DOMAIN memDepHash /\ b \notin G /\ b \in DOMAIN inst /\ IsBarrier(b)
    BY <1>3, <1>4, <1>6
  <2>2. Written(b, sn, G, E) /\ Entered(b, E, D)
    BY <1>3, <2>1
  <2>3. inst[b].wb = "no" /\ memDepHash'[b].dependInsts = memDepHash[b].dependInsts
    <3>1. b # sn
      BY <1>6, <2>2 DEF Written
    <3> QED BY <1>6, <2>2, <3>1 DEF Written, Entered
  <2>4. b \in barrierSNs /\ \A c \in DOMAIN memDepHash : IsMemRef(c) /\ b < c => c \in memDepHash[b].dependInsts
    BY <1>1, <2>1, <2>3 DEF BarrierInv
  <2>5. ASSUME NEW c \in DOMAIN memDepHash', IsMemRef(c)', b < c PROVE c \in memDepHash'[b].dependInsts
    BY <1>3, <1>4, <2>3, <2>4, <2>5
  <2> QED BY <1>2, <2>1, <2>4, <2>5
<1>7. ASSUME NEW p \in Places \ {"nonSpec"}, NEW c \in At[p]', IsBarrier(c)'
      PROVE  \A r \in Range(rob') : c <= r
  <2>1. c \in At[p] \/ c \in T
    BY WriteAt
  <2>2. c \in DOMAIN inst
    BY <1>1, <2>1, WokenFacts DEF Shape
  <2>3. IsBarrier(c)
    BY <1>3, <1>7, <2>2 DEF WriteKept
  <2>4. c \in At[p]
    BY <2>1, <2>3, WokenFacts
  <2> QED BY <1>1, <1>2, <2>3, <2>4 DEF BarrierInv
<1>8. nonSpecSig' # 0 => \A r \in Range(rob') : nonSpecSig' <= r
  BY <1>1, <1>2 DEF BarrierInv
<1> QED BY <1>5, <1>6, <1>7, <1>8 DEF BarrierInv

LEMMA WriteUnits ==
  ASSUME IqInv, NEW sn, NEW G, NEW E, NEW D, NEW T, Writes(sn, G, E, D, T)
  PROVE  PredictorInv' /\ UnitInv' /\ EntriesConserved'
<1>1. Shape /\ PredictorInv /\ UnitInv /\ EntriesConserved /\ Gives(sn, G, E, D)
  BY DEF IqInv, Writes
<1>2. /\ UNCHANGED <<sc, nextSn, instList, depPred, inUnit, unitBusy, unitsToBeFreed>>
      /\ freeEntries' = IF sn \in G /\ IsMemRef(sn) THEN freeEntries + 1 ELSE freeEntries
  BY DEF Writes
<1>3. /\ DOMAIN inst' = DOMAIN inst /\ instList \subseteq DOMAIN inst
      /\ \A c \in DOMAIN inst : Written(c, sn, G, E)
      /\ \A c \in DOMAIN inst : Kind(c)' = Kind(c) /\ (IsMemRef(c)' <=> IsMemRef(c))
  BY <1>1, WrittenIs, WriteKeeps, ShapeFacts DEF WriteKept
<1>4. PredictorInv'
  BY <1>1, <1>2, <1>3 DEF PredictorInv
<1>5. UnitInv'
  <2>1. inUnit \subseteq DOMAIN inst
    BY <1>1, AtIs DEF Shape, Places
  <2>2. ASSUME NEW k \in Kinds
        PROVE  {c \in inUnit' : Kind(c)' = k} = {c \in inUnit : Kind(c) = k}
    BY <1>2, <1>3, <2>1
  <2> QED BY <1>1, <1>2, <2>2 DEF UnitInv, UnitsConserved
<1>6. EntriesConserved'
  <2>1. PICK Q : Q = {c \in instList : InQueue(c)}
    OBVIOUS
  <2>2. Q \subseteq DOMAIN inst /\ freeEntries \in Nat
    BY <1>1, <1>3, <2>1 DEF Shape
  <2>3. freeEntries + Cardinality(Q) = NumEntries
    BY <1>1, <2>1 DEF EntriesConserved
  <2>4. /\ inst[sn].executed /\ ~inst[sn].memOpDone /\ sn \in DOMAIN inst
        /\ (Wakes(sn) => inst[sn].issued /\ (IsMemRef(sn) => sn \in instList))
    BY <1>1, WritesBackIs DEF Gives
  <2>5. \A c \in instList : c # sn \/ sn \notin G => (InQueue(c)' <=> InQueue(c))
    BY <1>3 DEF InQueue, Written
  <2>6. CASE sn \in G /\ IsMemRef(sn)
    <3>1. sn \in instList /\ inst[sn].issued
      BY <1>1, <2>4, <2>6 DEF Gives
    <3>2. sn \in Q
      BY <2>1, <2>4, <2>6, <3>1 DEF InQueue
    <3>3. ~InQueue(sn)'
      <4>1. inst'[sn].memOpDone = IsMemRef(sn) /\ inst'[sn].issued = inst[sn].issued
        BY <1>3, <2>4, <2>6 DEF Written
      <4>2. inst'[sn].memOpDone
        BY <2>6, <4>1
      <4> QED BY <3>1, <4>1, <4>2 DEF InQueue
    <3>4. {c \in instList' : InQueue(c)'} = Q \ {sn}
      BY <1>2, <2>1, <2>5, <3>3
    <3>5. Cardinality(Q \ {sn}) = Cardinality(Q) - 1 /\ Cardinality(Q) \in Nat
      BY <1>1, <2>2, <3>2, InstSubsets
    <3>6. freeEntries' + Cardinality(Q \ {sn}) = NumEntries
      BY <1>2, <2>2, <2>3, <2>6, <3>5
    <3> QED BY <3>4, <3>6 DEF EntriesConserved
  <2>7. CASE ~(sn \in G /\ IsMemRef(sn))
    <3>1. sn \in G => (InQueue(sn)' <=> InQueue(sn))
      <4> SUFFICES ASSUME sn \in G PROVE InQueue(sn)' <=> InQueue(sn)
        OBVIOUS
      <4>1. ~IsMemRef(sn)' /\ ~IsMemRef(sn)
        BY <1>3, <2>4, <2>7
      <4>2. inst'[sn].issued = inst[sn].issued
        BY <1>3, <2>4 DEF Written
      <4> QED BY <4>1, <4>2 DEF InQueue
    <3>2. {c \in instList' : InQueue(c)'} = Q
      BY <1>2, <2>1, <2>5, <3>1
    <3>3. freeEntries' = freeEntries
      BY <1>2, <2>7
    <3> QED BY <2>3, <3>2, <3>3 DEF EntriesConserved
  <2> QED BY <2>6, <2>7
<1> QED BY <1>4, <1>5, <1>6

LEMMA WriteShape ==
  ASSUME IqInv, NEW sn, NEW G, NEW E, NEW D, NEW T, Writes(sn, G, E, D, T)
  PROVE  Shape'
<1>1. Shape
  BY DEF IqInv
<1>2. /\ UNCHANGED <<sc, nextSn, nextPos, rob, instList, deferred, blocked, retry, instsToExecute>>
      /\ UNCHANGED <<sent, done, nonSpecSig, orderIt, walk, iewSquash, iewSquashNow, squashed>>
      /\ UNCHANGED <<squashSig, inRunahead, cause, exitRunahead>>
      /\ phase' = "writeback" /\ QueueOK(iewQueue')
      /\ freeEntries' = IF sn \in G /\ IsMemRef(sn) THEN freeEntries + 1 ELSE freeEntries
      /\ inst' = [c \in DOMAIN inst' |-> inst'[c]]
  BY DEF Writes, InstsWritten
<1>3. DOMAIN inst' = DOMAIN inst /\ \A c \in DOMAIN inst : Written(c, sn, G, E)
  BY WrittenIs
<1>4. \A c \in DOMAIN inst' : inst'[c] \in InstType /\ inst'[c].pos \in DOMAIN sc.prog
  BY <1>1, <1>3 DEF Shape, Written
<1>5. \A s \in Lists' : s \in Seq(Nat) /\ Distinct(s)
  BY <1>1, <1>2, ListsAre, ListsNext
<1>6. \A p \in Places : At[p]' \subseteq DOMAIN inst'
  <2> TAKE p \in Places
  <2>1. At[p]' \subseteq At[p] \cup T /\ T \subseteq DOMAIN inst
    BY WriteAt, WokenFacts
  <2> QED BY <1>1, <1>3, <2>1 DEF Shape
<1>7. freeEntries' \in Nat /\ DOMAIN inst' \subseteq 1..(nextSn' - 1)
  BY <1>1, <1>2, <1>3 DEF Shape
<1>8. /\ phase' \in Phases /\ sc' \in Scenarios /\ instList' \subseteq DOMAIN inst'
      /\ nextSn' \in Nat \ {0} /\ nextPos' \in Nat \ {0}
      /\ rob' \in Seq(Nat) /\ Ascending(rob') /\ Range(rob') \subseteq DOMAIN inst'
      /\ sent' \subseteq DOMAIN inst' /\ {walk', squashSig', squashed'} \subseteq Signal
      /\ RedirectOK(iewSquash') /\ RedirectOK(iewSquashNow')
      /\ done' \in Nat /\ nonSpecSig' \in Nat /\ orderIt' \in Nat
      /\ {inRunahead', exitRunahead'} \subseteq BOOLEAN
      /\ (exitRunahead' => inRunahead') /\ cause'.pos \in Nat /\ (inRunahead' => cause'.pos > 0)
  <2>1. "writeback" \in Phases
    BY DEF Phases
  <2>2. /\ sc \in Scenarios /\ instList \subseteq DOMAIN inst
        /\ nextSn \in Nat \ {0} /\ nextPos \in Nat \ {0}
        /\ rob \in Seq(Nat) /\ Ascending(rob) /\ Range(rob) \subseteq DOMAIN inst
        /\ sent \subseteq DOMAIN inst /\ {walk, squashSig, squashed} \subseteq Signal
        /\ RedirectOK(iewSquash) /\ RedirectOK(iewSquashNow)
        /\ done \in Nat /\ nonSpecSig \in Nat /\ orderIt \in Nat
        /\ {inRunahead, exitRunahead} \subseteq BOOLEAN
        /\ (exitRunahead => inRunahead) /\ cause.pos \in Nat /\ (inRunahead => cause.pos > 0)
    BY <1>1 DEF Shape
  <2> QED BY <1>2, <1>3, <2>1, <2>2
<1> QED BY <1>2, <1>4, <1>5, <1>6, <1>7, <1>8 DEF Shape

LEMMA WritebackStep ==
  ASSUME IqInv, Writeback
  PROVE  IqInv'
<1>1. PICK sn, G, E, D, T : Writes(sn, G, E, D, T)
  BY WritebackIs
<1>2. Shape' /\ ReadyInv' /\ PlaceInv' /\ Somewhere' /\ FlagInv'
  BY <1>1, WriteShape, WriteReadyInv, WritePlaces, WriteFlags
<1>3. SignalInv' /\ LiveInv' /\ RobInv' /\ GraphInv' /\ HashInv' /\ BarrierInv'
  BY <1>1, WriteRob, WriteGraph, WriteHash, WriteBarriers
<1>4. PredictorInv' /\ UnitInv' /\ EntriesConserved'
  BY <1>1, WriteUnits
<1> QED BY <1>2, <1>3, <1>4 DEF IqInv

-----------------------------------------------------------------------------
(* The invariant *)

LEMMA InitInv ==
  ASSUME Init
  PROVE  IqInv
<1>1. /\ phase = "events" /\ sc \in Scenarios /\ nextSn = 1 /\ nextPos = 1 /\ inst = <<>> /\ rob = <<>>
      /\ instList = {} /\ freeEntries = NumEntries /\ dependGraph = {} /\ regScoreboard = {}
      /\ nonSpecInsts = {} /\ ready = EmptyReady /\ deferred = <<>> /\ blocked = <<>> /\ retry = <<>>
      /\ instsToExecute = <<>> /\ inUnit = {} /\ iewQueue = <<>> /\ sent = {}
      /\ memDepHash = <<>> /\ barrierSNs = {} /\ instsToReplay = {}
      /\ squashed = NoSquash /\ squashSig = NoSquash /\ walk = NoSquash /\ robSquashing = FALSE
      /\ done = 0 /\ nonSpecSig = 0
  BY DEF Init, FreeAtReset
<1>2. DOMAIN inst = {} /\ DOMAIN memDepHash = {} /\ Range(rob) = {} /\ Range(iewQueue) = {}
  BY <1>1, QueueEmpty
<1>3. \A k \in Kinds : ready.insts[k] = <<>>
  BY <1>1 DEF EmptyReady
<1>4. \A p \in Places : At[p] = {}
  <2>1. ReadySet(ready) = {}
    BY <1>3, QueueEmpty DEF ReadySet
  <2> QED BY <1>1, <2>1, AtIs, PlacesAre, QueueEmpty
<1>5. Shape
  <2>1. inst = [sn \in DOMAIN inst |-> inst[sn]]
    BY <1>1
  <2>2. \A s \in Lists : s \in Seq(Nat) /\ Distinct(s)
    BY <1>1, QueueEmpty DEF Lists, QueueOK
  <2>3. rob \in Seq(Nat) /\ Ascending(rob)
    BY <1>1 DEF Ascending
  <2>4. {walk, squashSig, squashed} \subseteq Signal
    BY <1>1 DEF Signal, NoSquash
  <2>5. RedirectOK(iewSquash) /\ RedirectOK(iewSquashNow)
    BY DEF Init, RedirectOK, NoReport
  <2>6. /\ orderIt \in Nat /\ {inRunahead, exitRunahead} \subseteq BOOLEAN
        /\ (exitRunahead => inRunahead) /\ cause.pos \in Nat /\ (inRunahead => cause.pos > 0)
    BY DEF Init, NoCause
  <2>7. NumEntries \in Nat
    BY IqAssumption
  <2>8. phase \in Phases
    BY <1>1 DEF Phases
  <2> QED BY <1>1, <1>2, <1>4, <2>1, <2>2, <2>3, <2>4, <2>5, <2>6, <2>7, <2>8 DEF Shape
<1>6. ReadyInv
  <2>1. OrderOK(ready.order) /\ ready.order = <<>>
    BY <1>1 DEF EmptyReady, OrderOK
  <2>2. ready.insts \in [Kinds -> Seq(Nat)]
    BY <1>1 DEF EmptyReady
  <2>3. \A k \in Kinds : Ascending(ready.insts[k]) /\ Range(ready.insts[k]) = {}
    BY <1>3, QueueEmpty DEF Ascending
  <2>4. Range(ready.order) = {}
    BY <2>1, QueueEmpty
  <2> QED BY <1>3, <2>1, <2>2, <2>3, <2>4 DEF ReadyInv, ReadyOK
<1>7. PlaceInv /\ Somewhere /\ FlagInv
  BY <1>1, <1>2, <1>4 DEF PlaceInv, PlacesApart, Somewhere, FlagInv
<1>8. SignalInv /\ LiveInv /\ RobInv
  <2>1. walk.on = FALSE /\ squashSig.on = FALSE /\ squashed.tail = 0
    BY <1>1 DEF NoSquash
  <2>2. SignalInv
    <3>1. squashed.tail < nextSn /\ done < nextSn
      BY ONLY <1>1, <2>1
    <3>3. robSquashing = walk.on
      BY ONLY <1>1, <2>1, Zenon
    <3>2. ~squashSig.on /\ ~walk.on
      BY <2>1
    <3> QED BY <3>1, <3>2, <3>3 DEF SignalInv
  <2>3. Live = {} /\ Listed = {}
    BY <1>1, <1>2 DEF Live, Listed
  <2> QED BY <1>1, <1>2, <2>2, <2>3 DEF LiveInv, RobInv
<1>9. GraphInv /\ HashInv /\ BarrierInv
  <2>1. memDepHash = [sn \in DOMAIN memDepHash |-> memDepHash[sn]]
    BY <1>1
  <2> QED BY <1>1, <1>2, <1>4, <2>1 DEF GraphInv, HashInv, BarrierInv
<1>10. PredictorInv
  <2>1. depPred = EmptyPredictor
    BY DEF Init
  <2>2. LFSTSize \in Nat \ {0} /\ SSITSize \in Nat \ {0}
    BY StoreSetAssumption
  <2>3. PredictorOK(EmptyPredictor)
    BY <2>2 DEF PredictorOK, EmptyPredictor, ListBehindLFST, NoSet
  <2>4. \A s \in SSIDs : EmptyPredictor.LFST[s] = 0
    BY DEF EmptyPredictor
  <2> QED BY <1>1, <1>2, <2>1, <2>3, <2>4 DEF PredictorInv
<1>11. UnitInv
  <2>1. \A k \in Kinds : unitBusy[k] = 0 /\ unitsToBeFreed[k] = 0
    BY DEF Init
  <2>2. unitBusy \in [Kinds -> Nat] /\ unitsToBeFreed \in [Kinds -> Nat]
    BY DEF Init
  <2>3. \A k \in Kinds : {sn \in inUnit : Kind(sn) = k} = {}
    BY <1>1
  <2>4. \A k \in Kinds : sc.units[k] \in Nat
    BY <1>5, ScTypes
  <2> QED BY <2>1, <2>2, <2>3, <2>4, FS_EmptySet DEF UnitInv, UnitsConserved
<1>12. EntriesConserved
  <2>1. {sn \in instList : InQueue(sn)} = {}
    BY <1>1
  <2>2. Cardinality({}) = 0 /\ NumEntries \in Nat
    BY FS_EmptySet, IqAssumption
  <2> QED BY <1>1, <2>1, <2>2 DEF EntriesConserved
<1> QED BY <1>5, <1>6, <1>7, <1>8, <1>9, <1>10, <1>11, <1>12 DEF IqInv

LEMMA StutterInv ==
  ASSUME IqInv, UNCHANGED vars
  PROVE  IqInv'
<1>1. /\ inst' = inst /\ KnowsSame /\ UNCHANGED <<ready, lists, fuVars, depPred>>
      /\ UNCHANGED <<nonSpecInsts, instsToExecute, inUnit, instsToReplay, iewQueue, sent>>
      /\ UNCHANGED <<freeEntries, nextPos, nonSpecSig, inRunahead, robSquashing, iewSquash, iewSquashNow, cause>>
      /\ exitRunahead' = exitRunahead /\ phase' = phase /\ orderIt' = orderIt
  BY DEF vars, KnowsSame, robVars, iqVars, mdVars, memVars, iewVars, sigVars, modeVars, loopVars
<1>2. phase \in Phases /\ orderIt \in Nat /\ (nonSpecSig = 0 \/ phase # "commit")
  BY DEF IqInv, Shape, PlaceInv
<1> QED BY <1>1, <1>2, StayOnly DEF Phases

LEMMA NextInv ==
  ASSUME IqInv, Next
  PROVE  IqInv'
<1>1. CASE Event
  BY <1>1, ResponseStep, ProcessFUCompletionStep, TranslationDoneStep, CacheUnblockedStep,
     ReplayMemInstStep DEF Event
<1>2. CASE StartTick \/ Dispatch \/ EndDispatch \/ EndExecute \/ Writeback \/ EndWriteback
  BY <1>2, StartTickStep, DispatchStep, EndDispatchStep, EndExecuteStep, WritebackStep, EndWritebackStep
<1>3. CASE Execute
  BY <1>3, SkipSquashedStep, ComputeStep, FaultStep, ExecuteStoreStep, DeferMemInstStep,
     BlockMemInstStep, RescheduleMemInstStep, SendLoadStep DEF Execute
<1>4. CASE Schedule
  BY <1>4, GetDeferredStep, GetBlockedStep, StartLoopStep, PopSquashedStep, IssueStep,
     UnitBusyStep, EndScheduleStep DEF Schedule
<1>5. CASE Commit
  BY <1>5, ExitSquashStep, TrapSquashStep, IewSquashesStep, RobWalkStep, RetireStep,
     NonSpecHeadStep, EnterRunaheadStep, PoisonLLLStep, EndCommitStep DEF Commit
<1> QED BY <1>1, <1>2, <1>3, <1>4, <1>5 DEF Next

\* The instruction queue, its dependence graph, the memory dependence unit, the
\* ready lists and the reorder buffer agree on every instruction in every
\* reachable state, whatever squashes, faults and runahead do (IqInv).
THEOREM IqInvariance == Spec => []IqInv
<1>1. Init => IqInv
  BY InitInv
<1>2. IqInv /\ [Next]_vars => IqInv'
  BY NextInv, StutterInv
<1> QED BY <1>1, <1>2, PTL DEF Spec

-----------------------------------------------------------------------------
(* Loads with a response to come *)

\* What has been sent executes only when it is answered or at the head of the
\* reorder buffer; and what comes to the reorder buffer is younger.
LEMMA SentOlder ==
  ASSUME IqInv, SentInv, IqInv', \A r \in Range(rob') : r \in Range(rob) \/ r >= nextSn,
         \A s \in sent' : inst'[s].executed =>
           s \in sent /\ (inst[s].executed \/ \A r \in Range(rob) : s <= r)
  PROVE  SentInv'
<1> SUFFICES ASSUME NEW s \in sent', inst'[s].executed, NEW r \in Range(rob')
             PROVE  s <= r
  BY DEF SentInv
<1>1. s \in sent /\ \A x \in Range(rob) : s <= x
  BY DEF SentInv
<1>2. s \in Nat /\ s < nextSn /\ nextSn \in Nat
  BY <1>1, ShapeFacts DEF IqInv, Shape
<1>3. r \in Nat
  <2>1. Range(rob') \subseteq DOMAIN inst' /\ DOMAIN inst' \subseteq 1..(nextSn' - 1)
    BY DEF IqInv, Shape
  <2>2. nextSn' \in Nat
    BY DEF IqInv, Shape
  <2> QED BY <2>1, <2>2
<1> QED BY <1>1, <1>2, <1>3

\* Most steps: nothing is sent, nothing executes.
LEMMA SentSame ==
  ASSUME SentInv, Range(rob') \subseteq Range(rob), sent' \subseteq sent,
         \A s \in sent' : inst'[s].executed => inst[s].executed
  PROVE  SentInv'
BY DEF SentInv

LEMMA SentIdle ==
  ASSUME SentInv, UNCHANGED <<rob, sent, inst>>
  PROVE  SentInv'
BY SentSame

LEMMA SentEvents ==
  ASSUME IqInv, SentInv, Event
  PROVE  SentInv'
<1>1. sent \subseteq DOMAIN inst /\ \A s \in DOMAIN inst : inst[s] \in InstType
  BY DEF IqInv, Shape
<1>2. ASSUME NEW sn \in sent, Response(sn) PROVE SentInv'
  <2>1. rob' = rob /\ sent' = sent \ {sn}
    BY <1>2 DEF Response, robVars
  <2>2. inst' = inst \/ inst' = [inst EXCEPT ![sn].executed = TRUE]
    BY <1>2 DEF Response
  <2>3. \A s \in sent' : inst'[s] = inst[s]
    BY <1>1, <2>1, <2>2
  <2> QED BY <2>1, <2>3, SentSame
<1>3. ASSUME NEW sn, TranslationDone(sn) PROVE SentInv'
  <2>1. rob' = rob /\ sent' = sent /\ inst' = [inst EXCEPT ![sn].translated = TRUE]
    BY <1>3 DEF TranslationDone, robVars, memVars
  <2>2. \A s \in sent' : inst'[s].executed = inst[s].executed
    BY <1>1, <2>1 DEF InstType
  <2> QED BY <2>1, <2>2, SentSame
<1>4. ASSUME NEW sn, ProcessFUCompletion(sn) PROVE SentInv'
  BY <1>4, SentIdle DEF ProcessFUCompletion, robVars, memVars
<1>5. CASE CacheUnblocked
  BY <1>5, SentIdle DEF CacheUnblocked, robVars, memVars
<1>6. CASE ReplayMemInst
  BY <1>6, SentIdle DEF ReplayMemInst, robVars, memVars
<1> QED BY <1>2, <1>3, <1>4, <1>5, <1>6 DEF Event

LEMMA SentExecute ==
  ASSUME IqInv, SentInv, NEW sn, Executing(sn), rob' = rob,
         sent' \subseteq sent \cup {sn}, sn \in sent' => inst' = inst,
         \A c \in DOMAIN inst : c # sn => inst'[c].executed = inst[c].executed
  PROVE  SentInv'
<1>1. sent \subseteq DOMAIN inst
  BY DEF IqInv, Shape
<1>2. ~inst[sn].executed
  BY ExecutingFacts
<1>3. ASSUME NEW s \in sent', inst'[s].executed PROVE s \in sent /\ inst[s].executed
  BY <1>1, <1>2, <1>3
<1> QED BY <1>3 DEF SentInv

LEMMA SentExecutes ==
  ASSUME IqInv, SentInv, Execute
  PROVE  SentInv'
<1>1. PICK sn \in DOMAIN inst :
        \/ SkipSquashed(sn) \/ Compute(sn) \/ Fault(sn) \/ ExecuteStore(sn)
        \/ DeferMemInst(sn) \/ BlockMemInst(sn) \/ RescheduleMemInst(sn) \/ SendLoad(sn)
  BY DEF Execute
<1>2. Executing(sn) /\ rob' = rob
  BY <1>1 DEF SkipSquashed, Compute, Fault, ExecuteStore, ToCommit, DeferMemInst, BlockMemInst,
     RescheduleMemInst, SendLoad, ExecutesLoad, ExecuteFrame, robVars
<1>3. sn \notin sent
  BY <1>2, ExecutingFacts
<1>4. CASE SendLoad(sn)
  BY <1>2, <1>4, SentExecute DEF SendLoad
<1>5. CASE ~SendLoad(sn)
  <2>1. sent' = sent
    BY <1>1, <1>5 DEF SkipSquashed, Compute, Fault, ExecuteStore, ToCommit, DeferMemInst, BlockMemInst,
       RescheduleMemInst, memVars
  <2>2. \/ inst' = inst
        \/ inst' = [inst EXCEPT ![sn].squashed = TRUE, ![sn].executed = TRUE]
        \/ \E b \in BOOLEAN : inst' = [inst EXCEPT ![sn].executed = TRUE, ![sn].fault = b]
        \/ inst' = [inst EXCEPT ![sn].issued = FALSE] \/ inst' = [inst EXCEPT ![sn].translated = FALSE]
    BY <1>1, <1>5 DEF SkipSquashed, Compute, Fault, ExecuteStore, ToCommit, DeferMemInst, BlockMemInst,
       RescheduleMemInst
  <2>3. \A c \in DOMAIN inst : c # sn => inst'[c] = inst[c]
    BY <2>2
  <2> QED BY <1>2, <1>3, <2>1, <2>3, SentExecute
<1> QED BY <1>4, <1>5

LEMMA SentSchedule ==
  ASSUME IqInv, SentInv, Schedule
  PROVE  SentInv'
<1>1. CASE GetDeferred \/ GetBlocked \/ StartLoop \/ EndSchedule
  BY <1>1, SentIdle DEF GetDeferred, GetBlocked, StartLoop, EndSchedule, robVars, memVars
<1>2. ASSUME NEW k \in Kinds, PopSquashed(k) \/ UnitBusy(k) PROVE SentInv'
  BY <1>2, SentIdle DEF PopSquashed, UnitBusy, robVars, memVars
<1>3. ASSUME NEW k \in Kinds, Issue(k) PROVE SentInv'
  <2>1. rob' = rob /\ sent' = sent /\ inst' = [inst EXCEPT ![Top(k)].issued = TRUE]
    BY <1>3 DEF Issue, robVars, memVars
  <2>2. sent \subseteq DOMAIN inst /\ \A s \in DOMAIN inst : inst[s] \in InstType
    BY DEF IqInv, Shape
  <2>3. \A s \in sent' : inst'[s].executed = inst[s].executed
    BY <2>1, <2>2 DEF InstType
  <2> QED BY <2>1, <2>3, SentSame
<1> QED BY <1>1, <1>2, <1>3 DEF Schedule

LEMMA SentCommit ==
  ASSUME IqInv, SentInv, IqInv', Commit
  PROVE  SentInv'
<1>1. Shape /\ sent \subseteq DOMAIN inst
  BY DEF IqInv, Shape
<1>2. ASSUME NEW to \in Nat, RobMarks(to), sent' = sent PROVE SentInv'
  <2>1. Range(rob') \subseteq Range(rob) /\ Squashes(Range(rob) \ Range(rob'))
    BY <1>1, <1>2, RobMarksFacts
  <2>2. \A s \in sent' : inst'[s].executed = inst[s].executed
    <3>1. PICK Q : Q = Range(rob) \ Range(rob')
      OBVIOUS
    <3>2. Squashes(Q)
      BY <2>1, <3>1
    <3> QED BY <1>1, <1>2, <3>2, AgedSquash
  <2> QED BY <1>2, <2>1, <2>2, SentSame
<1>3. ASSUME NEW to, NEW pos, SquashFrom(to, pos), to \in Nat PROVE SentInv'
  BY <1>2, <1>3 DEF SquashFrom, EndsTick, memVars
<1>4. CASE ExitSquash
  <2>1. OldestInFlight - 1 \in Nat
    <3>1. nextSn \in Nat \ {0} /\ (rob # <<>> => rob[1] \in Nat /\ rob[1] > 0)
      BY <1>1, HeadFacts DEF Shape
    <3> QED BY <3>1 DEF OldestInFlight
  <2> QED BY <1>3, <1>4, <2>1 DEF ExitSquash
<1>5. CASE TrapSquash
  <2>1. rob[1] - 1 \in Nat
    BY <1>1, <1>5, HeadFacts DEF TrapSquash, HeadReady
  <2> QED BY <1>3, <1>5, <2>1 DEF TrapSquash
<1>6. CASE IewSquashes
  <2>1. iewSquashNow.to \in Nat
    BY <1>1 DEF Shape, RedirectOK
  <2> QED BY <1>3, <1>6, <2>1 DEF IewSquashes
<1>7. CASE RobWalk
  <2>1. walk.to \in Nat
    BY <1>1, ShapeFacts
  <2> QED BY <1>2, <1>7, <2>1 DEF RobWalk, EndsTick, memVars
<1>8. CASE Retire
  <2>1. rob # <<>> /\ rob' = Tail(rob) /\ sent' = sent /\ inst' = inst
    BY <1>8 DEF Retire, HeadReady, memVars
  <2>2. Range(Tail(rob)) \subseteq Range(rob)
    BY <1>1, <2>1, ShapeFacts, TailSeq
  <2> QED BY <2>1, <2>2, SentSame
<1>9. CASE NonSpecHead \/ EndCommit
  <2>1. rob' = rob /\ sent' = sent /\ inst' = Aged(inst)
    BY <1>9 DEF NonSpecHead, EndCommit, CommitFrame, EndsTick, memVars
  <2>2. \A s \in DOMAIN inst : inst'[s].executed = inst[s].executed
    <3>1. Ages(inst)
      BY <1>1, <2>1 DEF Ages, Shape
    <3> QED BY <3>1, AgedFrom
  <2> QED BY <1>1, <2>1, <2>2, SentSame
<1>10. CASE EnterRunahead \/ PoisonLLL
  <2>1. rob' = rob /\ sent' = sent /\ rob # <<>>
    BY <1>10 DEF EnterRunahead, PoisonLLL, LLLAtHead, Forge, CommitFrame, EndsTick, memVars
  <2>2. PICK R, h : Forges(R, h) /\ h = rob[1]
    <3>1. PICK R, h : Forge(R) /\ R = (IF EnterRunahead THEN Range(rob) ELSE {}) /\ h = rob[1]
      BY <1>10 DEF EnterRunahead, PoisonLLL
    <3>2. Forges(R, h)
      BY <3>1 DEF Forge, Forges
    <3> QED BY <3>1, <3>2
  <2>3. \A s \in DOMAIN inst : inst'[s].executed <=> inst[s].executed \/ s = h
    BY <1>1, <2>2, AgedForge
  <2>4. \A r \in Range(rob) : h <= r
    BY <1>1, <2>1, <2>2, HeadFacts
  <2> QED BY <1>1, <2>1, <2>3, <2>4, SentOlder
<1> QED BY <1>4, <1>5, <1>6, <1>7, <1>8, <1>9, <1>10 DEF Commit

LEMMA SentNext ==
  ASSUME IqInv, SentInv, IqInv', Next
  PROVE  SentInv'
<1>1. Shape /\ HashInv /\ PlaceInv /\ sent \subseteq DOMAIN inst
  BY DEF IqInv, Shape
<1>2. CASE StartTick
  <2>1. PICK to \in Nat : Cuts(to)
    BY <1>2, StartTickCuts
  <2>2. sent \subseteq Referred
    BY <1>1, ReferredIs
  <2>3. sent' = sent /\ rob' = rob /\ \A s \in Referred : inst'[s].executed = inst[s].executed
    BY <2>1 DEF Cuts
  <2> QED BY <2>2, <2>3, SentSame
<1>3. CASE Dispatch
  <2>1. PICK n, op, W, S : Dispatches(n, op, W, S)
    BY <1>3, DispatchIs
  <2>2. sent' = sent /\ rob' = Append(rob, n) /\ n = nextSn
    BY <2>1 DEF Dispatches
  <2>3. \A s \in DOMAIN inst : inst'[s] = inst[s]
    BY <2>1, DispatchKeeps
  <2>4. Range(rob') = Range(rob) \cup {n}
    BY <1>1, <2>2, AppendSeq, ShapeFacts
  <2>5. \A r \in Range(rob') : r \in Range(rob) \/ r >= nextSn
    BY <1>1, <2>2, <2>4, ShapeFacts
  <2> QED BY <1>1, <2>2, <2>3, <2>5, SentOlder
<1>4. CASE Writeback
  <2>1. PICK sn, G, E, D, T : Writes(sn, G, E, D, T)
    BY <1>4, WritebackIs
  <2>2. \A s \in DOMAIN inst : inst'[s].executed = inst[s].executed
    BY <2>1, WrittenIs DEF Written
  <2>3. sent' = sent /\ rob' = rob
    BY <2>1 DEF Writes
  <2> QED BY <1>1, <2>2, <2>3, SentSame
<1>5. CASE EndDispatch \/ EndExecute \/ EndWriteback
  BY <1>5, SentIdle DEF EndDispatch, EndExecute, EndWriteback, robVars, memVars
<1> QED BY <1>2, <1>3, <1>4, <1>5, SentEvents, SentExecutes, SentSchedule, SentCommit DEF Next

\* A load that executed before its response came, because forgeResponse answered
\* it, has nothing older than it in the reorder buffer.
THEOREM SentInvariance == Spec => []SentInv
<1>1. Init => IqInv /\ SentInv
  BY InitInv DEF Init, SentInv
<1>2. ASSUME IqInv, SentInv, [Next]_vars PROVE IqInv' /\ SentInv'
  <2>1. CASE Next
    BY <1>2, <2>1, NextInv, SentNext
  <2>2. CASE UNCHANGED vars
    <3>1. UNCHANGED <<rob, sent, inst>>
      BY <2>2 DEF vars, robVars, memVars
    <3> QED BY <1>2, <2>2, <3>1, StutterInv, SentIdle
  <2> QED BY <1>2, <2>1, <2>2
<1>3. (IqInv /\ SentInv) /\ [Next]_vars => (IqInv /\ SentInv)'
  BY <1>2
<1> QED BY <1>1, <1>3, PTL DEF Spec

-----------------------------------------------------------------------------
(* What the runs check of the queue *)

LEMMA TypesSound ==
  ASSUME IqInv
  PROVE  TypeOK
<1>1. Shape /\ HashInv /\ UnitInv /\ EntriesConserved
  BY DEF IqInv
<1>2. phase \in {"events", "dispatch", "execute", "writeback", "schedule", "commit"} /\ sc \in Scenarios
  BY <1>1 DEF Shape, Phases
<1>3. freeEntries \in 0..NumEntries
  <2>1. Cardinality({sn \in instList : InQueue(sn)}) \in Nat
    BY <1>1, ShapeFacts, InstSubsets
  <2>2. freeEntries \in Nat /\ NumEntries \in Nat
    BY <1>1, IqAssumption DEF Shape
  <2> QED BY <1>1, <2>1, <2>2 DEF EntriesConserved
<1>4. \A p \in {"commit", "unit", "execute", "deferred", "blocked", "retry"} : At[p] \subseteq DOMAIN inst
  BY <1>1 DEF Shape, Places
<1>5. /\ Range(iewQueue) \subseteq DOMAIN inst /\ inUnit \subseteq DOMAIN inst
      /\ Range(instsToExecute) \subseteq DOMAIN inst /\ Range(deferred) \subseteq DOMAIN inst
      /\ Range(blocked) \subseteq DOMAIN inst /\ Range(retry) \subseteq DOMAIN inst
  BY <1>4, AtIs
<1>6. /\ Range(rob) \subseteq DOMAIN inst /\ instList \subseteq DOMAIN inst /\ sent \subseteq DOMAIN inst
      /\ DOMAIN memDepHash \subseteq instList /\ \A sn \in DOMAIN inst : inst[sn] \in InstType
  BY <1>1 DEF Shape, HashInv, HashOK
<1>7. \A k \in Kinds : unitBusy[k] \in Nat /\ unitsToBeFreed[k] \in Nat
  BY <1>1 DEF UnitInv
<1>8. Range(rob) \cup instList \cup Range(iewQueue) \cup sent \cup inUnit \cup
      Range(instsToExecute) \cup Range(deferred) \cup Range(blocked) \cup Range(retry) \cup
      DOMAIN memDepHash \subseteq DOMAIN inst
  BY <1>5, <1>6
<1> QED BY <1>2, <1>3, <1>6, <1>7, <1>8 DEF TypeOK

\* What accesses memory or is a barrier, and has not been written back, is in
\* the memory dependence unit.
LEMMA InHashIs ==
  ASSUME HashInv, NEW sn \in instList, IsMemRef(sn) \/ IsBarrier(sn), inst[sn].wb = "no"
  PROVE  sn \in DOMAIN memDepHash
BY DEF HashInv

LEMMA ConsumerWaits ==
  ASSUME IqInv, NEW d \in dependGraph
  PROVE  /\ EdgeOK(d) /\ d \in EdgesTo(d[2]) /\ WaitsReg(d[2]) /\ WaitOK(d[2])
         /\ inst[d[2]].wb = "no"
<1>1. Shape /\ GraphInv /\ FlagInv
  BY DEF IqInv
<1>2. EdgeOK(d) /\ d[2] \in instList /\ d \in EdgesTo(d[2])
  BY <1>1 DEF GraphInv, EdgeOK, EdgesTo
<1>3. PICK c : c = d[2]
  OBVIOUS
<1>4. inst[c].unready = Cardinality(EdgesTo(c))
  BY <1>1, <1>2, <1>3 DEF GraphInv
<1>5. Cardinality(EdgesTo(c)) \in Nat /\ Cardinality(EdgesTo(c)) # 0
  BY <1>1, <1>2, <1>3, EdgesFinite
<1>6. WaitsReg(c) /\ WaitOK(c)
  BY <1>1, <1>2, <1>3, <1>4, <1>5 DEF WaitsReg, FlagInv
<1>7. inst[c].wb = "no"
  BY <1>6 DEF WaitOK
<1> QED BY <1>2, <1>3, <1>6, <1>7

LEMMA EntriesFound ==
  ASSUME IqInv
  PROVE  EntryFound
<1>1. Shape /\ PlaceInv /\ HashInv /\ RobInv
  BY DEF IqInv
<1>2. ASSUME NEW sn \in Range(iewQueue), Wakes(sn)
      PROVE  /\ IsMemRef(sn) => sn \in DOMAIN memDepHash
             /\ IsBarrier(sn) => sn \in DOMAIN memDepHash \/ BehindWalk(sn)
  <2>1. sn \in DOMAIN inst /\ inst[sn].wb = "no" /\ (IsMemRef(sn) => sn \in instList)
    BY <1>2, WritesBackIs
  <2>2. sn \in instList \/ BehindWalk(sn)
    BY <1>1, <1>2, <2>1 DEF RobInv, UnlistedOK, Wakes, BehindWalk
  <2> QED BY <1>1, <2>1, <2>2, InHashIs
<1>3. ASSUME NEW d \in dependGraph, IsMemRef(d[2]) PROVE d[2] \in DOMAIN memDepHash
  <2>1. d[2] \in instList /\ inst[d[2]].wb = "no"
    BY ConsumerWaits DEF EdgeOK
  <2> QED BY <1>1, <1>3, <2>1, InHashIs
<1>4. ASSUME NEW sn \in instsToReplay PROVE sn \in DOMAIN memDepHash
  <2>1. sn \in At["replay"] /\ "replay" \in Places
    BY AtIs DEF Places
  <2>2. PlaceOK("replay", sn)
    BY <1>1, <2>1 DEF PlaceInv
  <2>3. sn \in instList /\ IsMemRef(sn) /\ inst[sn].wb = "no"
    BY <2>2 DEF PlaceOK, Fits, IsMemRef
  <2> QED BY <1>1, <2>3, InHashIs
<1>5. nonSpecSig # 0 => nonSpecSig \in nonSpecInsts
  BY <1>1 DEF PlaceInv
<1> QED BY <1>2, <1>3, <1>4, <1>5 DEF EntryFound

LEMMA SquashLoopEnds ==
  ASSUME IqInv
  PROVE  PredictorSquashEnds
<1>1. PredictorOK(depPred)
  BY DEF IqInv, PredictorInv
<1>2. \A to \in 0..sc.maxSn : to \in Nat
  OBVIOUS
<1> QED BY <1>1, <1>2, BehindEnds DEF PredictorSquashEnds

LEMMA OrderSound ==
  ASSUME IqInv
  PROVE  OrderListSound
<1>1. ReadyOK(ready)
  BY DEF IqInv, ReadyInv
<1>2. PICK r : r = ready
  OBVIOUS
<1>3. PICK o : o = r.order
  OBVIOUS
<1>4. /\ o \in Seq([class : Kinds, oldest : Nat])
      /\ \A i, j \in DOMAIN o : i < j => o[i].oldest < o[j].oldest
      /\ \A k \in Kinds : r.insts[k] # <<>> => \E x \in Range(o) : x.class = k
      /\ \A x \in Range(o) : r.insts[x.class] # <<>> /\ x.oldest = Head(r.insts[x.class])
  BY <1>1, <1>2, <1>3 DEF ReadyOK, OrderOK
<1>5. /\ \A i \in DOMAIN o : o[i] \in Range(o) /\ i \in Nat /\ o[i].oldest \in Nat
      /\ \A x \in Range(o) : \E i \in DOMAIN o : o[i] = x
  <2>1. Len(o) \in Nat /\ DOMAIN o = 1..Len(o) /\ \A i \in DOMAIN o : o[i] \in [class : Kinds, oldest : Nat]
    <3>1. PICK S : S = [class : Kinds, oldest : Nat]
      OBVIOUS
    <3>2. o \in Seq(S)
      BY <1>4, <3>1
    <3>3. Len(o) \in Nat /\ DOMAIN o = 1..Len(o) /\ \A i \in DOMAIN o : o[i] \in S
      BY ONLY <3>2, SeqBasics
    <3> QED BY <3>1, <3>3
  <2>2. \A i \in DOMAIN o : i \in Nat /\ o[i].oldest \in Nat
    BY <2>1
  <2> QED BY <2>2 DEF Range
<1>6. \A i \in DOMAIN o : o[i].oldest = Head(r.insts[o[i].class])
  BY <1>4, <1>5
<1>7. \A i, j \in DOMAIN o : o[i].class = o[j].class => i = j
  <2> SUFFICES ASSUME NEW i \in DOMAIN o, NEW j \in DOMAIN o, o[i].class = o[j].class PROVE i = j
    OBVIOUS
  <2>1. o[i].oldest = o[j].oldest
    BY <1>6
  <2>2. ~(i < j) /\ ~(j < i)
    BY <1>4, <1>5, <2>1
  <2> QED BY <1>5, <2>2
<1>8. ASSUME NEW k \in Kinds
      PROVE  Cardinality({i \in DOMAIN o : o[i].class = k}) = One(r.insts[k] # <<>>)
  <2>1. CASE r.insts[k] # <<>>
    <3>1. PICK i \in DOMAIN o : o[i].class = k
      BY <1>4, <1>5, <2>1
    <3>2. {j \in DOMAIN o : o[j].class = k} = {i}
      BY <1>7, <3>1
    <3> QED BY <2>1, <3>2, FS_Singleton DEF One
  <2>2. CASE r.insts[k] = <<>>
    <3>1. {j \in DOMAIN o : o[j].class = k} = {}
      BY <1>4, <1>5, <2>2
    <3> QED BY <2>2, <3>1, FS_EmptySet DEF One
  <2> QED BY <2>1, <2>2
<1> QED BY <1>2, <1>3, <1>4, <1>6, <1>8 DEF OrderListSound

\* Where the issued instructions are that IssuedInOrder speaks of.
LEMMA IssuedIs ==
  ASSUME IqInv, NEW sn \in Range(instsToExecute) \cup inUnit \cup sent
  PROVE  /\ sn \in DOMAIN inst
         /\ \/ \E p \in {"execute", "unit", "memory"} : sn \in At[p]
            \/ sn \in sent /\ inst[sn].executed
<1>1. sn \in DOMAIN inst
  BY AtIs DEF IqInv, Shape, Places
<1> QED BY <1>1, AtIs

LEMMA OrderIssued ==
  ASSUME IqInv, SentInv
  PROVE  IssuedInOrder
<1>1. Shape /\ PlaceInv /\ RobInv /\ GraphInv /\ HashInv /\ BarrierInv
  BY DEF IqInv
<1> SUFFICES ASSUME NEW sn \in Range(instsToExecute) \cup inUnit \cup sent,
                    ~inst[sn].squashed, ~InRange(sn), NEW r \in Range(rob), r < sn
             PROVE  /\ inst[r].pos \in OpOf(sn).src => r \notin regScoreboard
                    /\ IsMemRef(sn) /\ IsBarrier(r) => inst[r].wb # "no"
  BY DEF IssuedInOrder
<1>2. sn \in DOMAIN inst /\ sn \in Nat /\ r \in DOMAIN inst /\ r \in Nat
  BY <1>1, IssuedIs, ShapeFacts
<1>3. PICK p \in {"execute", "unit", "memory"} : sn \in At[p]
  <2>1. ~(sn \in sent /\ inst[sn].executed)
    BY <1>2 DEF SentInv
  <2> QED BY <2>1, IssuedIs
<1>4. p \in Places \ {"nonSpec"} /\ PlaceOK(p, sn)
  BY <1>1, <1>3 DEF PlaceInv, Places
<1>5. inst[sn].wb = "no" /\ ~WaitsReg(sn) /\ ~WaitsMem(sn)
  BY <1>4 DEF PlaceOK
<1>6. sn \in instList
  <2> SUFFICES ASSUME sn \notin instList PROVE FALSE
    OBVIOUS
  <2>1. UnlistedOK(sn)
    BY <1>1, <1>2 DEF RobInv
  <2> QED BY <1>2, <2>1 DEF UnlistedOK
<1>7. ~IsBarrier(sn)
  <2> SUFFICES ASSUME IsBarrier(sn) PROVE FALSE
    OBVIOUS
  <2>1. sn <= r
    BY <1>1, <1>3, <1>4 DEF BarrierInv
  <2> QED BY <1>2, <2>1
<1>8. ASSUME inst[r].pos \in OpOf(sn).src, r \in regScoreboard PROVE FALSE
  <2>1. SourcesOK(sn)
    BY <1>1, <1>6, <1>7 DEF GraphInv
  <2>2. PICK d : d = <<r, sn>>
    OBVIOUS
  <2>3. d \in dependGraph /\ d[2] = sn
    BY <1>8, <2>1, <2>2 DEF SourcesOK
  <2>4. WaitsReg(sn)
    BY <2>3, ConsumerWaits
  <2> QED BY <1>5, <2>4
<1>9. ASSUME IsMemRef(sn), IsBarrier(r), inst[r].wb = "no" PROVE FALSE
  <2>1. ListedOK(sn)
    BY <1>1, <1>6 DEF RobInv
  <2>2. r \in instList
    BY <2>1 DEF ListedOK
  <2>3. r \in DOMAIN memDepHash /\ sn \in DOMAIN memDepHash
    BY <1>1, <1>5, <1>6, <1>9, <2>2, InHashIs
  <2>4. sn \in memDepHash[r].dependInsts
    BY <1>1, <1>9, <2>3 DEF BarrierInv
  <2>5. r \in Producers(sn)
    BY <2>3, <2>4 DEF Producers
  <2>6. memDepHash[sn].memDeps = Cardinality(Producers(sn))
    BY <1>1, <2>3 DEF HashInv, HashOK
  <2>7. Cardinality(Producers(sn)) \in Nat /\ Cardinality(Producers(sn)) # 0
    BY <1>1, <2>5, ProducersFinite
  <2> QED BY <1>5, <2>3, <2>6, <2>7 DEF WaitsMem
<1> QED BY <1>8, <1>9

\* A list without repetition has an instruction once or not at all.
LEMMA TimesIs ==
  ASSUME NEW s, QueueOK(s), NEW x
  PROVE  Times(x, s) = One(x \in Range(s))
<1>1. CASE x \in Range(s)
  <2>1. PICK i \in DOMAIN s : s[i] = x
    BY <1>1 DEF Range
  <2>2. {k \in DOMAIN s : s[k] = x} = {i}
    BY <2>1 DEF QueueOK, Distinct
  <2> QED BY <1>1, <2>2, FS_Singleton DEF Times, One
<1>2. CASE x \notin Range(s)
  <2>1. {k \in DOMAIN s : s[k] = x} = {}
    BY <1>2 DEF Range
  <2> QED BY <1>2, <2>1, FS_EmptySet DEF Times, One
<1> QED BY <1>1, <1>2

\* What a live instruction waits for is in flight, and counted.
LEMMA WaitsAre ==
  ASSUME IqInv, NEW sn \in instList, ~inst[sn].squashed
  PROVE  /\ WaitsForRegs(sn) <=> WaitsReg(sn)
         /\ WaitsForMem(sn) <=> ~WaitsReg(sn) /\ WaitsMem(sn)
<1>1. Shape /\ RobInv /\ GraphInv /\ HashInv /\ sn \in DOMAIN inst /\ inst[sn].unready \in Nat
  BY ShapeFacts, InstTypes DEF IqInv, Shape
<1>2. ASSUME NEW d \in dependGraph, d[2] = sn PROVE d[1] \in Range(rob) /\ d[1] \in regScoreboard
  <2>1. EdgeOK(d)
    BY ConsumerWaits
  <2>2. PICK a : a = d[1]
    OBVIOUS
  <2>3. a < sn /\ a > done /\ a \in instList /\ a \in regScoreboard
    BY <1>2, <2>1, <2>2 DEF EdgeOK
  <2>4. ListedOK(a) /\ ListedOK(sn) /\ a \in Nat /\ sn \in Nat /\ done \in Nat
    BY <1>1, <2>3, ShapeFacts DEF RobInv
  <2>5. sn \in Range(rob)
    BY <2>3, <2>4 DEF ListedOK
  <2>6. a \in Range(rob)
    BY <2>3, <2>4, <2>5 DEF ListedOK
  <2> QED BY <2>2, <2>3, <2>6
<1>3. inst[sn].unready = Cardinality({d \in dependGraph : d[2] = sn})
  BY <1>1 DEF GraphInv, EdgesTo
<1>4. WaitsForRegs(sn) <=> WaitsReg(sn)
  BY <1>2, <1>3 DEF WaitsForRegs, WaitsReg
<1>5. sn \in DOMAIN memDepHash =>
        memDepHash[sn].memDeps = Cardinality({s \in DOMAIN memDepHash : sn \in memDepHash[s].dependInsts})
  BY <1>1 DEF HashInv, HashOK, Producers
<1>6. inst[sn].unready = 0 <=> ~WaitsReg(sn)
  BY <1>1 DEF WaitsReg
<1>7. WaitsForMem(sn) <=> ~WaitsReg(sn) /\ WaitsMem(sn)
  BY <1>5, <1>6 DEF WaitsForMem, WaitsMem
<1> QED BY <1>4, <1>7

\* How often the lists have an instruction that has not executed.
LEMMA TimesInPlaces ==
  ASSUME IqInv, NEW sn \in instList, ~inst[sn].executed
  PROVE  /\ Times(sn, ready.insts[Kind(sn)]) = One(sn \in At["ready"])
         /\ Times(sn, instsToExecute) = One(sn \in At["execute"])
         /\ Times(sn, deferred) = One(sn \in At["deferred"])
         /\ Times(sn, blocked) = One(sn \in At["blocked"])
         /\ Times(sn, retry) = One(sn \in At["retry"])
         /\ sn \in inUnit \cup sent \cup instsToReplay \cup nonSpecInsts <=>
              \E p \in {"unit", "memory", "replay", "nonSpec"} : sn \in At[p]
<1>1. Shape /\ ReadyInv
  BY DEF IqInv
<1>2. Kind(sn) \in Kinds
  BY <1>1, ShapeFacts
<1>3. PICK s : s = ready.insts[Kind(sn)]
  OBVIOUS
<1>4. s \in Seq(Nat) /\ Ascending(s)
  BY <1>1, <1>2, <1>3 DEF ReadyInv, ReadyOK
<1>5. QueueOK(s)
  <2>1. \A i \in DOMAIN s : i \in Nat /\ s[i] \in Nat
    BY <1>4, SeqBasics
  <2>2. Distinct(s)
    <3> SUFFICES ASSUME NEW i \in DOMAIN s, NEW j \in DOMAIN s, s[i] = s[j] PROVE i = j
      BY DEF Distinct
    <3>1. ~(i < j) /\ ~(j < i)
      BY <1>4, <2>1 DEF Ascending
    <3> QED BY <2>1, <3>1
  <2> QED BY <1>4, <2>2 DEF QueueOK
<1>6. sn \in Range(s) <=> sn \in At["ready"]
  <2>1. \A k \in Kinds : sn \in Range(ready.insts[k]) => k = Kind(sn)
    BY <1>1 DEF ReadyInv
  <2>2. At["ready"] = UNION {Range(ready.insts[k]) : k \in Kinds}
    BY AtIs DEF ReadySet
  <2> QED BY <1>2, <1>3, <2>1, <2>2
<1>7. Times(sn, ready.insts[Kind(sn)]) = One(sn \in At["ready"])
  <2>1. Times(sn, s) = One(sn \in Range(s))
    BY <1>5, TimesIs
  <2> QED BY <1>3, <1>6, <2>1 DEF One
<1>8. QueueOK(instsToExecute) /\ QueueOK(deferred) /\ QueueOK(blocked) /\ QueueOK(retry)
  BY <1>1, ListsAre
<1>9. /\ Times(sn, instsToExecute) = One(sn \in Range(instsToExecute))
      /\ Times(sn, deferred) = One(sn \in Range(deferred))
      /\ Times(sn, blocked) = One(sn \in Range(blocked))
      /\ Times(sn, retry) = One(sn \in Range(retry))
  <2>1. \A t : QueueOK(t) => Times(sn, t) = One(sn \in Range(t))
    BY TimesIs
  <2> QED BY <1>8, <2>1
<1>10. sn \in inUnit \cup sent \cup instsToReplay \cup nonSpecInsts <=>
         \E p \in {"unit", "memory", "replay", "nonSpec"} : sn \in At[p]
  BY AtIs
<1> QED BY <1>7, <1>9, <1>10, AtIs

LEMMA OneIsPlace ==
  ASSUME IqInv
  PROVE  OnePlace
<1>1. Shape /\ PlaceInv /\ Somewhere /\ FlagInv
  BY DEF IqInv
<1> SUFFICES ASSUME NEW sn \in instList, ~inst[sn].squashed
             PROVE  IF inst[sn].executed THEN Times(sn, iewQueue) + One(inst[sn].wb # "no") = 1
                    ELSE 1 = Times(sn, ready.insts[Kind(sn)]) + Times(sn, instsToExecute) +
                             Times(sn, deferred) + Times(sn, blocked) + Times(sn, retry) +
                             One(sn \in inUnit \cup sent \cup instsToReplay \cup nonSpecInsts) +
                             One(WaitsForRegs(sn)) + One(WaitsForMem(sn))
  BY DEF OnePlace
<1>2. sn \in DOMAIN inst /\ FlagOK(sn) /\ SomewhereOK(sn)
  BY <1>1, ShapeFacts DEF FlagInv, Somewhere
<1>3. \A p \in Places : sn \in At[p] =>
        /\ inst[sn].wb = "no" /\ ~WaitsReg(sn) /\ ~WaitsMem(sn) /\ (inst[sn].executed <=> p = "commit")
        /\ \A q \in Places : q # p => sn \notin At[q]
  BY <1>1 DEF PlaceInv, PlaceOK, PlacesApart
<1>4. CASE inst[sn].executed
  <2>1. sn \in At["commit"] <=> inst[sn].wb = "no"
    <3>1. inst[sn].wb = "no" => \E p \in Places : sn \in At[p]
      BY <1>2, <1>4 DEF SomewhereOK
    <3> QED BY <1>3, <1>4, <3>1 DEF Places
  <2>2. QueueOK(iewQueue)
    BY <1>1, ListsAre
  <2>3. Times(sn, iewQueue) = One(sn \in Range(iewQueue))
    BY <2>2, TimesIs
  <2>4. sn \in Range(iewQueue) <=> inst[sn].wb = "no"
    BY <2>1, AtIs
  <2>5. Times(sn, iewQueue) + One(inst[sn].wb # "no") = 1
    BY <2>3, <2>4 DEF One
  <2> QED BY <1>4, <2>5
<1>5. CASE ~inst[sn].executed
  <2>1. inst[sn].wb = "no"
    BY <1>2, <1>5 DEF FlagOK
  <2>2. (\E p \in Places : sn \in At[p]) \/ WaitsReg(sn) \/ WaitsMem(sn)
    BY <1>2, <2>1 DEF SomewhereOK
  <2>3. PICK a, b, c, d, e, f, g, h :
          /\ a = Times(sn, ready.insts[Kind(sn)]) /\ b = Times(sn, instsToExecute)
          /\ c = Times(sn, deferred) /\ d = Times(sn, blocked) /\ e = Times(sn, retry)
          /\ f = One(sn \in inUnit \cup sent \cup instsToReplay \cup nonSpecInsts)
          /\ g = One(WaitsForRegs(sn)) /\ h = One(WaitsForMem(sn))
    OBVIOUS
  <2>4. /\ a = One(sn \in At["ready"]) /\ b = One(sn \in At["execute"])
        /\ c = One(sn \in At["deferred"]) /\ d = One(sn \in At["blocked"])
        /\ e = One(sn \in At["retry"])
        /\ sn \in inUnit \cup sent \cup instsToReplay \cup nonSpecInsts <=>
             \E p \in {"unit", "memory", "replay", "nonSpec"} : sn \in At[p]
    BY <1>5, <2>3, TimesInPlaces
  <2>5. f = One(\E p \in {"unit", "memory", "replay", "nonSpec"} : sn \in At[p])
    BY <2>3, <2>4 DEF One
  <2>6. g = One(WaitsReg(sn)) /\ h = One(~WaitsReg(sn) /\ WaitsMem(sn))
    BY <2>3, WaitsAre DEF One
  <2>7. 1 = a + b + c + d + e + f + g + h
    <3>1. CASE WaitsReg(sn) \/ WaitsMem(sn)
      <4>1. \A p \in Places : sn \notin At[p]
        BY <1>3, <3>1
      <4>2. a = 0 /\ b = 0 /\ c = 0 /\ d = 0 /\ e = 0 /\ f = 0
        BY <2>4, <2>5, <4>1 DEF One, Places
      <4>3. (g = 1 /\ h = 0) \/ (g = 0 /\ h = 1)
        BY <2>6, <3>1 DEF One
      <4> QED BY <4>2, <4>3
    <3>2. CASE ~WaitsReg(sn) /\ ~WaitsMem(sn)
      <4>1. g = 0 /\ h = 0
        BY <2>6, <3>2 DEF One
      <4>2. PICK p \in Places : sn \in At[p]
        BY <2>2, <3>2
      <4>3. p # "commit" /\ \A q \in Places : sn \in At[q] <=> q = p
        BY <1>3, <1>5, <4>2
      <4>4. /\ a = One(p = "ready") /\ b = One(p = "execute") /\ c = One(p = "deferred")
            /\ d = One(p = "blocked") /\ e = One(p = "retry")
            /\ f = One(p \in {"unit", "memory", "replay", "nonSpec"})
        BY <2>4, <2>5, <4>3 DEF One, Places
      <4>5. p \in {"ready", "execute", "deferred", "blocked", "retry", "unit", "memory", "replay", "nonSpec"}
        BY <4>3, PlacesAre
      <4> QED BY <4>1, <4>4, <4>5 DEF One
    <3> QED BY <3>1, <3>2
  <2> QED BY <1>5, <2>3, <2>7
<1> QED BY <1>4, <1>5

LEMMA QueueIsSound ==
  ASSUME IqInv, SentInv
  PROVE  QueueSound
<1>1. ConsumersLive
  BY ConsumerWaits DEF ConsumersLive, EdgeOK
<1>2. UnitsConserved
  BY DEF IqInv, UnitInv
<1> QED BY <1>1, <1>2, OneIsPlace, OrderSound, OrderIssued DEF QueueSound

\* What the queue's lists, the memory dependence unit and the memory system hold
\* are instructions that exist, and freeEntries is between 0 and numEntries.
THEOREM IqTypeInvariant == Spec => []TypeOK
<1>1. IqInv => TypeOK
  BY TypesSound
<1> QED BY <1>1, IqInvariance, PTL

\* freeEntries and the instructions that hold an entry are numEntries together:
\* issue, completion and doSquash give each entry back exactly once.
THEOREM EntriesConservedInvariant == Spec => []EntriesConserved
<1>1. IqInv => EntriesConserved
  BY DEF IqInv
<1> QED BY <1>1, IqInvariance, PTL

\* An instruction that has not executed is in exactly one place it gets on from,
\* listOrder names each ready list once, no producer goes before its consumers,
\* instructions execute with their sources ready and behind their barriers, and
\* the functional units are conserved.
THEOREM QueueSoundInvariant == Spec => []QueueSound
<1>1. IqInv /\ SentInv => QueueSound
  BY QueueIsSound
<1> QED BY <1>1, IqInvariance, SentInvariance, PTL

\* MemDepUnit::findInHash, replay and scheduleNonSpec find what they look for.
THEOREM EntryFoundInvariant == Spec => []EntryFound
<1>1. IqInv => EntryFound
  BY EntriesFound
<1> QED BY <1>1, IqInvariance, PTL

\* The loop of StoreSet::squash ends, for every squash that may come.
THEOREM PredictorSquashInvariant == Spec => []PredictorSquashEnds
<1>1. IqInv => PredictorSquashEnds
  BY SquashLoopEnds
<1> QED BY <1>1, IqInvariance, PTL
=============================================================================
