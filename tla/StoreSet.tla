------------------------------ MODULE StoreSet ------------------------------
(***************************************************************************)
(* The memory dependence predictor (store_set.cc): the store set each      *)
(* instruction address belongs to (SSIT), the last store fetched of each   *)
(* set (LFST, validLFST) and the stores not yet issued (storeList, the     *)
(* youngest first).  A predictor state is a record p of these.             *)
(***************************************************************************)
EXTENDS Naturals, Functions

CONSTANTS SSITSize, LFSTSize, ClearPeriod

ASSUME StoreSetAssumption ==
  SSITSize \in Nat \ {0} /\ LFSTSize \in Nat \ {0} /\ ClearPeriod \in Nat

Indexes == 0..(SSITSize - 1)
SSIDs == 0..(LFSTSize - 1)
NoSet == LFSTSize       \* validSSIT is false

\* calcIndex and calcSSID
Index(pc) == pc % SSITSize
SSID(pc) == pc % LFSTSize

EmptyPredictor ==
  [SSIT |-> [i \in Indexes |-> NoSet], LFST |-> [s \in SSIDs |-> 0],
   valid |-> [s \in SSIDs |-> FALSE], storeList |-> [sn \in {} |-> 0],
   memOps |-> 0]

SetOf(p, pc) == p.SSIT[Index(pc)]

\* StoreSet::violation: the load and the store get one set.
Violation(p, store, load) ==
  LET l == SetOf(p, load)
      s == SetOf(p, store)
  IN  IF l = NoSet /\ s = NoSet
      THEN [p EXCEPT !.SSIT = [i \in Indexes |->
              IF i \in {Index(load), Index(store)} THEN SSID(load) ELSE @[i]]]
      ELSE IF l # NoSet /\ (s = NoSet \/ s > l)
      THEN [p EXCEPT !.SSIT[Index(store)] = l]
      ELSE [p EXCEPT !.SSIT[Index(load)] = s]

\* StoreSet::clear
Clear(p) ==
  [p EXCEPT !.SSIT = [i \in Indexes |-> NoSet],
            !.valid = [s \in SSIDs |-> FALSE], !.storeList = [sn \in {} |-> 0]]

\* StoreSet::checkClear
CheckClear(p) ==
  IF p.memOps + 1 > ClearPeriod THEN [Clear(p) EXCEPT !.memOps = 0]
  ELSE [p EXCEPT !.memOps = @ + 1]

\* Mutant: the set remembers the oldest store, not the last one.
InsertStoreOldest(p, pc, sn) ==
  LET q == CheckClear(p)
      s == SetOf(q, pc)
  IN  IF s = NoSet THEN q
      ELSE [q EXCEPT !.LFST[s] = IF q.valid[s] THEN @ ELSE sn, !.valid[s] = TRUE,
                     !.storeList = [x \in DOMAIN @ \cup {sn} |->
                                      IF x = sn THEN s ELSE @[x]]]

\* StoreSet::insertStore
InsertStore(p, pc, sn) ==
  LET q == CheckClear(p)
      s == SetOf(q, pc)
  IN  IF s = NoSet THEN q
      ELSE [q EXCEPT !.LFST[s] = sn, !.valid[s] = TRUE,
                     !.storeList = [x \in DOMAIN @ \cup {sn} |->
                                      IF x = sn THEN s ELSE @[x]]]

\* StoreSet::checkInst: the store to wait for, 0 if there is none.
CheckInst(p, pc) ==
  LET s == SetOf(p, pc)
  IN  IF s = NoSet THEN 0 ELSE IF p.valid[s] THEN p.LFST[s] ELSE 0

\* StoreSet::issued, for a store.
StoreIssued(p, pc, sn) ==
  LET q == [p EXCEPT !.storeList = Restrict(@, DOMAIN @ \ {sn})]
      s == SetOf(p, pc)
  IN  IF s = NoSet THEN q
      ELSE [q EXCEPT !.valid[s] = @ /\ p.LFST[s] # sn]

\* StoreSet::squash: its loop takes the stores younger than `to` off the list,
\* and does not end if it meets one whose set last saw an older store.
SquashStores(p, to) ==
  LET gone == {sn \in DOMAIN p.storeList : sn > to}
  IN  [p EXCEPT !.storeList = Restrict(@, DOMAIN @ \ gone),
                !.valid = [s \in SSIDs |-> @[s] /\ \A sn \in gone : p.storeList[sn] # s]]

SquashEnds(p, to) ==
  \A sn \in DOMAIN p.storeList : sn > to => p.LFST[p.storeList[sn]] > to

\* Every store on the list is as old as the last one its set saw, whence the
\* loop ends for every `to`.
ListBehindLFST(p) ==
  \A sn \in DOMAIN p.storeList : sn <= p.LFST[p.storeList[sn]]
=============================================================================
