---------------------------- MODULE ModeInvariant ----------------------------
(***************************************************************************)
(* Why normal and runahead mode do not mix: the inductive invariant behind *)
(* ModeAgreement, NoTrapInRunahead, TrapWillSquash and SquashAfterPaired.  *)
(***************************************************************************)
EXTENDS RunaheadCore

Sorted(s) == \A j, k \in DOMAIN s : j < k => s[j].sn < s[k].sn

Before(s, t) == \A j \in DOMAIN s, k \in DOMAIN t : s[j].sn < t[k].sn

NotOlder(s, sn) == \A k \in DOMAIN s : sn <= s[k].sn

NumberedBelow(s, sn) == \A k \in DOMAIN s : s[k].sn < sn

AllRunahead(s) == \A k \in DOMAIN s : s[k].runahead

NoneRunahead(s) == \A k \in DOMAIN s : ~s[k].runahead

\* Instructions are in program order, the pipeline from rename's end to fetch.
AgeOrder ==
  /\ Sorted(rob) /\ Sorted(renameNow) /\ Sorted(renameNext) /\ Sorted(fetchQueue)
  /\ Before(rob, renameNow) /\ Before(rob, renameNext) /\ Before(rob, fetchQueue)
  /\ Before(renameNow, renameNext) /\ Before(renameNow, fetchQueue)
  /\ Before(renameNext, fetchQueue)
  /\ NumberedBelow(rob, nextSn) /\ NumberedBelow(renameNow, nextSn)
  /\ NumberedBelow(renameNext, nextSn) /\ NumberedBelow(fetchQueue, nextSn)

\* Nothing in the pipeline is older than the load of the last period entered,
\* so the squash of an exit, which starts at that load or, if the deadline of
\* an earlier period brought it about, at an older one, covers the whole ROB.
CauseIsOldest ==
  /\ exitCause.sn <= runaheadCause.sn /\ runaheadCause.sn < nextSn
  /\ NotOlder(rob, runaheadCause.sn) /\ NotOlder(renameNow, runaheadCause.sn)
  /\ NotOlder(renameNext, runaheadCause.sn)
  /\ NotOlder(fetchQueue, runaheadCause.sn)

\* Which part of the cycle may leave what behind.
CycleOrder ==
  /\ phase \in {"insts", "update"} => renameNow = <<>>
  /\ phase \in {"events", "fetch"} => renameNext = <<>>
  /\ sig.squash => /\ status = "ROBSquashing"
                   /\ phase \in {"iewsquash", "get", "update", "events", "fetch", "iew"}
  /\ phase \notin {"iewsquash", "get", "insts", "update"} => wasRunahead = inRunahead
  /\ phase \in {"iewsquash", "get"} => status # "SquashAfterPending"
  /\ phase = "insts" => status # "ROBSquashing"

\* In runahead every instruction in the pipeline is a runahead one.
AllInRunahead ==
  inRunahead => /\ AllRunahead(rob) /\ AllRunahead(renameNow)
                /\ AllRunahead(renameNext) /\ AllRunahead(fetchQueue)

\* Out of it, a runahead instruction the squash of the exit has yet to mark lies
\* where the walk will come to it, and out of reach of any squash from IEW.
ToBeMarked(k) ==
  /\ status = "ROBSquashing"
  /\ squashIt \in DOMAIN rob /\ k <= squashIt
  /\ rob[k].sn > squashTo /\ rob[k].sn > youngestSeqNum

StaleInRob ==
  ~inRunahead =>
    \A k \in DOMAIN rob : rob[k].runahead => rob[k].squashed \/ ToBeMarked(k)

\* In front of the ROB there is none once the stages have seen the squash.
StaleInFront ==
  ~inRunahead /\ (sig.squash => phase = "iew") =>
    NoneRunahead(renameNow) /\ NoneRunahead(renameNext) /\ NoneRunahead(fetchQueue)

ExitInRunahead == exitRunahead \/ exitable => inRunahead

\* One trap at a time, none of a runahead instruction, and commit waits for it.
TrapPaired ==
  /\ status = "TrapPending" <=> trapEvent = "normal" \/ trapSquash
  /\ trapEvent # "runahead"
  /\ ~(trapEvent = "normal" /\ trapSquash)
  /\ trapInFlight => status = "TrapPending"
  /\ inRunahead => status # "TrapPending"

ModeInv ==
  /\ AgeOrder /\ CauseIsOldest /\ CycleOrder
  /\ AllInRunahead /\ StaleInRob /\ StaleInFront
  /\ ExitInRunahead /\ TrapPaired /\ SquashAfterPaired
=============================================================================
