---------------------------- MODULE RegInvariant ----------------------------
(***************************************************************************)
(* Why no register is handed out while something still leads to it: the    *)
(* inductive invariant behind RegsHeld.  It says what a history entry, the *)
(* commit map and a waiting reader have to do with each other while the ROB*)
(* squashes, while the history is undone and while a restore is on its way.*)
(***************************************************************************)
EXTENDS RegRestore

IewPhases == {"execute", "writeback", "issue"}
CommitPhases == {"walk", "select", "insts", "update"}

Youngest(s, sn) == \A k \in DOMAIN s : s[k].sn < sn
Oldest(s, sn) == \A k \in DOMAIN s : sn < s[k].sn

AgeOrder(s) == \A j, k \in DOMAIN s : j < k => s[j].sn < s[k].sn
Older(s, t) == \A j \in DOMAIN s : \A k \in DOMAIN t : s[j].sn < t[k].sn

\* The pipeline keeps program order.
FlightOrder ==
  /\ AgeOrder(rob) /\ AgeOrder(renameNow) /\ AgeOrder(renameNext)
  /\ Older(rob, renameNow) /\ Older(rob, renameNext) /\ Older(renameNow, renameNext)
  /\ Youngest(rob, nextSn) /\ Youngest(renameNow, nextSn) /\ Youngest(renameNext, nextSn)
  /\ Oldest(rob, 0) /\ Oldest(renameNow, 0) /\ Oldest(renameNext, 0)

\* The history buffer is sorted, newest first.
HistoryOrder ==
  /\ \A j, k \in DOMAIN history : j < k => history[k].sn < history[j].sn
  /\ \A k \in DOMAIN history : 0 < history[k].sn /\ history[k].sn < nextSn

\* What the squash signal leaves, or what the commit signal has not yet taken.
Kept(sn) == IF sig.squash THEN sn <= sig.done ELSE sig.done < sn

\* When a signal is on the wires, and what is still between rename and the ROB.
SignalPhases ==
  /\ phase \in IewPhases \cup CommitPhases => renameNow = <<>>
  /\ phase = "events" => renameNext = <<>>
  /\ sig.squash => status = "ROBSquashing" /\ phase \notin {"free", "walk", "select"}
  /\ sig.squash /\ phase \in {"rename", "dispatch"} \cup IewPhases => renameNext = <<>>
  /\ phase \in {"walk", "select"} => sig = NoSig
  /\ status = "ROBSquashing" /\ ~sig.squash => renameNow = <<>> /\ renameNext = <<>>

\* Nothing in the pipeline is committed; a squash goes as far as its signal says.
SignalSound ==
  /\ sig.done < nextSn /\ sig.tail < nextSn /\ iewRange.hi < nextSn
  /\ ~sig.squash => Oldest(rob, sig.done) /\ Oldest(renameNow, sig.done)
                    /\ Oldest(renameNext, sig.done)
  /\ sig.squash => /\ rob # <<>> => squashTo = sig.done
                   /\ Oldest(renameNow, sig.done) /\ Oldest(renameNext, sig.done)
  /\ phase \in {"dispatch"} \cup IewPhases =>
       \A k \in DOMAIN history : Kept(history[k].sn)

\* The walk comes to whatever it has to mark.
WalkReaches ==
  /\ status = "Running" => squashIt = 0
  /\ squashIt <= Len(rob)
  /\ status = "ROBSquashing" =>
       \A k \in DOMAIN rob :
         rob[k].sn > squashTo => rob[k].squashed \/ k <= squashIt

\* Squashed, or to be marked before anything else retires.
Gone(i) == i.squashed \/ (status = "ROBSquashing" /\ squashTo < i.sn)

\* What IEW takes for squashed is.
IewKnows ==
  /\ \A k \in DOMAIN rob : SquashedForIew(rob[k]) => Gone(rob[k])
  /\ Oldest(renameNow, iewRange.hi) /\ Oldest(renameNext, iewRange.hi)
  /\ \A k \in DOMAIN renameNow : ~renameNow[k].squashed
  /\ \A k \in DOMAIN renameNext : ~renameNext[k].squashed
  /\ status = "Running" => /\ \A k \in DOMAIN renameNow : ~Stale(renameNow[k])
                           /\ \A k \in DOMAIN renameNext : ~Stale(renameNext[k])

\* In runahead there is nothing older than its cause.
CauseOldest ==
  inRunahead =>
    /\ cause < nextSn
    /\ Oldest(rob, cause - 1) /\ Oldest(renameNow, cause - 1)
    /\ Oldest(renameNext, cause - 1)

\* From the exit to the restore: all there is squashes, all history is undone.
AllGone ==
  /\ restoreNext => sig.squash /\ phase \in {"insts", "update"}
  /\ restoreNow /\ phase \in {"events", "rename", "free", "dispatch"} \cup IewPhases =>
       sig.squash
  /\ restoreNow /\ phase \in IewPhases \cup CommitPhases => renameNext = <<>>
  /\ RestorePending =>
       ~inRunahead /\ \A k \in DOMAIN rob : Gone(rob[k])
  /\ restoreNext \/ (restoreNow /\ phase \in {"events", "rename", "dispatch"}) =>
       Oldest(rob, sig.done)
  /\ restoreNext \/ (restoreNow /\ phase \in {"events", "rename"}) =>
       Oldest(history, sig.done)
  /\ restoreNow /\ phase \notin {"events", "rename"} => history = <<>>

Owns(i, h) == i.sn = h.sn /\ i.dst = h.new /\ OpOf(i).dst = h.arch

Owned(s, h) == \E j \in DOMAIN s : Owns(s[j], h)
Recorded(i) == i.dst # None => \E k \in DOMAIN history : Owns(i, history[k])

\* What is in flight and its history entry come and go together.
HistoryMatches ==
  /\ \A k \in DOMAIN history : Kept(history[k].sn) =>
       \/ \E j \in DOMAIN rob : ~Gone(rob[j]) /\ Owns(rob[j], history[k])
       \/ status = "Running" /\ (Owned(renameNow, history[k]) \/ Owned(renameNext, history[k]))
  /\ \A j \in DOMAIN rob : ~Gone(rob[j]) => Recorded(rob[j])
  /\ status = "Running" => /\ \A j \in DOMAIN renameNow : Recorded(renameNow[j])
                           /\ \A j \in DOMAIN renameNext : Recorded(renameNext[j])

\* The mapping of register r as rename found it for sequence number sn: what
\* the oldest entry of r from there on has replaced, or the rename map's.
Since(r, sn) == {k \in DOMAIN history : history[k].arch = r /\ sn <= history[k].sn}

Leads(r, sn, p) ==
  /\ Since(r, sn) = {} => renameMap[r] = p
  /\ \A k \in Since(r, sn) : (\A j \in Since(r, sn) : j <= k) => history[k].prev = p

\* The commit map is the mapping of the next to commit.
CommitMapLeads ==
  ~inRunahead /\ ~RestorePending =>
    \A r \in Arch : Leads(r, IF sig.squash THEN 0 ELSE sig.done + 1, commitMap[r])

\* What waits reads the mapping its place in the program has.
ReaderLeads(i) ==
  i.state = "waiting" /\ i.src # None =>
    OpOf(i).src \in Arch /\ Leads(OpOf(i).src, i.sn, i.src)

ReadersLead ==
  /\ \A k \in DOMAIN rob : Kept(rob[k].sn) => ReaderLeads(rob[k])
  /\ ~sig.squash => /\ \A k \in DOMAIN renameNow : ReaderLeads(renameNow[k])
                    /\ \A k \in DOMAIN renameNext : ReaderLeads(renameNext[k])
  /\ sig.squash /\ phase \in IewPhases =>
       \A k \in DOMAIN rob : sig.done < rob[k].sn => rob[k].state # "waiting"
  /\ restoreNow /\ phase \in IewPhases \cup CommitPhases =>
       \A k \in DOMAIN rob : rob[k].state # "waiting"

HeldInv ==
  /\ FlightOrder /\ HistoryOrder /\ SignalPhases /\ SignalSound /\ WalkReaches
  /\ IewKnows /\ CauseOldest /\ AllGone /\ HistoryMatches /\ CommitMapLeads
  /\ ReadersLead
=============================================================================
