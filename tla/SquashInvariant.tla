-------------------------- MODULE SquashInvariant --------------------------
(***************************************************************************)
(* Why squashes of several sources do not get in each other's way: the     *)
(* inductive invariant behind SquashSound and RestoreFirst.                *)
(***************************************************************************)
EXTENDS ModeInvariant

\* Nothing in the pipeline is older than what has been committed.
CommittedIsOldest ==
  /\ lastCommitedSeqNum < nextSn
  /\ NotOlder(rob, lastCommitedSeqNum + 1) /\ NotOlder(renameNow, lastCommitedSeqNum + 1)
  /\ NotOlder(renameNext, lastCommitedSeqNum + 1)
  /\ NotOlder(fetchQueue, lastCommitedSeqNum + 1)

\* While the ROB squashes, what is younger than the oldest squash is marked, or
\* the walk will come to it; and the walk goes no further down than that squash.
WalkReaches ==
  status = "ROBSquashing" =>
    /\ \A k \in DOMAIN rob :
         rob[k].sn > youngestSeqNum => rob[k].squashed \/ ToBeMarked(k)
    /\ rob # <<>> => youngestSeqNum <= squashTo

\* The cycle of an exit and the one after it, at the end of which the registers
\* are restored: all that is left of the period is on its way out, what is in
\* front of the ROB with the squash signal.
Restoring ==
  /\ archRestoreNext => sig.squash /\ phase \in {"iewsquash", "get", "update"}
  /\ archRestoreNow => IF phase \in {"events", "fetch"}
                       THEN sig.squash ELSE renameNow = <<>> /\ renameNext = <<>>
  /\ RestorePending => /\ ~inRunahead /\ AllRunahead(rob)
                       /\ AllRunahead(renameNow) /\ AllRunahead(renameNext)

\* A squash IEW asked for from the instruction sn on: the one it is for is at k.
OnBehalf(sn, k) ==
  /\ rob[k].sn = sn /\ ~rob[k].squashed /\ rob[k].state # "waiting"
  /\ rob[k].runahead = inRunahead \/ ToBeMarked(k)

\* The instruction at k cannot be committed in this cycle.
Held(k) ==
  \E j \in DOMAIN rob : j <= k /\ ~rob[j].squashed /\ rob[j].state = "executed"

\* A squash of commit has overtaken the one from sn on.
Overtaken(sn) ==
  sn > youngestSeqNum /\ sn > lastCommitedSeqNum /\ sn >= runaheadCause.sn

\* A squash IEW asked for in this cycle, and one of the last cycle until commit
\* reads it.
RedirectSent ==
  iewNext.squash =>
    /\ phase \notin {"events", "fetch"}
    /\ \/ /\ phase \notin {"iew", "walk"} /\ status = "ROBSquashing"
          /\ Overtaken(iewNext.sn)
       \/ \E k \in DOMAIN rob :
            OnBehalf(iewNext.sn, k) /\ (phase # "update" => Held(k))

RedirectRead ==
  iewNow.squash /\ phase \in {"events", "fetch", "iew", "walk", "select", "iewsquash"} =>
    Overtaken(iewNow.sn) \/ \E k \in DOMAIN rob : OnBehalf(iewNow.sn, k)

SquashInv ==
  CommittedIsOldest /\ WalkReaches /\ Restoring /\ RedirectSent /\ RedirectRead

\* What commit may rely on when several squashes and a change of mode meet
\* (commit.cc:1070-1149, rob.cc:702-728, cpu.cc:1710-1858): the modes of all in
\* flight, and how far each walk, restore and redirect of fetch has come.
PipelineInv == ModeInv /\ SquashInv
=============================================================================
