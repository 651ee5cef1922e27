---------------------------- MODULE ExitInvariant ----------------------------
(***************************************************************************)
(* Why a period of runahead ends for its own load and the next one begins  *)
(* behind it: the inductive invariant behind ExitSound, NextLoadOfPeriod   *)
(* and NoOverlap.                                                          *)
(***************************************************************************)
EXTENDS OrderInvariant

\* The load of the last period entered is never sent to memory again: in front
\* of the ROB everything is younger, and in the ROB it stays poisoned.
CauseStaysPoisoned ==
  /\ \A i \in Front : i.sn > runaheadCause.sn
  /\ \A k \in DOMAIN rob :
       rob[k].sn = runaheadCause.sn => rob[k].poisoned /\ rob[k].state # "waiting"

\* A page fault is at the head of the ROB, and stays there until commit selects a
\* squash.
FaultAtHead ==
  /\ phase \in {"update", "events", "fetch", "iew", "walk", "select"}
  /\ status = "Running"
  /\ rob # <<>> /\ Head0.kind = "pagefault" /\ Head0.fault

\* The policy decides as soon as the load returns and never again; while it is in
\* memory, what has ended the period is a page fault.
EagerDecides ==
  Policy[prog] = "Eager" =>
    /\ deadlines = {} /\ (exitable => exitRunahead)
    /\ ExitCauseOfPeriod
    /\ exitRunahead /\ runaheadCause.sn \in mem => FaultAtHead

\* Out of runahead, pc is ahead of the load of the last period by at least the
\* instructions counted since its end; in it, the saved PC is not behind it.
RetiredSince ==
  runaheadCause.pos + (IF inRunahead THEN 0 ELSE instsBetweenRunahead) <= ArchPc

ExitInv ==
  CauseStaysPoisoned /\ EagerDecides /\ NextLoadOfPeriod /\ RetiredSince
=============================================================================
