--------------------------- MODULE ValueInvariant ---------------------------
(***************************************************************************)
(* Why what an instruction reads is what in-order execution gives it: the  *)
(* inductive invariant behind SourcesTrue, PoisonSound and RegistersInOrder*)
(* on top of that of RegInvariant.  FlightInv is about what is in flight   *)
(* and the registers it leads to, ValueInv about what is in them.          *)
(***************************************************************************)
EXTENDS RegInvariant

-----------------------------------------------------------------------------
(* What is in flight and no squash has hit.                                 *)

Static(i) == [sn |-> i.sn, pos |-> i.pos, dst |-> i.dst, src |-> i.src]

Insts == Range(rob)
Queue == Range(renameNow) \cup Range(renameNext)

LiveInsts == {i \in Insts : ~Gone(i)}
QueuedInsts == IF status = "Running" THEN Queue ELSE {}

Flight == {Static(i) : i \in LiveInsts \cup QueuedInsts}

\* Where fetch goes on.
End == IF sig.squash THEN sig.pos ELSE fetchPos

\* In flight is the program, from the PC to where fetch goes on.
Positions ==
  /\ pc <= End
  /\ \A x \in Flight : pc <= x.pos /\ x.pos < End
  /\ \A x, y \in Flight : x.sn < y.sn => x.pos < y.pos
  /\ \A q \in pc..(End - 1) : \E x \in Flight : x.pos = q
  /\ sig.squash /\ phase \in {"dispatch"} \cup IewPhases => fetchPos = sig.pos

\* Each reads the mapping its place in the program has.
SourceLeads(x) ==
  /\ x.pos \in DOMAIN prog
  /\ x.dst = None <=> prog[x.pos].dst = None
  /\ x.src # None =>
       prog[x.pos].src \in Arch /\ Leads(prog[x.pos].src, x.sn, x.src)

SourcesLead == \A x \in Flight : SourceLeads(x)

\* In runahead all in flight is of runahead; after it nothing of that lives.
ModesAgree ==
  /\ inRunahead => \A i \in Insts \cup Queue : i.runahead
  /\ \A i \in Insts : Stale(i) /\ ~i.squashed => LiveInsts = {}
  /\ RestorePending => \A i \in Insts : Stale(i)

\* Rename leaves readiness to the stages behind it.
QueuedWait == \A i \in Queue : i.state = "waiting" /\ ~i.poisoned

\* What goes on executing though it is squashed has no register of anyone else.
GoneRegisters ==
  \A i \in Insts :
    Gone(i) /\ ~i.squashed /\ ~Stale(i) /\ i.dst # None =>
      \/ i.dst \in Range(freeList)
      \/ sig.squash /\ \E h \in DOMAIN history :
                         history[h].new = i.dst /\ sig.done < history[h].sn

\* Between commit and IEW the signal is all that says who is squashed.
OnWires == sig.squash /\ phase \in {"insts", "update", "events", "rename", "dispatch"}

IewFollows ==
  IF OnWires THEN \A i \in Insts : i.sn <= sig.tail
  ELSE \A i \in Insts : Gone(i) => SquashedForIew(i)

\* What is on its way to commit has been in the ROB.
PendingOld == \A e \in pending : e.sn < nextSn /\ \A i \in Queue : e.sn < i.sn

FlightInv ==
  /\ Positions /\ SourcesLead /\ ModesAgree /\ QueuedWait /\ GoneRegisters
  /\ IewFollows /\ PendingOld

-----------------------------------------------------------------------------
(* What the registers hold.                                                 *)

Unwritten(i) == i.state \in {"waiting", "issued", "sent", "executed"}

\* What has yet to write back.
InProduction == {Static(i) : i \in {j \in LiveInsts : Unwritten(j)} \cup QueuedInsts}

\* Until then neither scoreboard says that its register is ready.
NotReadyYet ==
  /\ \A x \in InProduction : x.dst \notin ready
  /\ \A i \in LiveInsts : Unwritten(i) => i.dst \notin iqReady

\* A result is the one of in-order execution, or known to be invalid.
ResultTrue(i) ==
  /\ i.poisoned => i.runahead
  /\ i.state = "sent" => i.poisoned \/ i.result = i.pos
  /\ i.dst # None /\ i.state \in {"executed", "written", "done"} =>
       i.poisoned \/ value[i.dst] = i.pos
  /\ i.dst # None /\ i.state \in {"written", "done"} /\ i.poisoned => i.dst \in poison

ResultsTrue == \A i \in LiveInsts : ResultTrue(i)

\* What is taken to be ready is not in production.
SourceWritten(i) ==
  i.srcReady /\ i.src # None =>
    \A x \in InProduction : x.sn < i.sn => x.dst # i.src

SourcesWritten ==
  /\ \A i \in LiveInsts : i.state \in {"waiting", "issued"} => SourceWritten(i)
  /\ \A i \in QueuedInsts : SourceWritten(i)

\* What has issued will read what in-order execution gives it.
SourceHolds(i) ==
  i.src = None \/ i.poisoned \/ value[i.src] = InOrderSource(i)

IssuedTrue ==
  \A i \in LiveInsts : i.state = "issued" => i.srcReady /\ SourceHolds(i)

\* Also while IEW does not know yet that it is squashed: nothing that returns
\* now writes its source.
WiresTrue ==
  OnWires =>
    \A i \in Insts :
      /\ Gone(i) /\ ~SquashedForIew(i) /\ i.state \in {"waiting", "issued"}
      /\ i.srcReady /\ i.src # None
      => /\ SourceHolds(i) \/ (i.runahead /\ i.state = "waiting" /\ i.src \in poison)
         /\ phase \in {"insts", "update", "events"} =>
              \A j \in Insts :
                j.state = "sent" /\ ~j.squashed /\ ~Stale(j) => j.dst # i.src

\* The mapping of the next to commit leads to the registers in-order execution
\* has there, in runahead as far as they are not poisoned.
CommitSn == IF sig.squash THEN 0 ELSE sig.done + 1

Holds(p, r) == value[p] = LastWriter(pc, r) \/ (inRunahead /\ p \in poison)

BaseTrue ==
  ~RestorePending => \A r \in Arch : \E p \in Phys : Leads(r, CommitSn, p) /\ Holds(p, r)

\* The checkpoint has those of the place runahead returns to.
CheckpointTrue ==
  /\ inRunahead \/ RestorePending =>
       \A r \in Arch : checkpoint[r] = LastWriter(storedPc, r)
  /\ RestorePending => pc = storedPc

\* An instruction is on its way to commit once, when it has executed.
PendingOnce ==
  \A i \in LiveInsts : \A e \in pending : e.sn = i.sn =>
    /\ i.state = "executed"
    /\ \A d \in pending : d.sn = e.sn => d = e

ValueInv ==
  /\ NotReadyYet /\ ResultsTrue /\ SourcesWritten /\ IssuedTrue /\ WiresTrue
  /\ BaseTrue /\ CheckpointTrue /\ PendingOnce

-----------------------------------------------------------------------------
(* When poison is over.                                                     *)

\* With write-back at most one cycle behind, the last of a runahead period is
\* over when the restore clears the poison.
BeforeWriteBack ==
  phase \in {"events", "rename", "free", "dispatch", "execute", "writeback"}

PoisonEnds ==
  WbBacklog <= 1 =>
    /\ \A e \in pending : e.wait <= 1 /\ (~BeforeWriteBack => e.wait = 0)
    /\ \A e \in pending : \A i \in Insts : Stale(i) /\ e.sn = i.sn =>
         e.wait = 0 /\ (restoreNext \/ (restoreNow /\ BeforeWriteBack))
    /\ ~inRunahead /\ ~RestorePending => poison = {}
=============================================================================
