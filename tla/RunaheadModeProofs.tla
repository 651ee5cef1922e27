-------------------------- MODULE RunaheadModeProofs --------------------------
(***************************************************************************)
(* TypeOK and RegsRestored are invariants of RunaheadCore; so is ModeInv,  *)
(* and with it ModeAgreement, NoTrapInRunahead, TrapWillSquash and         *)
(* SquashAfterPaired; and SquashInv, with SquashSound and RestoreFirst.    *)
(***************************************************************************)
EXTENDS SquashInvariant, SequenceTheorems, TLAPS

-----------------------------------------------------------------------------
(* Instructions and sequences of them.                                     *)

LEMMA InstFields ==
  ASSUME NEW i \in Inst
  PROVE  /\ i.sn \in Nat /\ i.pos \in Nat /\ i.kind \in Kinds
         /\ i.state \in States /\ i.mispred \in BOOLEAN /\ i.fault \in BOOLEAN
         /\ i.runahead \in BOOLEAN /\ i.poisoned \in BOOLEAN
         /\ i.squashed \in BOOLEAN
  BY DEF Inst

\* The updates the pipeline makes to an instruction give an instruction.
LEMMA InstUpdates ==
  ASSUME NEW i \in Inst
  PROVE  /\ \A st \in States : [i EXCEPT !.state = st] \in Inst
         /\ [i EXCEPT !.squashed = TRUE] \in Inst
         /\ [i EXCEPT !.poisoned = TRUE] \in Inst
         /\ [i EXCEPT !.runahead = TRUE] \in Inst
         /\ \A f \in BOOLEAN : [i EXCEPT !.fault = f] \in Inst
  BY DEF Inst

\* Changing the instructions of a sequence one by one leaves a sequence.
LEMMA MapType ==
  ASSUME NEW s \in Seq(Inst), NEW t,
         t = [k \in DOMAIN s |-> t[k]],
         \A k \in DOMAIN s : t[k] \in Inst
  PROVE  t \in Seq(Inst) /\ Len(t) = Len(s) /\ DOMAIN t = DOMAIN s
  <1>1. DOMAIN s = 1..Len(s) /\ Len(s) \in Nat
    BY LenProperties
  <1>2. t \in [1..Len(s) -> Inst]
    BY <1>1
  <1>3. QED
    BY <1>1, <1>2, IsASeq, LenProperties

LEMMA ExceptType ==
  ASSUME NEW s \in Seq(Inst), NEW k \in DOMAIN s, NEW i \in Inst
  PROVE  /\ [s EXCEPT ![k] = i] \in Seq(Inst)
         /\ DOMAIN [s EXCEPT ![k] = i] = DOMAIN s
         /\ Len([s EXCEPT ![k] = i]) = Len(s)
  BY ExceptSeq, LenProperties

LEMMA MarkSquashedType ==
  ASSUME NEW s \in Seq(Inst), NEW K
  PROVE  MarkSquashed(s, K) \in Seq(Inst)
  <1> DEFINE t == MarkSquashed(s, K)
  <1>1. t = [k \in DOMAIN s |-> t[k]]
    BY DEF MarkSquashed
  <1>2. ASSUME NEW k \in DOMAIN s
        PROVE  t[k] \in Inst
    <2>1. s[k] \in Inst
      BY ElementOfSeq, LenProperties
    <2>2. [s[k] EXCEPT !.squashed = TRUE] \in Inst
      BY <2>1, InstUpdates
    <2>3. QED
      BY <2>1, <2>2 DEF MarkSquashed
  <1>3. QED
    BY <1>1, <1>2, MapType

LEMMA SetRunaheadType ==
  ASSUME NEW s \in Seq(Inst)
  PROVE  SetRunahead(s) \in Seq(Inst) /\ DOMAIN SetRunahead(s) = DOMAIN s
  <1> DEFINE t == SetRunahead(s)
  <1>1. t = [k \in DOMAIN s |-> t[k]]
    BY DEF SetRunahead
  <1>2. ASSUME NEW k \in DOMAIN s
        PROVE  t[k] \in Inst
    <2>1. s[k] \in Inst
      BY ElementOfSeq, LenProperties
    <2>2. QED
      BY <2>1, InstUpdates DEF SetRunahead
  <1>3. QED
    BY <1>1, <1>2, MapType

LEMMA WalkNextType ==
  ASSUME NEW s \in Seq(Inst), NEW from \in Nat, NEW to \in Int, NEW w \in Nat
  PROVE  WalkNext(s, from, to, w) \in Nat
  BY LenProperties DEF WalkNext

LEMMA UnsentValidLoadType ==
  ASSUME NEW s \in Seq(Inst), NEW limit
  PROVE  UnsentValidLoad(s, limit) \in Nat
  <1> DEFINE valid  == {k \in DOMAIN s : s[k].kind = "load" /\ ~s[k].poisoned}
             quota  == IF limit = -1 THEN Len(s) ELSE limit
             older(k) == {j \in valid : j < k}
             looked == {k \in valid : older(k) = {} \/ Cardinality(older(k)) < quota}
             unsent == {k \in looked : ~IsExecuted(s[k])}
             last   == CHOOSE k \in unsent : \A j \in unsent : j <= k
  <1>1. UnsentValidLoad(s, limit) =
          IF \E k \in unsent : \A j \in unsent : j <= k THEN s[last].sn ELSE 0
    BY DEF UnsentValidLoad
  <1>2. \A k \in DOMAIN s : s[k].sn \in Nat
    BY ElementOfSeq, LenProperties, InstFields
  <1>3. CASE \E k \in unsent : \A j \in unsent : j <= k
    <2>1. last \in unsent
      BY <1>3, Zenon
    <2>2. last \in DOMAIN s
      BY <2>1
    <2> HIDE DEF last, unsent
    <2>3. QED
      BY <1>1, <1>2, <1>3, <2>2
  <1>4. CASE ~ \E k \in unsent : \A j \in unsent : j <= k
    <2> HIDE DEF last, unsent
    <2>1. QED
      BY <1>1, <1>4
  <1>5. QED
    BY <1>3, <1>4

LEMMA SeqTypes ==
  ASSUME NEW s \in Seq(Inst)
  PROVE  /\ \A k \in DOMAIN s : s[k] \in Inst
         /\ Len(s) \in Nat /\ DOMAIN s = 1..Len(s)
         /\ s # <<>> => s[1] \in Inst /\ s[Len(s)] \in Inst
                       /\ Tail(s) \in Seq(Inst)
         /\ \A n \in 0..Len(s) : /\ SubSeq(s, 1, n) \in Seq(Inst)
                                 /\ SubSeq(s, n + 1, Len(s)) \in Seq(Inst)
         /\ \A i \in Inst : Append(s, i) \in Seq(Inst)
         /\ \A t \in Seq(Inst) : s \o t \in Seq(Inst)
         /\ <<>> \in Seq(Inst)
  <1>1. Len(s) \in Nat /\ DOMAIN s = 1..Len(s)
    BY LenProperties
  <1>2. \A k \in DOMAIN s : s[k] \in Inst
    BY <1>1, ElementOfSeq
  <1>3. s # <<>> => s[1] \in Inst /\ s[Len(s)] \in Inst /\ Tail(s) \in Seq(Inst)
    BY <1>1, <1>2, EmptySeq, HeadTailProperties
  <1>4. ASSUME NEW n \in 0..Len(s)
        PROVE  SubSeq(s, 1, n) \in Seq(Inst) /\ SubSeq(s, n + 1, Len(s)) \in Seq(Inst)
    BY <1>1, <1>2, SubSeqProperties
  <1>5. QED
    BY <1>1, <1>2, <1>3, <1>4, AppendProperties, ConcatProperties, EmptySeq

-----------------------------------------------------------------------------
(* Type correctness.                                                       *)

LEMMA RobSquashType ==
  ASSUME RobType, NEW to \in Int, RobSquash(to)
  PROVE  RobType'
  <1>1. CASE rob = <<>>
    BY <1>1 DEF RobType, RobSquash, robVars
  <1>2. CASE rob # <<>>
    <2>1. rob' \in Seq(Inst)
      BY <1>2, MarkSquashedType DEF RobType, RobSquash
    <2>2. squashIt' \in Nat
      BY <1>2, WalkNextType, SeqTypes, SizeAssumption DEF RobType, RobSquash
    <2>3. QED
      BY <1>2, <2>1, <2>2 DEF RobType, RobSquash
  <1>3. QED
    BY <1>1, <1>2

LEMMA SignalSquashType ==
  ASSUME RobType, NEW to \in Int, NEW newPc \in Nat, SignalSquash(to, newPc)
  PROVE  SigType'
  <1>1. RobTail(to) \in Int
    BY SeqTypes, InstFields DEF RobTail, RobType
  <1>2. QED
    BY <1>1 DEF SignalSquash, SigType

LEMMA InitType == Init => TypeOK
  <1> SUFFICES ASSUME Init PROVE TypeOK
    OBVIOUS
  <1>1. prog \in Seq(Kinds)
    BY ProgramAssumption DEF Init
  <1>2. faults \in SUBSET Nat
    BY <1>1, LenProperties DEF Init
  <1>3. <<>> \in Seq(Inst)
    BY EmptySeq
  <1>4. FrontType /\ RenameType /\ RobType /\ mem \in SUBSET Nat /\ IewType /\ SigType
    BY <1>3 DEF Init, FrontType, RenameType, RobType, IewType, SigType, IewMsg,
                NoIewMsg, NoSig
  <1>5. CommitType /\ TrapType
    <2>1. CommitType
      BY DEF Init, CommitType
    <2>2. trapInFlight \in BOOLEAN /\ trapSquash \in BOOLEAN
      BY DEF Init
    <2>3. trapEvent \in {"none", "normal", "runahead"} /\ squashAfterInst \in Nat
      BY DEF Init
    <2>4. QED
      BY <1>2, <2>1, <2>2, <2>3 DEF TrapType
  <1>6. ModeType /\ ExitType /\ CountType /\ ArchType
    BY DEF Init, ModeType, ExitType, CountType, ArchType, Cause, NoCause
  <1>7. QED
    BY <1>1, <1>4, <1>5, <1>6 DEF Init, TypeOK

\* What the three squashes of commit that go through squashAll share.
LEMMA SquashAllType ==
  ASSUME TypeOK, SquashAll
  PROVE  /\ RobType' /\ SigType'
         /\ youngestSeqNum' = lastCommitedSeqNum /\ status' = "ROBSquashing"
  <1> DEFINE to == IF rob = <<>> THEN lastCommitedSeqNum ELSE Head0.sn - 1
  <1>1. to \in Int
    BY SeqTypes, InstFields DEF TypeOK, RobType, CommitType, Head0
  <1>2. RobSquash(to) /\ SignalSquash(to, pc)
    BY DEF SquashAll
  <1>3. RobType' /\ SigType'
    <2> HIDE DEF to
    <2>1. QED
      BY <1>1, <1>2, RobSquashType, SignalSquashType DEF TypeOK, CommitType
  <1>4. QED
    BY <1>3 DEF SquashAll

LEMMA WriteBackType ==
  ASSUME TypeOK, NEW K, K \subseteq DOMAIN rob, WriteBackLoads(K)
  PROVE  /\ rob' \in Seq(Inst) /\ iewNext' \in IewMsg
         /\ regs' \in {"arch", "runahead"}
  <1>1. rob \in Seq(Inst) /\ \A k \in DOMAIN rob : rob[k] \in Inst
    BY SeqTypes DEF TypeOK, RobType
  <1>2. rob' = [k \in DOMAIN rob |-> rob'[k]]
    BY DEF WriteBackLoads
  <1>3. ASSUME NEW k \in DOMAIN rob
        PROVE  rob'[k] \in Inst
    BY <1>1, InstUpdates DEF WriteBackLoads, States
  <1>4. rob' \in Seq(Inst)
    BY <1>1, <1>2, <1>3, MapType
  <1>5. {rob[k].sn : k \in K} \subseteq Nat
    BY <1>1, InstFields
  <1>6. iewNext' \in IewMsg
    BY <1>5 DEF WriteBackLoads, IewMsg, TypeOK, IewType
  <1>7. QED
    BY <1>4, <1>6 DEF WriteBackLoads, TypeOK, ArchType

\* Each group of variables keeps its type in a step that leaves it alone.
LEMMA TypeFrame ==
  ASSUME TypeOK
  PROVE  /\ UNCHANGED frontVars => FrontType'
         /\ UNCHANGED renameVars => RenameType'
         /\ UNCHANGED robVars => RobType'
         /\ rob' \in Seq(Inst) /\ UNCHANGED <<squashIt, squashTo>> => RobType'
         /\ UNCHANGED iewVars => IewType'
         /\ iewNext' \in IewMsg /\ UNCHANGED <<iewNow, iewRange>> => IewType'
         /\ UNCHANGED sig => SigType'
         /\ UNCHANGED commitVars => CommitType'
         /\ UNCHANGED trapVars => TrapType'
         /\ UNCHANGED modeVars => ModeType'
         /\ UNCHANGED exitVars => ExitType'
         /\ UNCHANGED countVars => CountType'
         /\ UNCHANGED archVars => ArchType'
         /\ (regs' \in {"arch", "runahead"} /\
             UNCHANGED <<archRestoreNext, archRestoreNow>>) => ArchType'
         /\ UNCHANGED prog => (prog \in Seq(Kinds))'
         /\ UNCHANGED mem => (mem \in SUBSET Nat)'
  <1>1. /\ UNCHANGED frontVars => FrontType'
        /\ UNCHANGED renameVars => RenameType'
        /\ UNCHANGED robVars => RobType'
        /\ rob' \in Seq(Inst) /\ UNCHANGED <<squashIt, squashTo>> => RobType'
    BY DEF TypeOK, FrontType, RenameType, RobType, frontVars, renameVars, robVars
  <1>2. /\ UNCHANGED iewVars => IewType'
        /\ iewNext' \in IewMsg /\ UNCHANGED <<iewNow, iewRange>> => IewType'
        /\ UNCHANGED sig => SigType'
    BY DEF TypeOK, IewType, SigType, iewVars
  <1>3. /\ UNCHANGED commitVars => CommitType'
        /\ UNCHANGED trapVars => TrapType'
        /\ UNCHANGED modeVars => ModeType'
    BY DEF TypeOK, CommitType, TrapType, ModeType, commitVars, trapVars, modeVars
  <1>4. /\ UNCHANGED exitVars => ExitType'
        /\ UNCHANGED countVars => CountType'
    BY DEF TypeOK, ExitType, CountType, exitVars, countVars
  <1>5. /\ UNCHANGED archVars => ArchType'
        /\ (regs' \in {"arch", "runahead"} /\
            UNCHANGED <<archRestoreNext, archRestoreNow>>) => ArchType'
    BY DEF TypeOK, ArchType, archVars
  <1>6. /\ UNCHANGED prog => (prog \in Seq(Kinds))'
        /\ UNCHANGED mem => (mem \in SUBSET Nat)'
    BY DEF TypeOK
  <1>7. QED
    BY <1>1, <1>2, <1>3, <1>4, <1>5, <1>6

LEMMA SignalExitType ==
  ASSUME TypeOK, NEW hasChain \in BOOLEAN, SignalExitRunahead(hasChain)
  PROVE  ExitType'
  <1>1. CASE exitable
    BY <1>1 DEF SignalExitRunahead, exitVars, TypeOK, ExitType
  <1>2. CASE ~exitable
    <2>1. NextLoad \in Nat
      BY UnsentValidLoadType DEF NextLoad, TypeOK, RobType
    <2>2. exitSeqNum' \in Nat
      BY <1>2, <2>1 DEF SignalExitRunahead, TypeOK, ExitType
    <2>3. exitRunahead' \in BOOLEAN /\ exitable' \in BOOLEAN /\ exitCause' \in Cause
      BY <1>2 DEF SignalExitRunahead, TypeOK, ModeType
    <2>4. deadlines' \in SUBSET Nat
      BY <1>2 DEF SignalExitRunahead, ArmedDeadlines, TypeOK, ExitType, ModeType, Cause
    <2>5. QED
      BY <2>2, <2>3, <2>4 DEF ExitType
  <1>3. QED
    BY <1>1, <1>2

LEMMA EventType ==
  ASSUME TypeOK, Event
  PROVE  TypeOK'
  <1>1. ASSUME NEW sn \in mem, LLLReturn(sn)
        PROVE  TypeOK'
    <2>1. ExitType'
      BY <1>1, SignalExitType DEF LLLReturn
    <2>2. mem' \in SUBSET Nat
      BY <1>1 DEF LLLReturn, TypeOK
    <2>3. QED
      BY <1>1, <2>1, <2>2, TypeFrame DEF LLLReturn, TypeOK
  <1>2. ASSUME NEW sn \in mem, MemResponse(sn)
        PROVE  TypeOK'
    <2>1. /\ rob' \in Seq(Inst) /\ iewNext' \in IewMsg
          /\ regs' \in {"arch", "runahead"}
      BY <1>2, WriteBackType DEF MemResponse
    <2>2. mem' \in SUBSET Nat
      BY <1>2 DEF MemResponse, TypeOK
    <2>3. QED
      BY <1>2, <2>1, <2>2, TypeFrame DEF MemResponse, TypeOK
  <1>3. ASSUME NEW k \in DOMAIN rob, ForgedResponse(k)
        PROVE  TypeOK'
    <2>1. /\ rob' \in Seq(Inst) /\ iewNext' \in IewMsg
          /\ regs' \in {"arch", "runahead"}
      BY <1>3, WriteBackType DEF ForgedResponse
    <2>2. QED
      BY <1>3, <2>1, TypeFrame DEF ForgedResponse, TypeOK
  <1>4. CASE InFlightTooLong
    <2>1. rob \in Seq(Inst) /\ 1 \in DOMAIN rob /\ rob[1] \in Inst
      BY <1>4, SeqTypes, EmptySeq DEF InFlightTooLong, TypeOK, RobType
    <2>2. [rob[1] EXCEPT !.state = "old"] \in Inst
      BY <2>1, InstUpdates DEF States
    <2>3. rob' \in Seq(Inst)
      BY <1>4, <2>1, <2>2, ExceptType DEF InFlightTooLong
    <2>4. QED
      BY <1>4, <2>3, TypeFrame DEF InFlightTooLong, TypeOK
  <1>5. ASSUME NEW sn \in deadlines, DeadlineEvent(sn)
        PROVE  TypeOK'
    <2>1. ExitType'
      BY <1>5 DEF DeadlineEvent, TypeOK, ExitType
    <2>2. QED
      BY <1>5, <2>1, TypeFrame DEF DeadlineEvent, TypeOK
  <1>6. CASE ProcessTrapEvent
    <2>1. TrapType'
      BY <1>6 DEF ProcessTrapEvent, TypeOK, TrapType
    <2>2. QED
      BY <1>6, <2>1, TypeFrame DEF ProcessTrapEvent, TypeOK
  <1>7. QED
    BY <1>1, <1>2, <1>3, <1>4, <1>5, <1>6 DEF Event

LEMMA FetchInstType ==
  ASSUME TypeOK, NEW queue \in Seq(Inst), NEW k \in Kinds, NEW mispred \in BOOLEAN,
         FetchInst(queue, k, mispred)
  PROVE  FrontType'
  <1>1. NewInst(k, mispred) \in Inst
    BY DEF NewInst, FaultsAtFetch, Inst, States, TypeOK, FrontType, ModeType
  <1>2. fetchQueue' \in Seq(Inst)
    BY <1>1, SeqTypes DEF FetchInst
  <1>3. EndOfProgram \in Nat
    BY LenProperties DEF EndOfProgram, TypeOK
  <1>4. fetchPc' \in Nat /\ nextSn' \in Nat \ {0}
    BY <1>3 DEF FetchInst, TypeOK, FrontType
  <1>5. QED
    BY <1>2, <1>4 DEF FrontType

LEMMA FrontEndType ==
  ASSUME TypeOK, StartTick \/ FrontEndSquash \/ FrontEndAdvance \/ FrontEndDiscard
  PROVE  TypeOK'
  <1>1. CASE StartTick
    BY <1>1, TypeFrame DEF StartTick, TypeOK
  <1>2. CASE FrontEndSquash
    <2>1. FrontType' /\ RenameType'
      BY <1>2, EmptySeq DEF FrontEndSquash, TypeOK, FrontType, RenameType, SigType
    <2>2. QED
      BY <1>2, <2>1, TypeFrame DEF FrontEndSquash, TypeOK
  <1>3. CASE FrontEndAdvance
    <2>1. PICK n \in 0..Len(fetchQueue) :
            LET rest == SubSeq(fetchQueue, n + 1, Len(fetchQueue))
            IN  /\ renameNext' = SubSeq(fetchQueue, 1, n)
                /\ \/ fetchQueue' = rest /\ UNCHANGED <<fetchPc, nextSn>>
                   \/ \E k \in Kinds, mispred \in BOOLEAN : FetchInst(rest, k, mispred)
      BY <1>3 DEF FrontEndAdvance
    <2> DEFINE rest == SubSeq(fetchQueue, n + 1, Len(fetchQueue))
    <2>2. rest \in Seq(Inst) /\ renameNext' \in Seq(Inst)
      BY <2>1, SeqTypes DEF TypeOK, FrontType
    <2>3. RenameType'
      BY <1>3, <2>2 DEF FrontEndAdvance, TypeOK, RenameType
    <2>4. \/ fetchQueue' = rest /\ UNCHANGED <<fetchPc, nextSn>>
          \/ \E k \in Kinds, mispred \in BOOLEAN : FetchInst(rest, k, mispred)
      BY <2>1
    <2> HIDE DEF rest
    <2>5. FrontType'
      <3>1. CASE fetchQueue' = rest /\ UNCHANGED <<fetchPc, nextSn>>
        BY <2>2, <3>1 DEF TypeOK, FrontType
      <3>2. CASE \E k \in Kinds, mispred \in BOOLEAN : FetchInst(rest, k, mispred)
        BY <2>2, <3>2, FetchInstType
      <3>3. QED
        BY <2>4, <3>1, <3>2
    <2>6. QED
      BY <1>3, <2>3, <2>5, TypeFrame DEF FrontEndAdvance, TypeOK
  <1>4. CASE FrontEndDiscard
    <2>1. FrontType'
      BY <1>4, SeqTypes DEF FrontEndDiscard, TypeOK, FrontType
    <2>2. QED
      BY <1>4, <2>1, TypeFrame DEF FrontEndDiscard, TypeOK
  <1>5. QED
    BY <1>1, <1>2, <1>3, <1>4

\* An instruction that leaves execution, with what IEW tells commit.
LEMMA CompleteType ==
  ASSUME TypeOK, NEW k \in DOMAIN rob, NEW inst \in Inst, NEW msg \in IewMsg,
         Complete(k, inst, msg)
  PROVE  /\ rob' \in Seq(Inst) /\ iewNext' \in IewMsg
         /\ regs' \in {"arch", "runahead"}
  <1>1. [inst EXCEPT !.state = "executed"] \in Inst
    BY InstUpdates DEF States
  <1>2. rob' \in Seq(Inst)
    BY <1>1, ExceptType DEF Complete, TypeOK, RobType
  <1>3. iewNext' \in IewMsg
    BY InstFields DEF Complete, IewMsg
  <1>4. QED
    BY <1>2, <1>3 DEF Complete, TypeOK, ArchType

LEMMA WithSquashType ==
  ASSUME TypeOK, NEW sn \in Nat, NEW include \in BOOLEAN, NEW newPc \in Nat
  PROVE  WithSquash(sn, include, newPc) \in IewMsg
  BY DEF WithSquash, IewMsg, TypeOK, IewType

\* What IewExecute does to one instruction.
IewStep(k) ==
  \/ SkipSquashed(k) \/ ExecutePoisoned(k) \/ ExecuteShort(k)
  \/ SendLoad(k) \/ ExecuteBranch(k) \/ ExecuteStore(k)

LEMMA IewStepType ==
  ASSUME TypeOK, NEW k \in DOMAIN rob, IewStep(k)
  PROVE  /\ rob' \in Seq(Inst) /\ mem' \in SUBSET Nat /\ iewNext' \in IewMsg
         /\ regs' \in {"arch", "runahead"}
  <1>1. rob \in Seq(Inst) /\ \A j \in DOMAIN rob : rob[j] \in Inst
    BY SeqTypes DEF TypeOK, RobType
  <1>2. /\ mem \in SUBSET Nat /\ iewNext \in IewMsg
        /\ regs \in {"arch", "runahead"}
    BY DEF TypeOK, IewType, ArchType
  <1>3. CASE SkipSquashed(k)
    <2>1. [rob[k] EXCEPT !.squashed = TRUE] \in Inst
      BY <1>1, InstUpdates
    <2>2. QED
      BY <1>1, <1>2, <1>3, <2>1, ExceptType DEF SkipSquashed
  <1>4. CASE ExecutePoisoned(k)
    <2>1. [rob[k] EXCEPT !.poisoned = TRUE] \in Inst
      BY <1>1, InstUpdates
    <2>2. QED
      BY <1>2, <1>4, <2>1, CompleteType DEF ExecutePoisoned
  <1>5. CASE ExecuteShort(k)
    <2>1. [rob[k] EXCEPT !.fault = @ \/ FaultsAtExecute(rob[k])] \in Inst
      BY <1>1, InstFields, InstUpdates
    <2>2. QED
      BY <1>2, <1>5, <2>1, CompleteType DEF ExecuteShort
  <1>6. CASE SendLoad(k)
    <2>1. \A st \in States : [rob[k] EXCEPT !.state = st] \in Inst
      BY <1>1, InstUpdates
    <2>2. [rob EXCEPT ![k].state =
             IF InFlightThreshold = 0 THEN "old" ELSE "sent"] \in Seq(Inst)
      BY <1>1, <2>1, ExceptType DEF States
    <2>3. QED
      BY <1>1, <1>2, <1>6, <2>2, InstFields DEF SendLoad
  <1>7. CASE ExecuteBranch(k)
    <2>1. rob[k].sn \in Nat /\ BranchTarget(rob[k]) \in Nat
      BY <1>1, InstFields DEF BranchTarget
    <2>2. WithSquash(rob[k].sn, FALSE, BranchTarget(rob[k])) \in IewMsg
      BY <2>1, WithSquashType
    <2>3. QED
      BY <1>1, <1>2, <1>7, <2>2, CompleteType DEF ExecuteBranch
  <1>8. CASE ExecuteStore(k)
    <2>1. \A j \in Violators(k) : WithSquash(rob[j].sn, TRUE, rob[j].pos) \in IewMsg
      BY <1>1, InstFields, WithSquashType DEF Violators
    <2>2. QED
      BY <1>1, <1>2, <1>8, <2>1, CompleteType DEF ExecuteStore
  <1>9. QED
    BY <1>3, <1>4, <1>5, <1>6, <1>7, <1>8 DEF IewStep

LEMMA IewTickType ==
  ASSUME TypeOK, IewExecute \/ IewDone
  PROVE  TypeOK'
  <1>1. CASE IewExecute
    <2>1. \E k \in DOMAIN rob : IewStep(k)
      BY <1>1 DEF IewExecute, IewStep
    <2>2. /\ rob' \in Seq(Inst) /\ mem' \in SUBSET Nat /\ iewNext' \in IewMsg
          /\ regs' \in {"arch", "runahead"}
      BY <2>1, IewStepType
    <2>3. QED
      BY <1>1, <2>2, TypeFrame DEF IewExecute, TypeOK
  <1>2. CASE IewDone
    <2>1. IewType' /\ SigType'
      BY <1>2 DEF IewDone, RangeAfterSignal, NoSig, TypeOK, IewType, SigType
    <2>2. QED
      BY <1>2, <2>1, TypeFrame DEF IewDone, TypeOK
  <1>3. QED
    BY <1>1, <1>2

LEMMA SelectType ==
  ASSUME TypeOK,
         \/ RobWalk \/ SquashFromTrap \/ SquashFromSquashAfter
         \/ SquashFromRunaheadExit \/ SelectNothing
  PROVE  TypeOK'
  <1>1. CASE RobWalk
    <2>1. /\ rob' \in Seq(Inst) /\ squashIt' \in Nat /\ squashTo' \in Int
      BY <1>1, MarkSquashedType, WalkNextType, SizeAssumption
         DEF RobWalk, TypeOK, RobType
    <2>2. CommitType'
      BY <1>1 DEF RobWalk, TypeOK, CommitType
    <2>3. RobType'
      BY <2>1 DEF RobType
    <2>4. QED
      BY <1>1, <2>2, <2>3, TypeFrame DEF RobWalk, TypeOK
  <1>2. CASE SquashFromTrap
    <2>1. /\ RobType' /\ SigType'
          /\ youngestSeqNum' = lastCommitedSeqNum /\ status' = "ROBSquashing"
      BY <1>2, SquashAllType DEF SquashFromTrap
    <2>2. CommitType'
      BY <1>2, <2>1 DEF SquashFromTrap, TypeOK, CommitType
    <2>3. TrapType'
      BY <1>2 DEF SquashFromTrap, TypeOK, TrapType
    <2>4. QED
      BY <1>2, <2>1, <2>2, <2>3, TypeFrame DEF SquashFromTrap, TypeOK
  <1>3. CASE SquashFromSquashAfter
    <2>1. CASE SquashAfterIsStale
      <3>1. CommitType'
        BY <1>3, <2>1 DEF SquashFromSquashAfter, TypeOK, CommitType
      <3>2. TrapType'
        BY <1>3, <2>1 DEF SquashFromSquashAfter, TypeOK, TrapType
      <3>3. QED
        BY <1>3, <2>1, <3>1, <3>2, TypeFrame DEF SquashFromSquashAfter, TypeOK
    <2>2. CASE ~SquashAfterIsStale
      <3>1. /\ RobType' /\ SigType'
            /\ youngestSeqNum' = lastCommitedSeqNum /\ status' = "ROBSquashing"
        BY <1>3, <2>2, SquashAllType DEF SquashFromSquashAfter
      <3>2. CommitType'
        BY <1>3, <3>1 DEF SquashFromSquashAfter, TypeOK, CommitType
      <3>3. TrapType'
        BY <1>3, <2>2 DEF SquashFromSquashAfter, SquashAfterDone, TypeOK, TrapType
      <3>4. QED
        BY <1>3, <3>1, <3>2, <3>3, TypeFrame DEF SquashFromSquashAfter, TypeOK
    <2>3. QED
      BY <2>1, <2>2
  <1>4. CASE SquashFromRunaheadExit
    <2>1. exitCause.sn - 1 \in Int /\ ResumePc \in Nat
      BY DEF TypeOK, ExitType, ModeType, Cause, ResumePc
    <2>2. RobType' /\ SigType'
      BY <1>4, <2>1, RobSquashType, SignalSquashType
         DEF SquashFromRunaheadExit, TypeOK
    <2>3. CommitType'
      BY <1>4, <2>1 DEF SquashFromRunaheadExit, TypeOK, CommitType
    <2>4. TrapType'
      BY <1>4 DEF SquashFromRunaheadExit, TypeOK, TrapType
    <2>5. ModeType' /\ ExitType'
      BY <1>4 DEF SquashFromRunaheadExit, TypeOK, ModeType, ExitType
    <2>6. CountType' /\ ArchType'
      BY <1>4 DEF SquashFromRunaheadExit, RetiredSinceExit, TypeOK, CountType, ArchType
    <2>7. QED
      BY <1>4, <2>2, <2>3, <2>4, <2>5, <2>6, TypeFrame
         DEF SquashFromRunaheadExit, TypeOK
  <1>5. CASE SelectNothing
    BY <1>5, TypeFrame DEF SelectNothing, TypeOK
  <1>6. QED
    BY <1>1, <1>2, <1>3, <1>4, <1>5

LEMMA BeforeCommitType ==
  ASSUME TypeOK, AcceptIewSquash \/ IgnoreIewSquash \/ GetInsts
  PROVE  TypeOK'
  <1>1. CASE AcceptIewSquash
    <2> DEFINE to == IF iewNow.include THEN iewNow.sn - 1 ELSE iewNow.sn
    <2>1. to \in Int /\ iewNow.pc \in Nat
      BY DEF TypeOK, IewType, IewMsg
    <2>2. RobSquash(to) /\ SignalSquash(to, iewNow.pc) /\ youngestSeqNum' = to
      BY <1>1 DEF AcceptIewSquash
    <2> HIDE DEF to
    <2>3. RobType' /\ SigType'
      BY <2>1, <2>2, RobSquashType, SignalSquashType DEF TypeOK
    <2>4. CommitType'
      BY <1>1, <2>1, <2>2 DEF AcceptIewSquash, TypeOK, CommitType
    <2>5. QED
      BY <1>1, <2>3, <2>4, TypeFrame DEF AcceptIewSquash, TypeOK
  <1>2. CASE IgnoreIewSquash
    BY <1>2, TypeFrame DEF IgnoreIewSquash, TypeOK
  <1>3. CASE GetInsts
    <2>1. rob' \in Seq(Inst)
      BY <1>3, SeqTypes DEF GetInsts, TypeOK, RobType, RenameType
    <2>2. RenameType'
      BY <1>3, EmptySeq DEF GetInsts, TypeOK, RenameType
    <2>3. youngestSeqNum' \in Int
      BY <1>3, SeqTypes, InstFields DEF GetInsts, TypeOK, RenameType, CommitType
    <2>4. CommitType'
      BY <1>3, <2>3 DEF GetInsts, TypeOK, CommitType
    <2>5. QED
      BY <1>3, <2>1, <2>2, <2>4, TypeFrame DEF GetInsts, TypeOK
  <1>4. QED
    BY <1>1, <1>2, <1>3

LEMMA HeadType ==
  ASSUME TypeOK, rob # <<>>
  PROVE  Head0 \in Inst /\ 1 \in DOMAIN rob /\ Tail(rob) \in Seq(Inst) /\ rob \in Seq(Inst)
  BY SeqTypes, EmptySeq DEF Head0, TypeOK, RobType

\* The ROB after its head was poisoned.
LEMMA PoisonHeadType ==
  ASSUME TypeOK, rob # <<>>
  PROVE  [rob EXCEPT ![1].poisoned = TRUE] \in Seq(Inst)
  <1>1. [rob[1] EXCEPT !.poisoned = TRUE] \in Inst
    BY HeadType, InstUpdates DEF Head0
  <1>2. QED
    BY <1>1, HeadType, ExceptType

LEMMA CommitHeadType ==
  ASSUME TypeOK, CommitHead
  PROVE  TypeOK'
  <1>1. Head0 \in Inst /\ Tail(rob) \in Seq(Inst)
    BY HeadType DEF CommitHead, ReadyHead, AtHead
  <1>2. Head0.sn \in Nat /\ Head0.pos \in Nat
    BY <1>1, InstFields
  <1>3. RobType'
    BY <1>1 DEF CommitHead, TypeOK, RobType
  <1>4. CommitType'
    <2>1. Advance(Head0) \in Nat
      BY <1>2 DEF Advance
    <2>2. QED
      BY <1>2, <2>1 DEF CommitHead, TypeOK, CommitType
  <1>5. TrapType'
    BY <1>2 DEF CommitHead, TypeOK, TrapType
  <1>6. CountType'
    BY DEF CommitHead, TypeOK, CountType
  <1>7. QED
    BY <1>3, <1>4, <1>5, <1>6, TypeFrame DEF CommitHead, TypeOK

LEMMA EnterRunaheadType ==
  ASSUME TypeOK, EnterRunahead
  PROVE  TypeOK'
  <1>1. Head0 \in Inst /\ 1 \in DOMAIN rob /\ rob \in Seq(Inst)
    BY HeadType DEF EnterRunahead, LLLAtHead, AtHead
  <1>2. rob' \in Seq(Inst)
    <2> DEFINE r == SetRunahead(rob)
    <2>1. r \in Seq(Inst) /\ 1 \in DOMAIN r
      BY <1>1, SetRunaheadType
    <2>2. rob' = [r EXCEPT ![1].poisoned = TRUE]
      BY DEF EnterRunahead
    <2> HIDE DEF r
    <2>3. [r[1] EXCEPT !.poisoned = TRUE] \in Inst
      BY <2>1, SeqTypes, InstUpdates
    <2>4. QED
      BY <2>1, <2>2, <2>3, ExceptType
  <1>3. FrontType'
    BY SetRunaheadType DEF EnterRunahead, TypeOK, FrontType
  <1>4. RenameType'
    BY SetRunaheadType DEF EnterRunahead, TypeOK, RenameType
  <1>5. ModeType'
    BY <1>1, InstFields DEF EnterRunahead, TypeOK, ModeType, CommitType, Cause
  <1>6. CountType'
    BY <1>1, LenProperties DEF EnterRunahead, TypeOK, CountType
  <1>7. QED
    BY <1>2, <1>3, <1>4, <1>5, <1>6, TypeFrame DEF EnterRunahead, TypeOK

LEMMA CommitLoopType ==
  ASSUME TypeOK,
         \/ RetireSquashed \/ TrapHead \/ IgnoreRunaheadFault
         \/ PoisonRunaheadLLL \/ StopCommit
  PROVE  TypeOK'
  <1>1. CASE RetireSquashed
    <2>1. rob' \in Seq(Inst)
      BY <1>1, HeadType DEF RetireSquashed, AtHead
    <2>2. QED
      BY <1>1, <2>1, TypeFrame DEF RetireSquashed, TypeOK
  <1>2. CASE TrapHead
    <2>1. Head0.pos \in Nat
      BY <1>2, HeadType, InstFields DEF TrapHead, ReadyHead, AtHead
    <2>2. CommitType'
      BY <1>2, <2>1 DEF TrapHead, TypeOK, CommitType
    <2>3. TrapType'
      BY <1>2, <2>1 DEF TrapHead, TypeOK, TrapType
    <2>4. QED
      BY <1>2, <2>2, <2>3, TypeFrame DEF TrapHead, TypeOK
  <1>3. CASE IgnoreRunaheadFault
    <2>1. Head0.pos \in Nat /\ rob' \in Seq(Inst)
      BY <1>3, HeadType, InstFields, PoisonHeadType
         DEF IgnoreRunaheadFault, ReadyHead, AtHead
    <2>2. CommitType'
      BY <1>3, <2>1 DEF IgnoreRunaheadFault, TypeOK, CommitType
    <2>3. ExitType'
      BY <1>3 DEF IgnoreRunaheadFault, FaultExitCause, TypeOK, ExitType, ModeType
    <2>4. QED
      BY <1>3, <2>1, <2>2, <2>3, TypeFrame DEF IgnoreRunaheadFault, TypeOK
  <1>4. CASE PoisonRunaheadLLL
    <2>1. rob' \in Seq(Inst)
      BY <1>4, PoisonHeadType DEF PoisonRunaheadLLL, LLLAtHead, AtHead
    <2>2. QED
      BY <1>4, <2>1, TypeFrame DEF PoisonRunaheadLLL, TypeOK
  <1>5. CASE StopCommit
    BY <1>5, TypeFrame DEF StopCommit, TypeOK
  <1>6. QED
    BY <1>1, <1>2, <1>3, <1>4, <1>5

LEMMA UpdateType ==
  ASSUME TypeOK, UpdateRunaheadState
  PROVE  TypeOK'
  <1>1. rob' \in Seq(Inst)
    <2>1. rob \in Seq(Inst)
      BY DEF TypeOK, RobType
    <2>2. MarkCompleted = [k \in DOMAIN rob |-> MarkCompleted[k]]
      BY DEF MarkCompleted
    <2>3. ASSUME NEW k \in DOMAIN rob
          PROVE  MarkCompleted[k] \in Inst
      <3>1. rob[k] \in Inst
        BY <2>1, SeqTypes
      <3>2. [rob[k] EXCEPT !.state = "done"] \in Inst
        BY <3>1, InstUpdates DEF States
      <3>3. QED
        BY <3>1, <3>2 DEF MarkCompleted
    <2>4. MarkCompleted \in Seq(Inst)
      <3> DEFINE m == MarkCompleted
      <3> HIDE DEF m
      <3>1. m = [k \in DOMAIN rob |-> m[k]] /\ \A k \in DOMAIN rob : m[k] \in Inst
        BY <2>2, <2>3 DEF m
      <3>2. m \in Seq(Inst)
        BY <2>1, <3>1, MapType
      <3>3. QED
        BY <3>2 DEF m
    <2>5. QED
      BY <2>4 DEF UpdateRunaheadState
  <1>2. RenameType' /\ IewType'
    BY EmptySeq DEF UpdateRunaheadState, TypeOK, RenameType, IewType, IewMsg, NoIewMsg
  <1>3. ModeType' /\ ExitType' /\ ArchType'
    <2>1. ModeType' /\ ArchType'
      BY DEF UpdateRunaheadState, RestoreWire, TypeOK, ModeType, ArchType
    <2>2. ExitType'
      BY DEF UpdateRunaheadState, TypeOK, ExitType
    <2>3. QED
      BY <2>1, <2>2
  <1>4. QED
    BY <1>1, <1>2, <1>3, TypeFrame DEF UpdateRunaheadState, TypeOK

LEMMA StepType == TypeOK /\ [Next]_vars => TypeOK'
  <1> SUFFICES ASSUME TypeOK, [Next]_vars PROVE TypeOK'
    OBVIOUS
  <1>1. CASE UNCHANGED vars
    BY <1>1, TypeFrame DEF vars, TypeOK
  <1>2. CASE Event
    BY <1>2, EventType
  <1>3. CASE Tick
    BY <1>3, FrontEndType, IewTickType, SelectType, BeforeCommitType,
       CommitHeadType, EnterRunaheadType, CommitLoopType, UpdateType DEF Tick
  <1>4. QED
    BY <1>1, <1>2, <1>3 DEF Next

\* Every variable keeps to its type in every reachable state, for all programs,
\* policies and sizes; the unsigned counters that overlap detection and the
\* MinimumWork policy compare (commit.cc:1905-1912) never underflow.
THEOREM TypeInvariant == Spec => []TypeOK
  BY InitType, StepType, PTL DEF Spec

-----------------------------------------------------------------------------
(* The register file.                                                      *)

\* An instruction writes runahead values in runahead only: the stale ones
\* are filtered at issue and at write-back.
LEMMA IewStepRegs ==
  ASSUME TypeOK, NEW k \in DOMAIN rob, IewStep(k)
  PROVE  UNCHANGED regs \/ inRunahead
  <1>1. rob[k] \in Inst
    BY SeqTypes DEF TypeOK, RobType
  <1>2. Issued(k) => ~rob[k].runahead \/ inRunahead
    BY DEF Issued, SquashedForIew
  <1>3. ASSUME NEW msg, Complete(k, rob[k], msg), Issued(k)
        PROVE  UNCHANGED regs \/ inRunahead
    BY <1>2, <1>3 DEF Complete
  <1>4. CASE ExecuteShort(k)
    <2> DEFINE inst == [rob[k] EXCEPT !.fault = @ \/ FaultsAtExecute(rob[k])]
    <2>1. inst.runahead = rob[k].runahead
      BY <1>1 DEF Inst
    <2>2. Complete(k, inst, iewNext) /\ Issued(k)
      BY <1>4 DEF ExecuteShort
    <2> HIDE DEF inst
    <2>3. QED
      BY <1>2, <2>1, <2>2 DEF Complete
  <1>5. CASE SkipSquashed(k) \/ SendLoad(k)
    BY <1>5 DEF SkipSquashed, SendLoad
  <1>6. CASE ExecutePoisoned(k)
    BY <1>2, <1>6 DEF ExecutePoisoned
  <1>7. CASE ExecuteBranch(k) \/ ExecuteStore(k)
    BY <1>3, <1>7 DEF ExecuteBranch, ExecuteStore
  <1>8. QED
    BY <1>4, <1>5, <1>6, <1>7 DEF IewStep

LEMMA WriteBackRegs ==
  ASSUME NEW K, K \subseteq DOMAIN rob, WriteBackLoads(K),
         \A k \in K : rob[k].runahead => inRunahead
  PROVE  UNCHANGED regs \/ inRunahead
  BY DEF WriteBackLoads

LEMMA RegsRestoredStep == TypeOK /\ RegsRestored /\ [Next]_vars => RegsRestored'
  <1> SUFFICES ASSUME TypeOK, RegsRestored, [Next]_vars PROVE RegsRestored'
    OBVIOUS
  <1> USE DEF RegsRestored, RestorePending
  <1>1. CASE UNCHANGED <<regs, inRunahead, archRestoreNext, archRestoreNow>>
    BY <1>1
  <1>2. ASSUME NEW sn \in mem, MemResponse(sn)
        PROVE  RegsRestored'
    <2>1. UNCHANGED regs \/ inRunahead
      BY <1>2, WriteBackRegs DEF MemResponse, TakesResponse
    <2>2. QED
      BY <1>2, <2>1 DEF MemResponse, modeVars
  <1>3. ASSUME NEW k \in DOMAIN rob, ForgedResponse(k)
        PROVE  RegsRestored'
    <2>1. UNCHANGED regs \/ inRunahead
      BY <1>3, WriteBackRegs DEF ForgedResponse, ForgedPending
    <2>2. QED
      BY <1>3, <2>1 DEF ForgedResponse, modeVars
  <1>4. CASE IewExecute
    <2>1. UNCHANGED regs \/ inRunahead
      BY <1>4, IewStepRegs DEF IewExecute, IewStep
    <2>2. QED
      BY <1>4, <2>1 DEF IewExecute, modeVars
  <1>5. CASE SquashFromRunaheadExit
    BY <1>5 DEF SquashFromRunaheadExit
  <1>6. CASE EnterRunahead
    BY <1>6 DEF EnterRunahead
  <1>7. CASE UpdateRunaheadState
    BY <1>7 DEF UpdateRunaheadState, RestoreWire, TypeOK, ArchType
  <1>8. CASE Event
    BY <1>1, <1>2, <1>3, <1>8 DEF Event, LLLReturn, InFlightTooLong, DeadlineEvent,
       ProcessTrapEvent, modeVars, archVars
  <1>9. CASE Tick
    BY <1>1, <1>4, <1>5, <1>6, <1>7, <1>9 DEF Tick, StartTick, FrontEndSquash,
       FrontEndAdvance, FrontEndDiscard, IewDone, RobWalk, SquashFromTrap,
       SquashFromSquashAfter, SelectNothing, AcceptIewSquash, IgnoreIewSquash,
       GetInsts, RetireSquashed, CommitHead, TrapHead, IgnoreRunaheadFault,
       PoisonRunaheadLLL, StopCommit, modeVars, archVars
  <1>10. CASE UNCHANGED vars
    BY <1>1, <1>10 DEF vars, modeVars, archVars
  <1>11. QED
    BY <1>8, <1>9, <1>10 DEF Next

\* Values computed in runahead never outlive it by more than the restore that
\* is on its way (lsq_unit.cc:1331-1339, commit.cc:834-880).
THEOREM RegsRestoredInvariant == Spec => []RegsRestored
  <1>1. Init => RegsRestored
    BY DEF Init, RegsRestored
  <1>2. QED
    BY <1>1, RegsRestoredStep, TypeInvariant, PTL DEF Spec

-----------------------------------------------------------------------------
(* Sequences cut out of others.                                            *)

\* t is a stretch of s, d places on, as far as age and mode are concerned.
Stretch(s, t, d) ==
  \A k \in DOMAIN t : /\ k + d \in DOMAIN s
                      /\ t[k].sn = s[k + d].sn
                      /\ t[k].runahead = s[k + d].runahead

Piece(s, t) == \E d \in Nat : Stretch(s, t, d)

\* The same instructions, some with other flags; none loses its squash.
Updated(s, t) ==
  /\ DOMAIN t = DOMAIN s
  /\ \A k \in DOMAIN s : /\ t[k].sn = s[k].sn /\ t[k].runahead = s[k].runahead
                         /\ s[k].squashed => t[k].squashed

LEMMA UpdatedIsPiece ==
  ASSUME NEW s \in Seq(Inst), NEW t \in Seq(Inst), Updated(s, t)
  PROVE  Piece(s, t)
  <1>1. Stretch(s, t, 0)
    BY LenProperties DEF Updated, Stretch
  <1>2. QED
    BY <1>1 DEF Piece

LEMMA PieceCuts ==
  ASSUME NEW s \in Seq(Inst)
  PROVE  /\ Piece(s, s) /\ Piece(s, <<>>)
         /\ s # <<>> => Piece(s, Tail(s))
         /\ \A n \in 0..Len(s) : /\ Piece(s, SubSeq(s, 1, n))
                                 /\ Piece(s, SubSeq(s, n + 1, Len(s)))
  <1>1. Len(s) \in Nat /\ DOMAIN s = 1..Len(s)
    BY LenProperties
  <1>2. Stretch(s, s, 0) /\ Stretch(s, <<>>, 0)
    BY <1>1, EmptySeq DEF Stretch
  <1>3. ASSUME s # <<>>
        PROVE  Stretch(s, Tail(s), 1)
    BY <1>1, <1>3, HeadTailProperties, LenProperties DEF Stretch
  <1>4. ASSUME NEW n \in 0..Len(s)
        PROVE  Stretch(s, SubSeq(s, 1, n), 0) /\ Stretch(s, SubSeq(s, n + 1, Len(s)), n)
    BY <1>1, SubSeqProperties DEF Stretch
  <1>5. QED
    BY <1>1, <1>2, <1>3, <1>4 DEF Piece

\* A piece inherits order, bounds and mode.
LEMMA PieceOrder ==
  ASSUME NEW s \in Seq(Inst), NEW t \in Seq(Inst), Piece(s, t)
  PROVE  /\ Sorted(s) => Sorted(t)
         /\ \A sn : NumberedBelow(s, sn) => NumberedBelow(t, sn)
         /\ \A sn : NotOlder(s, sn) => NotOlder(t, sn)
         /\ AllRunahead(s) => AllRunahead(t)
         /\ NoneRunahead(s) => NoneRunahead(t)
  <1>1. PICK d \in Nat : Stretch(s, t, d)
    BY DEF Piece
  <1>2. Sorted(s) => Sorted(t)
    BY <1>1, LenProperties DEF Stretch, Sorted
  <1>3. /\ \A sn : NumberedBelow(s, sn) => NumberedBelow(t, sn)
        /\ \A sn : NotOlder(s, sn) => NotOlder(t, sn)
    BY <1>1 DEF Stretch, NumberedBelow, NotOlder
  <1>4. /\ AllRunahead(s) => AllRunahead(t)
        /\ NoneRunahead(s) => NoneRunahead(t)
    BY <1>1 DEF Stretch, AllRunahead, NoneRunahead
  <1>5. QED
    BY <1>2, <1>3, <1>4

LEMMA PieceBefore ==
  ASSUME NEW s \in Seq(Inst), NEW t \in Seq(Inst), Piece(s, t),
         NEW u \in Seq(Inst), NEW v \in Seq(Inst), Piece(u, v), Before(s, u)
  PROVE  Before(t, v)
  <1>1. PICK d \in Nat : Stretch(s, t, d)
    BY DEF Piece
  <1>2. PICK e \in Nat : Stretch(u, v, e)
    BY DEF Piece
  <1>3. QED
    BY <1>1, <1>2 DEF Stretch, Before

-----------------------------------------------------------------------------
(* What a step does to the reorder buffer.                                 *)

LEMMA MarkUpdated ==
  ASSUME NEW s \in Seq(Inst), NEW K
  PROVE  Updated(s, MarkSquashed(s, K))
  <1>1. \A k \in DOMAIN s : s[k] \in Inst
    BY SeqTypes
  <1>2. QED
    BY <1>1 DEF Updated, MarkSquashed, Inst

\* The instruction at k replaced by itself with other flags.
LEMMA ReplaceUpdated ==
  ASSUME NEW s \in Seq(Inst), NEW k \in DOMAIN s, NEW i \in Inst,
         i.sn = s[k].sn, i.runahead = s[k].runahead, s[k].squashed => i.squashed
  PROVE  Updated(s, [s EXCEPT ![k] = i])
  BY DEF Updated

LEMMA WriteBackUpdated ==
  ASSUME NEW K, rob \in Seq(Inst), WriteBackLoads(K)
  PROVE  Updated(rob, rob')
  <1>1. \A k \in DOMAIN rob : rob[k] \in Inst
    BY SeqTypes
  <1>2. QED
    BY <1>1 DEF WriteBackLoads, Updated, Inst

LEMMA MarkCompletedUpdated ==
  ASSUME rob \in Seq(Inst)
  PROVE  Updated(rob, MarkCompleted)
  <1>1. \A k \in DOMAIN rob : rob[k] \in Inst
    BY SeqTypes
  <1>2. QED
    BY <1>1 DEF MarkCompleted, Updated, Inst

LEMMA RobSquashUpdated ==
  ASSUME NEW to, rob \in Seq(Inst), RobSquash(to)
  PROVE  Updated(rob, rob')
  BY MarkUpdated DEF RobSquash, robVars, Updated

LEMMA CompleteUpdated ==
  ASSUME rob \in Seq(Inst), NEW k \in DOMAIN rob, NEW inst \in Inst, NEW msg,
         inst.sn = rob[k].sn, inst.runahead = rob[k].runahead,
         inst.squashed = rob[k].squashed, Complete(k, inst, msg)
  PROVE  Updated(rob, rob')
  <1> DEFINE i == [inst EXCEPT !.state = "executed"]
  <1>1. /\ i \in Inst /\ i.sn = rob[k].sn /\ i.runahead = rob[k].runahead
        /\ i.squashed = rob[k].squashed
    BY DEF Inst, States
  <1>2. rob' = [rob EXCEPT ![k] = i]
    BY DEF Complete
  <1> HIDE DEF i
  <1>3. QED
    BY <1>1, <1>2, ReplaceUpdated

LEMMA IewStepUpdated ==
  ASSUME rob \in Seq(Inst), NEW k \in DOMAIN rob, IewStep(k)
  PROVE  Updated(rob, rob')
  <1>1. rob[k] \in Inst
    BY SeqTypes
  <1>2. CASE SkipSquashed(k)
    <2> DEFINE i == [rob[k] EXCEPT !.squashed = TRUE]
    <2>1. i \in Inst /\ i.sn = rob[k].sn /\ i.runahead = rob[k].runahead /\ i.squashed
      BY <1>1 DEF Inst
    <2>2. rob' = [rob EXCEPT ![k] = i]
      BY <1>2 DEF SkipSquashed
    <2> HIDE DEF i
    <2>3. QED
      BY <2>1, <2>2, ReplaceUpdated
  <1>3. CASE ExecutePoisoned(k)
    <2> DEFINE i == [rob[k] EXCEPT !.poisoned = TRUE]
    <2>1. /\ i \in Inst /\ i.sn = rob[k].sn /\ i.runahead = rob[k].runahead
          /\ i.squashed = rob[k].squashed
      BY <1>1 DEF Inst
    <2>2. Complete(k, i, iewNext)
      BY <1>3 DEF ExecutePoisoned
    <2> HIDE DEF i
    <2>3. QED
      BY <2>1, <2>2, CompleteUpdated
  <1>4. CASE ExecuteShort(k)
    <2> DEFINE i == [rob[k] EXCEPT !.fault = @ \/ FaultsAtExecute(rob[k])]
    <2>1. i \in Inst
      BY <1>1, InstFields, InstUpdates
    <2>2. /\ i.sn = rob[k].sn /\ i.runahead = rob[k].runahead
          /\ i.squashed = rob[k].squashed
      BY <1>1 DEF Inst
    <2>3. Complete(k, i, iewNext)
      BY <1>4 DEF ExecuteShort
    <2> HIDE DEF i
    <2>4. QED
      BY <2>1, <2>2, <2>3, CompleteUpdated
  <1>5. CASE SendLoad(k)
    <2> DEFINE i == [rob[k] EXCEPT !.state =
                       IF InFlightThreshold = 0 THEN "old" ELSE "sent"]
    <2>1. /\ i \in Inst /\ i.sn = rob[k].sn /\ i.runahead = rob[k].runahead
          /\ i.squashed = rob[k].squashed
      BY <1>1 DEF Inst, States
    <2>2. rob' = [rob EXCEPT ![k] = i]
      BY <1>5 DEF SendLoad
    <2> HIDE DEF i
    <2>3. QED
      BY <2>1, <2>2, ReplaceUpdated
  <1>6. CASE ExecuteBranch(k) \/ ExecuteStore(k)
    <2>1. \E msg : Complete(k, rob[k], msg)
      BY <1>6 DEF ExecuteBranch, ExecuteStore
    <2>2. QED
      BY <1>1, <2>1, CompleteUpdated
  <1>7. QED
    BY <1>2, <1>3, <1>4, <1>5, <1>6 DEF IewStep

LEMMA PoisonHeadUpdated ==
  ASSUME TypeOK, rob # <<>>, rob' = [rob EXCEPT ![1].poisoned = TRUE]
  PROVE  Updated(rob, rob')
  <1> DEFINE i == [rob[1] EXCEPT !.poisoned = TRUE]
  <1>1. rob \in Seq(Inst) /\ 1 \in DOMAIN rob /\ rob[1] \in Inst
    BY HeadType DEF Head0
  <1>2. /\ i \in Inst /\ i.sn = rob[1].sn /\ i.runahead = rob[1].runahead
        /\ i.squashed = rob[1].squashed
    BY <1>1 DEF Inst
  <1> HIDE DEF i
  <1>3. Updated(rob, [rob EXCEPT ![1] = i])
    BY <1>1, <1>2, ReplaceUpdated
  <1>4. rob' = [rob EXCEPT ![1] = i]
    BY DEF i
  <1>5. QED
    BY <1>3, <1>4, Zenon

LEMMA SquashAllUpdated ==
  ASSUME rob \in Seq(Inst), SquashAll
  PROVE  Updated(rob, rob')
  BY RobSquashUpdated DEF SquashAll

\* The steps that leave the stages before commit alone.
BehindRename ==
  \/ Event \/ StartTick \/ IewExecute \/ IewDone
  \/ RobWalk \/ SquashFromTrap \/ SquashFromSquashAfter \/ SquashFromRunaheadExit
  \/ SelectNothing \/ AcceptIewSquash \/ IgnoreIewSquash
  \/ RetireSquashed \/ CommitHead \/ TrapHead \/ IgnoreRunaheadFault
  \/ PoisonRunaheadLLL \/ StopCommit

LEMMA FrontUnchanged ==
  ASSUME BehindRename
  PROVE  UNCHANGED <<fetchQueue, nextSn, renameNext, renameNow>>
  <1>1. CASE Event
    BY <1>1 DEF Event, LLLReturn, MemResponse, ForgedResponse, InFlightTooLong,
       DeadlineEvent, ProcessTrapEvent, frontVars, renameVars
  <1>2. CASE StartTick \/ IewExecute \/ IewDone \/ RobWalk
    BY <1>2 DEF StartTick, IewExecute, IewDone, RobWalk, frontVars, renameVars
  <1>3. CASE \/ SquashFromTrap \/ SquashFromSquashAfter \/ SquashFromRunaheadExit
             \/ SelectNothing \/ AcceptIewSquash \/ IgnoreIewSquash
    BY <1>3 DEF SquashFromTrap, SquashFromSquashAfter, SquashFromRunaheadExit,
       SelectNothing, AcceptIewSquash, IgnoreIewSquash, frontVars, renameVars
  <1>4. CASE \/ RetireSquashed \/ CommitHead \/ TrapHead \/ IgnoreRunaheadFault
             \/ PoisonRunaheadLLL \/ StopCommit
    BY <1>4 DEF RetireSquashed, CommitHead, TrapHead, IgnoreRunaheadFault,
       PoisonRunaheadLLL, StopCommit, frontVars, renameVars
  <1>5. QED
    BY <1>1, <1>2, <1>3, <1>4 DEF BehindRename

Retires == RetireSquashed \/ CommitHead

\* Instructions enter the ROB in getInsts, leave it at its head, and change
\* their mode at entry; everything else only marks them.
LEMMA RobChange ==
  ASSUME TypeOK, Next, ~GetInsts, ~Retires, ~EnterRunahead
  PROVE  Updated(rob, rob')
  <1>1. rob \in Seq(Inst)
    BY DEF TypeOK, RobType
  <1>2. CASE UNCHANGED rob
    BY <1>1, <1>2 DEF Updated
  <1>3. CASE Event
    <2>1. CASE InFlightTooLong
      <3> DEFINE i == [rob[1] EXCEPT !.state = "old"]
      <3>1. 1 \in DOMAIN rob /\ rob[1] \in Inst
        BY <2>1, HeadType DEF Head0, InFlightTooLong
      <3>2. /\ i \in Inst /\ i.sn = rob[1].sn /\ i.runahead = rob[1].runahead
            /\ i.squashed = rob[1].squashed
        BY <3>1 DEF Inst, States
      <3> HIDE DEF i
      <3>3. Updated(rob, [rob EXCEPT ![1] = i])
        BY <1>1, <3>1, <3>2, ReplaceUpdated
      <3>4. rob' = [rob EXCEPT ![1] = i]
        BY <2>1 DEF i, InFlightTooLong
      <3>5. QED
        BY <3>3, <3>4, Zenon
    <2>2. QED
      BY <1>1, <1>2, <1>3, <2>1, WriteBackUpdated DEF Event, LLLReturn,
         MemResponse, ForgedResponse, DeadlineEvent, ProcessTrapEvent, robVars
  <1>4. CASE IewExecute
    BY <1>1, <1>4, IewStepUpdated DEF IewExecute, IewStep
  <1>5. CASE RobWalk
    BY <1>1, <1>2, <1>5, MarkUpdated DEF RobWalk
  <1>6. CASE SquashFromTrap \/ SquashFromSquashAfter
    BY <1>1, <1>2, <1>6, SquashAllUpdated
       DEF SquashFromTrap, SquashFromSquashAfter, robVars
  <1>7. CASE SquashFromRunaheadExit \/ AcceptIewSquash
    BY <1>1, <1>7, RobSquashUpdated DEF SquashFromRunaheadExit, AcceptIewSquash
  <1>8. CASE IgnoreRunaheadFault \/ PoisonRunaheadLLL
    BY <1>8, PoisonHeadUpdated
       DEF IgnoreRunaheadFault, PoisonRunaheadLLL, ReadyHead, LLLAtHead, AtHead
  <1>9. CASE UpdateRunaheadState
    BY <1>1, <1>9, MarkCompletedUpdated DEF UpdateRunaheadState
  <1>10. CASE \/ StartTick \/ FrontEndSquash \/ FrontEndAdvance \/ FrontEndDiscard
              \/ IewDone \/ SelectNothing \/ IgnoreIewSquash \/ TrapHead \/ StopCommit
    BY <1>2, <1>10 DEF StartTick, FrontEndSquash, FrontEndAdvance,
       FrontEndDiscard, IewDone, SelectNothing, IgnoreIewSquash, TrapHead,
       StopCommit, robVars
  <1>11. QED
    BY <1>3, <1>4, <1>5, <1>6, <1>7, <1>8, <1>9, <1>10 DEF Next, Tick, Retires

LEMMA RobPiece ==
  ASSUME TypeOK, TypeOK', Next, ~GetInsts, ~EnterRunahead
  PROVE  Piece(rob, rob')
  <1>1. rob \in Seq(Inst) /\ rob' \in Seq(Inst)
    BY DEF TypeOK, RobType
  <1>2. CASE Retires
    BY <1>1, <1>2, PieceCuts DEF Retires, RetireSquashed, CommitHead, ReadyHead, AtHead
  <1>3. CASE ~Retires
    BY <1>1, <1>3, RobChange, UpdatedIsPiece
  <1>4. QED
    BY <1>2, <1>3

-----------------------------------------------------------------------------
(* Age order.                                                              *)

LEMMA AgeOrderPieces ==
  ASSUME TypeOK, TypeOK', AgeOrder, nextSn' = nextSn, Piece(rob, rob'),
         Piece(renameNow, renameNow'), Piece(renameNext, renameNext'),
         Piece(fetchQueue, fetchQueue')
  PROVE  AgeOrder'
  <1>1. /\ rob \in Seq(Inst) /\ rob' \in Seq(Inst)
        /\ renameNow \in Seq(Inst) /\ renameNow' \in Seq(Inst)
        /\ renameNext \in Seq(Inst) /\ renameNext' \in Seq(Inst)
        /\ fetchQueue \in Seq(Inst) /\ fetchQueue' \in Seq(Inst)
    BY DEF TypeOK, RobType, RenameType, FrontType
  <1>2. (Sorted(rob) /\ Sorted(renameNow) /\ Sorted(renameNext) /\ Sorted(fetchQueue))'
    BY <1>1, PieceOrder DEF AgeOrder
  <1>3. (/\ Before(rob, renameNow) /\ Before(rob, renameNext) /\ Before(rob, fetchQueue)
         /\ Before(renameNow, renameNext) /\ Before(renameNow, fetchQueue)
         /\ Before(renameNext, fetchQueue))'
    BY <1>1, PieceBefore DEF AgeOrder
  <1>4. (/\ NumberedBelow(rob, nextSn) /\ NumberedBelow(renameNow, nextSn)
         /\ NumberedBelow(renameNext, nextSn) /\ NumberedBelow(fetchQueue, nextSn))'
    BY <1>1, PieceOrder DEF AgeOrder
  <1>5. QED
    BY <1>2, <1>3, <1>4 DEF AgeOrder

\* A sequence cut in two is in order across the cut.
LEMMA CutBefore ==
  ASSUME NEW s \in Seq(Inst), Sorted(s), NEW n \in 0..Len(s)
  PROVE  Before(SubSeq(s, 1, n), SubSeq(s, n + 1, Len(s)))
  <1>1. /\ Len(s) \in Nat /\ DOMAIN s = 1..Len(s)
        /\ DOMAIN SubSeq(s, 1, n) = 1..n
        /\ DOMAIN SubSeq(s, n + 1, Len(s)) = 1..(Len(s) - n)
        /\ \A k \in 1..n : SubSeq(s, 1, n)[k] = s[k]
        /\ \A k \in 1..(Len(s) - n) : SubSeq(s, n + 1, Len(s))[k] = s[k + n]
    BY LenProperties, SubSeqProperties
  <1>2. QED
    BY <1>1 DEF Sorted, Before

LEMMA EmptyBefore ==
  ASSUME NEW s
  PROVE  /\ Sorted(<<>>) /\ Before(s, <<>>) /\ Before(<<>>, s)
         /\ \A sn : NumberedBelow(<<>>, sn) /\ NotOlder(<<>>, sn)
         /\ AllRunahead(<<>>) /\ NoneRunahead(<<>>)
  BY EmptySeq DEF Sorted, Before, NumberedBelow, NotOlder, AllRunahead, NoneRunahead

\* A new instruction is the youngest of all.
LEMMA AppendOrder ==
  ASSUME NEW s \in Seq(Inst), NEW i \in Inst, NumberedBelow(s, i.sn)
  PROVE  /\ Sorted(s) => Sorted(Append(s, i))
         /\ \A u \in Seq(Inst) :
              Before(u, s) /\ NumberedBelow(u, i.sn) => Before(u, Append(s, i))
         /\ NumberedBelow(Append(s, i), i.sn + 1)
         /\ \A sn : NotOlder(s, sn) /\ sn <= i.sn => NotOlder(Append(s, i), sn)
         /\ AllRunahead(s) /\ i.runahead => AllRunahead(Append(s, i))
         /\ NoneRunahead(s) /\ ~i.runahead => NoneRunahead(Append(s, i))
  <1> DEFINE t == Append(s, i)
  <1>1. /\ Len(s) \in Nat /\ DOMAIN s = 1..Len(s) /\ DOMAIN t = 1..(Len(s) + 1)
        /\ \A k \in 1..Len(s) : t[k] = s[k] /\ s[k] \in Inst
        /\ t[Len(s) + 1] = i
    BY LenProperties, AppendProperties, SeqTypes
  <1>2. i.sn \in Nat /\ \A k \in DOMAIN s : s[k].sn \in Nat
    BY <1>1, InstFields
  <1> HIDE DEF t
  <1>3. Sorted(s) => Sorted(t)
    BY <1>1, <1>2 DEF Sorted, NumberedBelow
  <1>4. \A u \in Seq(Inst) : Before(u, s) /\ NumberedBelow(u, i.sn) => Before(u, t)
    BY <1>1 DEF Before, NumberedBelow
  <1>5. NumberedBelow(t, i.sn + 1)
    BY <1>1, <1>2 DEF NumberedBelow
  <1>6. \A sn : NotOlder(s, sn) /\ sn <= i.sn => NotOlder(t, sn)
    BY <1>1 DEF NotOlder
  <1>7. /\ AllRunahead(s) /\ i.runahead => AllRunahead(t)
        /\ NoneRunahead(s) /\ ~i.runahead => NoneRunahead(t)
    BY <1>1 DEF AllRunahead, NoneRunahead
  <1>8. QED
    BY <1>3, <1>4, <1>5, <1>6, <1>7 DEF t

LEMMA ConcatOrder ==
  ASSUME NEW s \in Seq(Inst), NEW t \in Seq(Inst), Before(s, t)
  PROVE  /\ Sorted(s) /\ Sorted(t) => Sorted(s \o t)
         /\ \A u \in Seq(Inst) : Before(s, u) /\ Before(t, u) => Before(s \o t, u)
         /\ \A sn : NumberedBelow(s, sn) /\ NumberedBelow(t, sn)
                      => NumberedBelow(s \o t, sn)
         /\ \A sn : NotOlder(s, sn) /\ NotOlder(t, sn) => NotOlder(s \o t, sn)
         /\ AllRunahead(s) /\ AllRunahead(t) => AllRunahead(s \o t)
  <1> DEFINE c == s \o t
  <1>1. /\ Len(s) \in Nat /\ Len(t) \in Nat /\ DOMAIN s = 1..Len(s)
        /\ DOMAIN t = 1..Len(t) /\ DOMAIN c = 1..(Len(s) + Len(t))
        /\ \A k \in 1..Len(s) : c[k] = s[k]
        /\ \A k \in DOMAIN c : k > Len(s) => c[k] = t[k - Len(s)]
    BY LenProperties, ConcatProperties
  <1>2. \A k \in DOMAIN c : \/ k \in DOMAIN s /\ c[k] = s[k]
                            \/ k - Len(s) \in DOMAIN t /\ c[k] = t[k - Len(s)]
    BY <1>1
  <1> HIDE DEF c
  <1>3. ASSUME Sorted(s), Sorted(t), NEW j \in DOMAIN c, NEW k \in DOMAIN c, j < k
        PROVE  c[j].sn < c[k].sn
    <2>1. CASE k <= Len(s)
      BY <1>1, <1>3, <2>1 DEF Sorted
    <2>2. CASE j > Len(s)
      <3>1. j - Len(s) \in DOMAIN t /\ k - Len(s) \in DOMAIN t /\ j - Len(s) < k - Len(s)
        BY <1>1, <1>3, <2>2
      <3>2. t[j - Len(s)].sn < t[k - Len(s)].sn
        BY <1>3, <3>1 DEF Sorted
      <3>3. QED
        BY <1>1, <1>3, <2>2, <3>2
    <2>3. CASE j <= Len(s) /\ k > Len(s)
      BY <1>1, <2>3 DEF Before
    <2>4. QED
      BY <1>1, <2>1, <2>2, <2>3
  <1>4. \A u \in Seq(Inst) : Before(s, u) /\ Before(t, u) => Before(c, u)
    BY <1>2 DEF Before
  <1>5. /\ \A sn : NumberedBelow(s, sn) /\ NumberedBelow(t, sn) => NumberedBelow(c, sn)
        /\ \A sn : NotOlder(s, sn) /\ NotOlder(t, sn) => NotOlder(c, sn)
    BY <1>2 DEF NumberedBelow, NotOlder
  <1>6. AllRunahead(s) /\ AllRunahead(t) => AllRunahead(c)
    BY <1>2 DEF AllRunahead
  <1>7. QED
    BY <1>3, <1>4, <1>5, <1>6 DEF c, Sorted

\* FrontEndAdvance cuts the queue in two, sends the older part on to commit, and
\* may put one new instruction behind the rest.
LEMMA AdvanceCases ==
  ASSUME TypeOK, FrontEndAdvance
  PROVE  /\ renameNext' \in Seq(Inst) /\ Piece(fetchQueue, renameNext')
         /\ rob' = rob /\ renameNow' = renameNow
         /\ \E rest \in Seq(Inst) :
              /\ Piece(fetchQueue, rest)
              /\ Sorted(fetchQueue) => Before(renameNext', rest)
              /\ \/ fetchQueue' = rest /\ nextSn' = nextSn
                 \/ \E i \in Inst :
                      /\ i.sn = nextSn /\ i.runahead = inRunahead
                      /\ fetchQueue' = Append(rest, i) /\ nextSn' = nextSn + 1
  <1>1. PICK n \in 0..Len(fetchQueue) :
          LET rest == SubSeq(fetchQueue, n + 1, Len(fetchQueue))
          IN  /\ renameNext' = SubSeq(fetchQueue, 1, n)
              /\ \/ fetchQueue' = rest /\ UNCHANGED <<fetchPc, nextSn>>
                 \/ \E k \in Kinds, mispred \in BOOLEAN : FetchInst(rest, k, mispred)
    BY DEF FrontEndAdvance
  <1> DEFINE rest == SubSeq(fetchQueue, n + 1, Len(fetchQueue))
  <1>2. fetchQueue \in Seq(Inst)
    BY DEF TypeOK, FrontType
  <1>3. /\ rest \in Seq(Inst) /\ renameNext' \in Seq(Inst)
        /\ Piece(fetchQueue, rest) /\ Piece(fetchQueue, renameNext')
    BY <1>1, <1>2, SeqTypes, PieceCuts
  <1>4. Sorted(fetchQueue) => Before(renameNext', rest)
    BY <1>1, <1>2, CutBefore
  <1>5. ASSUME NEW k \in Kinds, NEW mispred \in BOOLEAN
        PROVE  /\ NewInst(k, mispred) \in Inst
               /\ NewInst(k, mispred).sn = nextSn
               /\ NewInst(k, mispred).runahead = inRunahead
    BY DEF NewInst, FaultsAtFetch, Inst, States, TypeOK, FrontType, ModeType
  <1>6. \/ fetchQueue' = rest /\ nextSn' = nextSn
        \/ \E i \in Inst : /\ i.sn = nextSn /\ i.runahead = inRunahead
                           /\ fetchQueue' = Append(rest, i) /\ nextSn' = nextSn + 1
    BY <1>1, <1>5 DEF FetchInst
  <1>7. rob' = rob /\ renameNow' = renameNow
    BY DEF FrontEndAdvance, robVars
  <1> HIDE DEF rest
  <1>8. QED
    BY <1>3, <1>4, <1>6, <1>7

\* Entry changes no age, and makes everything runahead.
LEMMA SetRunaheadChange ==
  ASSUME NEW s \in Seq(Inst)
  PROVE  /\ DOMAIN SetRunahead(s) = DOMAIN s
         /\ \A k \in DOMAIN s : SetRunahead(s)[k].sn = s[k].sn
         /\ AllRunahead(SetRunahead(s))
  <1>1. \A k \in DOMAIN s : s[k] \in Inst
    BY SeqTypes
  <1>2. QED
    BY <1>1 DEF SetRunahead, AllRunahead, Inst

LEMMA EnterChange ==
  ASSUME TypeOK, EnterRunahead
  PROVE  /\ DOMAIN rob' = DOMAIN rob /\ DOMAIN renameNext' = DOMAIN renameNext
         /\ DOMAIN fetchQueue' = DOMAIN fetchQueue
         /\ \A k \in DOMAIN rob : rob'[k].sn = rob[k].sn
         /\ \A k \in DOMAIN renameNext : renameNext'[k].sn = renameNext[k].sn
         /\ \A k \in DOMAIN fetchQueue : fetchQueue'[k].sn = fetchQueue[k].sn
         /\ AllRunahead(rob') /\ AllRunahead(renameNext') /\ AllRunahead(fetchQueue')
  <1>1. rob \in Seq(Inst) /\ renameNext \in Seq(Inst) /\ fetchQueue \in Seq(Inst)
    BY DEF TypeOK, RobType, RenameType, FrontType
  <1>2. rob' = [SetRunahead(rob) EXCEPT ![1].poisoned = TRUE]
    BY DEF EnterRunahead
  <1>3. renameNext' = SetRunahead(renameNext) /\ fetchQueue' = SetRunahead(fetchQueue)
    BY DEF EnterRunahead
  <1> DEFINE r == SetRunahead(rob)
  <1>4. /\ DOMAIN r = DOMAIN rob /\ r \in Seq(Inst) /\ AllRunahead(r)
        /\ \A k \in DOMAIN rob : r[k].sn = rob[k].sn
    BY <1>1, SetRunaheadChange, SetRunaheadType
  <1>5. rob' = [r EXCEPT ![1].poisoned = TRUE]
    BY <1>2
  <1> HIDE DEF r
  <1>6. \A k \in DOMAIN r : r[k] \in Inst
    BY <1>4, SeqTypes
  <1>7. /\ DOMAIN rob' = DOMAIN rob /\ AllRunahead(rob')
        /\ \A k \in DOMAIN rob : rob'[k].sn = rob[k].sn
    BY <1>4, <1>5, <1>6 DEF AllRunahead, Inst
  <1>8. QED
    BY <1>1, <1>3, <1>7, SetRunaheadChange

LEMMA AgeOrderStep ==
  ASSUME TypeOK, TypeOK', AgeOrder, Next
  PROVE  AgeOrder'
  <1>1. /\ rob \in Seq(Inst) /\ rob' \in Seq(Inst) /\ renameNow \in Seq(Inst)
        /\ renameNext \in Seq(Inst) /\ fetchQueue \in Seq(Inst) /\ nextSn \in Nat
    BY DEF TypeOK, RobType, RenameType, FrontType
  <1>2. /\ Piece(rob, rob) /\ Piece(renameNow, renameNow)
        /\ Piece(renameNext, renameNext) /\ Piece(fetchQueue, fetchQueue)
        /\ Piece(renameNow, <<>>) /\ Piece(fetchQueue, <<>>)
    BY <1>1, PieceCuts
  <1>3. CASE ~GetInsts /\ ~EnterRunahead
    <2>1. Piece(rob, rob')
      BY <1>3, RobPiece
    <2>2. CASE BehindRename
      BY <1>2, <2>1, <2>2, FrontUnchanged, AgeOrderPieces
    <2>3. CASE FrontEndSquash
      BY <1>2, <2>1, <2>3, AgeOrderPieces DEF FrontEndSquash
    <2>4. CASE FrontEndDiscard
      BY <1>1, <1>2, <2>1, <2>4, PieceCuts, AgeOrderPieces
         DEF FrontEndDiscard, renameVars
    <2>5. CASE FrontEndAdvance
      <3>1. PICK rest \in Seq(Inst) :
              /\ Piece(fetchQueue, rest)
              /\ Sorted(fetchQueue) => Before(renameNext', rest)
              /\ \/ fetchQueue' = rest /\ nextSn' = nextSn
                 \/ \E i \in Inst :
                      /\ i.sn = nextSn /\ i.runahead = inRunahead
                      /\ fetchQueue' = Append(rest, i) /\ nextSn' = nextSn + 1
        BY <2>5, AdvanceCases
      <3>2. /\ renameNext' \in Seq(Inst) /\ Piece(fetchQueue, renameNext')
            /\ rob' = rob /\ renameNow' = renameNow
        BY <2>5, AdvanceCases
      <3>3. Before(renameNext', rest)
        BY <3>1 DEF AgeOrder
      <3>5. /\ Sorted(rest) /\ Sorted(renameNext')
            /\ NumberedBelow(rest, nextSn) /\ NumberedBelow(renameNext', nextSn)
        BY <1>1, <3>1, <3>2, PieceOrder DEF AgeOrder
      <3>6. /\ Before(rob, rest) /\ Before(rob, renameNext')
            /\ Before(renameNow, rest) /\ Before(renameNow, renameNext')
        BY <1>1, <1>2, <3>1, <3>2, PieceBefore DEF AgeOrder
      <3>7. CASE fetchQueue' = rest /\ nextSn' = nextSn
        BY <3>2, <3>3, <3>5, <3>6, <3>7 DEF AgeOrder
      <3>8. ASSUME NEW i \in Inst, i.sn = nextSn, fetchQueue' = Append(rest, i),
                   nextSn' = nextSn + 1
            PROVE  AgeOrder'
        <4>1. Sorted(fetchQueue') /\ NumberedBelow(fetchQueue', nextSn')
          BY <3>2, <3>5, <3>8, AppendOrder
        <4>2. /\ Before(rob, fetchQueue') /\ Before(renameNow, fetchQueue')
              /\ Before(renameNext', fetchQueue')
          BY <1>1, <3>2, <3>3, <3>5, <3>6, <3>8, AppendOrder DEF AgeOrder
        <4>3. /\ NumberedBelow(rob, nextSn') /\ NumberedBelow(renameNow, nextSn')
              /\ NumberedBelow(renameNext', nextSn')
          BY <1>1, <3>2, <3>5, <3>8, SeqTypes, InstFields DEF AgeOrder, NumberedBelow
        <4>4. QED
          BY <3>2, <3>5, <3>6, <4>1, <4>2, <4>3 DEF AgeOrder
      <3>9. QED
        BY <3>1, <3>7, <3>8
    <2>6. CASE UpdateRunaheadState
      <3>1. /\ renameNow' = renameNext /\ renameNext' = <<>>
            /\ fetchQueue' = fetchQueue /\ nextSn' = nextSn
        BY <2>6 DEF UpdateRunaheadState, frontVars
      <3>2. /\ Sorted(rob') /\ NumberedBelow(rob', nextSn)
            /\ Before(rob', renameNext) /\ Before(rob', fetchQueue)
        BY <1>1, <1>2, <2>1, PieceOrder, PieceBefore DEF AgeOrder
      <3>3. QED
        BY <1>1, <3>1, <3>2, EmptyBefore DEF AgeOrder
    <2>7. QED
      BY <1>3, <2>2, <2>3, <2>4, <2>5, <2>6 DEF Next, Tick, BehindRename
  <1>4. CASE GetInsts
    <2>1. /\ rob' = rob \/ rob' = rob \o renameNow
          /\ renameNow' = <<>> /\ renameNext' = renameNext
          /\ fetchQueue' = fetchQueue /\ nextSn' = nextSn
      BY <1>4 DEF GetInsts, frontVars
    <2>2. /\ Sorted(rob') /\ NumberedBelow(rob', nextSn)
          /\ Before(rob', renameNext) /\ Before(rob', fetchQueue)
      BY <1>1, <2>1, ConcatOrder DEF AgeOrder
    <2>3. QED
      BY <1>1, <2>1, <2>2, EmptyBefore DEF AgeOrder
  <1>5. CASE EnterRunahead
    <2>1. /\ DOMAIN rob' = DOMAIN rob /\ DOMAIN renameNext' = DOMAIN renameNext
          /\ DOMAIN fetchQueue' = DOMAIN fetchQueue
          /\ \A k \in DOMAIN rob : rob'[k].sn = rob[k].sn
          /\ \A k \in DOMAIN renameNext : renameNext'[k].sn = renameNext[k].sn
          /\ \A k \in DOMAIN fetchQueue : fetchQueue'[k].sn = fetchQueue[k].sn
      BY <1>5, EnterChange
    <2>2. renameNow' = renameNow /\ nextSn' = nextSn
      BY <1>5 DEF EnterRunahead
    <2>3. QED
      BY <2>1, <2>2 DEF AgeOrder, Sorted, Before, NumberedBelow
  <1>6. QED
    BY <1>3, <1>4, <1>5

-----------------------------------------------------------------------------
(* The parts about control.                                                *)

\* What ModeInv gives for the instruction commit looks at.
LEMMA HeadMode ==
  ASSUME TypeOK, AllInRunahead, StaleInRob, AtHead, ~Head0.squashed
  PROVE  Head0.runahead = inRunahead
  <1>1. 1 \in DOMAIN rob /\ Head0 \in Inst /\ status = "Running"
    BY HeadType DEF AtHead
  <1>2. CASE inRunahead
    BY <1>1, <1>2, InstFields DEF AllInRunahead, AllRunahead, Head0
  <1>3. CASE ~inRunahead
    <2>1. ~ToBeMarked(1)
      BY <1>1 DEF ToBeMarked
    <2>2. ~Head0.runahead
      BY <1>1, <1>3, <2>1 DEF StaleInRob, Head0
    <2>3. Head0.runahead = FALSE /\ inRunahead = FALSE
      BY <1>1, <1>3, <2>2, InstFields DEF TypeOK, ModeType
    <2>4. QED
      BY <2>3
  <1>4. QED
    BY <1>2, <1>3 DEF TypeOK, ModeType

LEMMA CycleOrderStep ==
  ASSUME TypeOK, CycleOrder, Next
  PROVE  CycleOrder'
  <1> USE DEF CycleOrder
  <1>1. CASE Event
    BY <1>1 DEF Event, LLLReturn, MemResponse, ForgedResponse, InFlightTooLong,
       DeadlineEvent, ProcessTrapEvent, renameVars, commitVars, modeVars
  <1>2. CASE StartTick \/ FrontEndSquash \/ FrontEndAdvance \/ FrontEndDiscard
    BY <1>2 DEF StartTick, FrontEndSquash, FrontEndAdvance, FrontEndDiscard,
       renameVars, commitVars, modeVars
  <1>3. CASE IewExecute \/ IewDone
    BY <1>3 DEF IewExecute, IewDone, NoSig, renameVars, commitVars, modeVars
  <1>4. CASE RobWalk \/ SelectNothing \/ IgnoreIewSquash
    BY <1>4 DEF RobWalk, SelectNothing, IgnoreIewSquash, renameVars, commitVars, modeVars
  <1>5. CASE SquashFromTrap \/ SquashFromRunaheadExit \/ AcceptIewSquash
    BY <1>5 DEF SquashFromTrap, SquashFromRunaheadExit, AcceptIewSquash, SquashAll,
       renameVars, modeVars
  <1>6. CASE SquashFromSquashAfter
    BY <1>6 DEF SquashFromSquashAfter, SquashAll, SquashAfterIsStale, renameVars, modeVars
  <1>7. CASE GetInsts
    BY <1>7 DEF GetInsts, modeVars
  <1>8. CASE RetireSquashed \/ CommitHead \/ TrapHead \/ IgnoreRunaheadFault
    BY <1>8 DEF RetireSquashed, CommitHead, TrapHead, IgnoreRunaheadFault, ReadyHead,
       AtHead, renameVars, commitVars, modeVars
  <1>9. CASE EnterRunahead \/ PoisonRunaheadLLL \/ StopCommit
    BY <1>9 DEF EnterRunahead, PoisonRunaheadLLL, StopCommit, LLLAtHead, AtHead,
       renameVars, commitVars, modeVars
  <1>10. CASE UpdateRunaheadState
    BY <1>10 DEF UpdateRunaheadState, commitVars
  <1>11. QED
    BY <1>1, <1>2, <1>3, <1>4, <1>5, <1>6, <1>7, <1>8, <1>9, <1>10 DEF Next, Tick

LEMMA ExitInRunaheadStep ==
  ASSUME TypeOK, AllInRunahead, StaleInRob, ExitInRunahead, Next
  PROVE  ExitInRunahead'
  <1> USE DEF ExitInRunahead
  <1>1. CASE Event
    BY <1>1 DEF Event, LLLReturn, MemResponse, ForgedResponse, InFlightTooLong,
       DeadlineEvent, ProcessTrapEvent, SignalExitRunahead, CausedRunahead,
       DeadlineApplies, modeVars, exitVars
  <1>2. CASE \/ StartTick \/ FrontEndSquash \/ FrontEndAdvance \/ FrontEndDiscard
             \/ IewExecute \/ IewDone \/ RobWalk
    BY <1>2 DEF StartTick, FrontEndSquash, FrontEndAdvance, FrontEndDiscard,
       IewExecute, IewDone, RobWalk, modeVars, exitVars
  <1>3. CASE \/ SquashFromTrap \/ SquashFromSquashAfter \/ SquashFromRunaheadExit
             \/ SelectNothing \/ AcceptIewSquash \/ IgnoreIewSquash \/ GetInsts
    BY <1>3 DEF SquashFromTrap, SquashFromSquashAfter, SquashFromRunaheadExit,
       SelectNothing, AcceptIewSquash, IgnoreIewSquash, GetInsts, modeVars, exitVars
  <1>4. CASE \/ RetireSquashed \/ CommitHead \/ TrapHead \/ EnterRunahead
             \/ PoisonRunaheadLLL \/ StopCommit
    BY <1>4 DEF RetireSquashed, CommitHead, TrapHead, EnterRunahead,
       PoisonRunaheadLLL, StopCommit, modeVars, exitVars
  <1>5. CASE IgnoreRunaheadFault
    <2>1. inRunahead
      BY <1>5, HeadMode DEF IgnoreRunaheadFault, ReadyHead, IgnoresFault
    <2>2. QED
      BY <1>5, <2>1 DEF IgnoreRunaheadFault, modeVars
  <1>6. CASE UpdateRunaheadState
    BY <1>6 DEF UpdateRunaheadState
  <1>7. QED
    BY <1>1, <1>2, <1>3, <1>4, <1>5, <1>6 DEF Next, Tick

LEMMA TrapPairedStep ==
  ASSUME TypeOK, AllInRunahead, StaleInRob, ExitInRunahead, TrapPaired, Next
  PROVE  TrapPaired'
  <1> USE DEF TrapPaired
  <1>1. CASE Event
    <2>1. CASE ProcessTrapEvent
      <3>1. trapEvent = "normal" /\ ~TrapIsVoid
        BY <2>1 DEF ProcessTrapEvent, TrapIsVoid, TypeOK, TrapType
      <3>2. trapEvent' = "none" /\ trapSquash'
        BY <2>1, <3>1 DEF ProcessTrapEvent
      <3>3. QED
        BY <2>1, <3>1, <3>2 DEF ProcessTrapEvent, commitVars, modeVars
    <2>2. CASE ~ProcessTrapEvent
      <3>1. UNCHANGED <<status, trapEvent, trapSquash, trapInFlight, inRunahead>>
        BY <1>1, <2>2 DEF Event, LLLReturn, MemResponse, ForgedResponse,
           InFlightTooLong, DeadlineEvent, commitVars, trapVars, modeVars
      <3>2. QED
        BY <3>1
    <2>3. QED
      BY <2>1, <2>2
  <1>2. CASE \/ StartTick \/ FrontEndSquash \/ FrontEndAdvance \/ FrontEndDiscard
             \/ IewExecute \/ IewDone \/ RobWalk
    BY <1>2 DEF StartTick, FrontEndSquash, FrontEndAdvance, FrontEndDiscard,
       IewExecute, IewDone, RobWalk, commitVars, trapVars, modeVars
  <1>3. CASE SquashFromTrap \/ SquashFromSquashAfter
    BY <1>3 DEF SquashFromTrap, SquashFromSquashAfter, SquashAll, modeVars
  <1>4. CASE SquashFromRunaheadExit
    BY <1>4 DEF SquashFromRunaheadExit, ExitInRunahead
  <1>5. CASE SelectNothing \/ AcceptIewSquash \/ IgnoreIewSquash \/ GetInsts
    BY <1>5 DEF SelectNothing, AcceptIewSquash, IgnoreIewSquash, GetInsts,
       IewSquashCounts, commitVars, trapVars, modeVars
  <1>6. CASE RetireSquashed \/ CommitHead \/ IgnoreRunaheadFault \/ EnterRunahead
    BY <1>6 DEF RetireSquashed, CommitHead, IgnoreRunaheadFault, EnterRunahead,
       ReadyHead, LLLAtHead, AtHead, commitVars, trapVars, modeVars
  <1>7. CASE PoisonRunaheadLLL \/ StopCommit \/ UpdateRunaheadState
    BY <1>7 DEF PoisonRunaheadLLL, StopCommit, UpdateRunaheadState,
       commitVars, trapVars, modeVars
  <1>8. CASE TrapHead
    <2>1. ~inRunahead /\ status = "Running"
      BY <1>8, HeadMode DEF TrapHead, ReadyHead, AtHead, IgnoresFault
    <2>2. QED
      BY <1>8, <2>1 DEF TrapHead, modeVars
  <1>9. QED
    BY <1>1, <1>2, <1>3, <1>4, <1>5, <1>6, <1>7, <1>8 DEF Next, Tick

LEMMA SquashAfterStep ==
  ASSUME CycleOrder, TrapPaired, SquashAfterPaired, Next
  PROVE  SquashAfterPaired'
  <1> USE DEF SquashAfterPaired
  <1>1. CASE Event
    BY <1>1 DEF Event, LLLReturn, MemResponse, ForgedResponse, InFlightTooLong,
       DeadlineEvent, ProcessTrapEvent, commitVars, trapVars
  <1>2. CASE \/ StartTick \/ FrontEndSquash \/ FrontEndAdvance \/ FrontEndDiscard
             \/ IewExecute \/ IewDone \/ RobWalk
    BY <1>2 DEF StartTick, FrontEndSquash, FrontEndAdvance, FrontEndDiscard,
       IewExecute, IewDone, RobWalk, commitVars, trapVars
  <1>3. CASE SquashFromTrap \/ SquashFromRunaheadExit \/ AcceptIewSquash
    BY <1>3 DEF SquashFromTrap, SquashFromRunaheadExit, AcceptIewSquash, CycleOrder,
       TrapPaired, trapVars
  <1>4. CASE SquashFromSquashAfter
    BY <1>4 DEF SquashFromSquashAfter, SquashAfterIsStale, SquashAfterDone, CycleOrder
  <1>5. CASE SelectNothing \/ IgnoreIewSquash \/ GetInsts \/ RetireSquashed
    BY <1>5 DEF SelectNothing, IgnoreIewSquash, GetInsts, RetireSquashed,
       commitVars, trapVars
  <1>6. CASE CommitHead \/ TrapHead \/ IgnoreRunaheadFault \/ EnterRunahead
    BY <1>6 DEF CommitHead, TrapHead, IgnoreRunaheadFault, EnterRunahead,
       ReadyHead, AtHead, commitVars, trapVars
  <1>7. CASE PoisonRunaheadLLL \/ StopCommit \/ UpdateRunaheadState
    BY <1>7 DEF PoisonRunaheadLLL, StopCommit, UpdateRunaheadState, commitVars, trapVars
  <1>8. QED
    BY <1>1, <1>2, <1>3, <1>4, <1>5, <1>6, <1>7 DEF Next, Tick

-----------------------------------------------------------------------------
(* The parts about the modes of instructions.                              *)

\* In front of the ROB, instructions move on or go; only fetch adds any.
LEMMA FrontChange ==
  ASSUME TypeOK, Next, ~FrontEndAdvance, ~EnterRunahead, ~UpdateRunaheadState
  PROVE  /\ Piece(renameNow, renameNow') /\ Piece(renameNext, renameNext')
         /\ Piece(fetchQueue, fetchQueue') /\ nextSn' = nextSn
  <1>1. renameNow \in Seq(Inst) /\ renameNext \in Seq(Inst) /\ fetchQueue \in Seq(Inst)
    BY DEF TypeOK, RenameType, FrontType
  <1>2. /\ Piece(renameNow, renameNow) /\ Piece(renameNext, renameNext)
        /\ Piece(fetchQueue, fetchQueue)
        /\ Piece(renameNow, <<>>) /\ Piece(fetchQueue, <<>>)
        /\ fetchQueue # <<>> => Piece(fetchQueue, Tail(fetchQueue))
    BY <1>1, PieceCuts
  <1>3. CASE BehindRename
    BY <1>2, <1>3, FrontUnchanged
  <1>4. CASE FrontEndSquash \/ FrontEndDiscard \/ GetInsts
    BY <1>2, <1>4 DEF FrontEndSquash, FrontEndDiscard, GetInsts, frontVars, renameVars
  <1>5. QED
    BY <1>3, <1>4 DEF Next, Tick, BehindRename

\* The load that causes runahead, and the cause of an exit, change as follows.
LEMMA CauseChange ==
  ASSUME Next, ~EnterRunahead
  PROVE  /\ runaheadCause' = runaheadCause
         /\ exitCause' = exitCause \/ exitCause' = runaheadCause
  <1>1. CASE Event
    BY <1>1 DEF Event, LLLReturn, MemResponse, ForgedResponse, InFlightTooLong,
       DeadlineEvent, ProcessTrapEvent, SignalExitRunahead, modeVars, exitVars
  <1>2. CASE \/ StartTick \/ FrontEndSquash \/ FrontEndAdvance \/ FrontEndDiscard
             \/ IewExecute \/ IewDone \/ RobWalk
    BY <1>2 DEF StartTick, FrontEndSquash, FrontEndAdvance, FrontEndDiscard,
       IewExecute, IewDone, RobWalk, modeVars, exitVars
  <1>3. CASE \/ SquashFromTrap \/ SquashFromSquashAfter \/ SquashFromRunaheadExit
             \/ SelectNothing \/ AcceptIewSquash \/ IgnoreIewSquash \/ GetInsts
    BY <1>3 DEF SquashFromTrap, SquashFromSquashAfter, SquashFromRunaheadExit,
       SelectNothing, AcceptIewSquash, IgnoreIewSquash, GetInsts, modeVars, exitVars
  <1>4. CASE \/ RetireSquashed \/ CommitHead \/ TrapHead \/ IgnoreRunaheadFault
             \/ PoisonRunaheadLLL \/ StopCommit \/ UpdateRunaheadState
    BY <1>4 DEF RetireSquashed, CommitHead, TrapHead, IgnoreRunaheadFault,
       FaultExitCause, PoisonRunaheadLLL, StopCommit, UpdateRunaheadState,
       modeVars, exitVars
  <1>5. QED
    BY <1>1, <1>2, <1>3, <1>4 DEF Next, Tick

LEMMA CauseIsOldestStep ==
  ASSUME TypeOK, TypeOK', AgeOrder, CauseIsOldest, Next
  PROVE  CauseIsOldest'
  <1>1. /\ rob \in Seq(Inst) /\ rob' \in Seq(Inst)
        /\ renameNow \in Seq(Inst) /\ renameNow' \in Seq(Inst)
        /\ renameNext \in Seq(Inst) /\ renameNext' \in Seq(Inst)
        /\ fetchQueue \in Seq(Inst) /\ fetchQueue' \in Seq(Inst)
        /\ nextSn \in Nat /\ runaheadCause.sn \in Nat /\ exitCause.sn \in Nat
    BY DEF TypeOK, RobType, RenameType, FrontType, ModeType, ExitType, Cause
  <1>2. CASE EnterRunahead
    <2>1. /\ rob # <<>> /\ 1 \in DOMAIN rob /\ Head0 \in Inst
          /\ runaheadCause'.sn = Head0.sn /\ exitCause' = exitCause
          /\ renameNow' = renameNow /\ nextSn' = nextSn
      BY <1>2, HeadType DEF EnterRunahead, LLLAtHead, AtHead, exitVars
    <2>2. Head0.sn \in Nat /\ runaheadCause.sn <= Head0.sn /\ Head0.sn < nextSn
      BY <2>1, InstFields DEF CauseIsOldest, AgeOrder, NotOlder, NumberedBelow, Head0
    <2>3. NotOlder(rob, Head0.sn)
      <3>1. ASSUME NEW k \in DOMAIN rob
            PROVE  Head0.sn <= rob[k].sn
        <4>1. rob[k].sn \in Nat /\ k \in Nat /\ k >= 1
          BY <1>1, SeqTypes, InstFields
        <4>2. k # 1 => Head0.sn < rob[k].sn
          BY <2>1, <4>1 DEF AgeOrder, Sorted, Head0
        <4>3. QED
          BY <2>2, <4>1, <4>2 DEF Head0
      <3>2. QED
        BY <3>1 DEF NotOlder
    <2>4. /\ NotOlder(renameNow, Head0.sn) /\ NotOlder(renameNext, Head0.sn)
          /\ NotOlder(fetchQueue, Head0.sn)
      <3>1. /\ \A k \in DOMAIN renameNow : renameNow[k].sn \in Nat
            /\ \A k \in DOMAIN renameNext : renameNext[k].sn \in Nat
            /\ \A k \in DOMAIN fetchQueue : fetchQueue[k].sn \in Nat
        BY <1>1, SeqTypes, InstFields
      <3>2. QED
        BY <2>1, <2>2, <3>1 DEF AgeOrder, Before, NotOlder, Head0
    <2>5. /\ NotOlder(rob', Head0.sn) /\ NotOlder(renameNext', Head0.sn)
          /\ NotOlder(fetchQueue', Head0.sn)
      BY <1>2, <2>3, <2>4, EnterChange DEF NotOlder
    <2>6. QED
      BY <1>1, <2>1, <2>2, <2>4, <2>5 DEF CauseIsOldest
  <1>3. CASE ~EnterRunahead
    <2>1. /\ runaheadCause' = runaheadCause
          /\ exitCause'.sn <= runaheadCause.sn
      BY <1>1, <1>3, CauseChange DEF CauseIsOldest
    <2>2. NotOlder(rob', runaheadCause.sn)
      <3>1. CASE GetInsts
        BY <1>1, <3>1, ConcatOrder DEF GetInsts, CauseIsOldest, AgeOrder
      <3>2. CASE ~GetInsts
        BY <1>1, <1>3, <3>2, RobPiece, PieceOrder DEF CauseIsOldest
      <3>3. QED
        BY <3>1, <3>2
    <2>3. CASE FrontEndAdvance
      <3>1. PICK rest \in Seq(Inst) :
              /\ Piece(fetchQueue, rest)
              /\ Sorted(fetchQueue) => Before(renameNext', rest)
              /\ \/ fetchQueue' = rest /\ nextSn' = nextSn
                 \/ \E i \in Inst :
                      /\ i.sn = nextSn /\ i.runahead = inRunahead
                      /\ fetchQueue' = Append(rest, i) /\ nextSn' = nextSn + 1
        BY <2>3, AdvanceCases
      <3>2. /\ renameNext' \in Seq(Inst) /\ Piece(fetchQueue, renameNext')
            /\ renameNow' = renameNow
        BY <2>3, AdvanceCases
      <3>3. runaheadCause.sn < nextSn
        BY DEF CauseIsOldest
      <3>4. /\ NotOlder(renameNext', runaheadCause.sn) /\ NotOlder(rest, runaheadCause.sn)
            /\ NumberedBelow(rest, nextSn)
        BY <1>1, <3>1, <3>2, PieceOrder DEF CauseIsOldest, AgeOrder
      <3>5. NotOlder(fetchQueue', runaheadCause.sn)
        <4>1. CASE fetchQueue' = rest
          BY <3>4, <4>1
        <4>2. ASSUME NEW i \in Inst, i.sn = nextSn, fetchQueue' = Append(rest, i)
              PROVE  NotOlder(fetchQueue', runaheadCause.sn)
          <5>1. NumberedBelow(rest, i.sn) /\ runaheadCause.sn <= i.sn
            BY <1>1, <3>3, <3>4, <4>2
          <5>2. NotOlder(Append(rest, i), runaheadCause.sn)
            BY <3>4, <5>1, AppendOrder
          <5>3. QED
            BY <4>2, <5>2
        <4>3. QED
          BY <3>1, <4>1, <4>2
      <3>6. renameNow' = renameNow /\ runaheadCause.sn < nextSn'
        BY <1>1, <3>1, <3>2, <3>3
      <3>7. QED
        BY <2>1, <2>2, <3>4, <3>5, <3>6 DEF CauseIsOldest
    <2>4. CASE UpdateRunaheadState
      <3>1. /\ renameNow' = renameNext /\ renameNext' = <<>>
            /\ fetchQueue' = fetchQueue /\ nextSn' = nextSn
        BY <2>4 DEF UpdateRunaheadState, frontVars
      <3>2. QED
        BY <2>1, <2>2, <3>1, EmptyBefore DEF CauseIsOldest
    <2>5. CASE ~FrontEndAdvance /\ ~UpdateRunaheadState
      BY <1>1, <1>3, <2>1, <2>2, <2>5, FrontChange, PieceOrder DEF CauseIsOldest
    <2>6. QED
      BY <2>3, <2>4, <2>5
  <1>4. QED
    BY <1>2, <1>3

\* The mode changes at entry and exit only.
LEMMA ModeChange ==
  ASSUME Next, ~EnterRunahead, ~SquashFromRunaheadExit
  PROVE  inRunahead' = inRunahead
  <1>1. CASE Event
    BY <1>1 DEF Event, LLLReturn, MemResponse, ForgedResponse, InFlightTooLong,
       DeadlineEvent, ProcessTrapEvent, modeVars
  <1>2. CASE \/ StartTick \/ FrontEndSquash \/ FrontEndAdvance \/ FrontEndDiscard
             \/ IewExecute \/ IewDone \/ RobWalk
    BY <1>2 DEF StartTick, FrontEndSquash, FrontEndAdvance, FrontEndDiscard,
       IewExecute, IewDone, RobWalk, modeVars
  <1>3. CASE \/ SquashFromTrap \/ SquashFromSquashAfter
             \/ SelectNothing \/ AcceptIewSquash \/ IgnoreIewSquash \/ GetInsts
    BY <1>3 DEF SquashFromTrap, SquashFromSquashAfter, SelectNothing,
       AcceptIewSquash, IgnoreIewSquash, GetInsts, modeVars
  <1>4. CASE \/ RetireSquashed \/ CommitHead \/ TrapHead \/ IgnoreRunaheadFault
             \/ PoisonRunaheadLLL \/ StopCommit \/ UpdateRunaheadState
    BY <1>4 DEF RetireSquashed, CommitHead, TrapHead, IgnoreRunaheadFault,
       PoisonRunaheadLLL, StopCommit, UpdateRunaheadState, modeVars
  <1>5. QED
    BY <1>1, <1>2, <1>3, <1>4 DEF Next, Tick

LEMMA AllInRunaheadStep ==
  ASSUME TypeOK, TypeOK', AgeOrder, CycleOrder, AllInRunahead, Next
  PROVE  AllInRunahead'
  <1> SUFFICES ASSUME inRunahead'
               PROVE  (/\ AllRunahead(rob) /\ AllRunahead(renameNow)
                       /\ AllRunahead(renameNext) /\ AllRunahead(fetchQueue))'
    BY DEF AllInRunahead
  <1>1. /\ rob \in Seq(Inst) /\ rob' \in Seq(Inst)
        /\ renameNow \in Seq(Inst) /\ renameNow' \in Seq(Inst)
        /\ renameNext \in Seq(Inst) /\ renameNext' \in Seq(Inst)
        /\ fetchQueue \in Seq(Inst) /\ fetchQueue' \in Seq(Inst)
    BY DEF TypeOK, RobType, RenameType, FrontType
  <1>2. CASE EnterRunahead
    <2>1. renameNow' = <<>>
      BY <1>2 DEF EnterRunahead, LLLAtHead, AtHead, CycleOrder
    <2>2. QED
      BY <1>2, <2>1, EnterChange, EmptyBefore
  <1>3. CASE ~EnterRunahead
    <2>1. inRunahead
      BY <1>3, ModeChange DEF SquashFromRunaheadExit
    <2>2. /\ AllRunahead(rob) /\ AllRunahead(renameNow)
          /\ AllRunahead(renameNext) /\ AllRunahead(fetchQueue)
      BY <2>1 DEF AllInRunahead
    <2>3. AllRunahead(rob')
      <3>1. CASE GetInsts
        BY <1>1, <2>2, <3>1, ConcatOrder DEF GetInsts, AgeOrder
      <3>2. CASE ~GetInsts
        BY <1>1, <1>3, <2>2, <3>2, RobPiece, PieceOrder
      <3>3. QED
        BY <3>1, <3>2
    <2>4. CASE FrontEndAdvance
      <3>1. PICK rest \in Seq(Inst) :
              /\ Piece(fetchQueue, rest)
              /\ Sorted(fetchQueue) => Before(renameNext', rest)
              /\ \/ fetchQueue' = rest /\ nextSn' = nextSn
                 \/ \E i \in Inst :
                      /\ i.sn = nextSn /\ i.runahead = inRunahead
                      /\ fetchQueue' = Append(rest, i) /\ nextSn' = nextSn + 1
        BY <2>4, AdvanceCases
      <3>2. /\ renameNext' \in Seq(Inst) /\ Piece(fetchQueue, renameNext')
            /\ renameNow' = renameNow
        BY <2>4, AdvanceCases
      <3>3. AllRunahead(rest) /\ AllRunahead(renameNext') /\ NumberedBelow(rest, nextSn)
        BY <1>1, <2>2, <3>1, <3>2, PieceOrder DEF AgeOrder
      <3>4. AllRunahead(fetchQueue')
        <4>1. CASE fetchQueue' = rest
          BY <3>3, <4>1
        <4>2. ASSUME NEW i \in Inst, i.sn = nextSn, i.runahead = inRunahead,
                     fetchQueue' = Append(rest, i)
              PROVE  AllRunahead(fetchQueue')
          <5>1. NumberedBelow(rest, i.sn) /\ i.runahead
            BY <2>1, <3>3, <4>2
          <5>2. AllRunahead(Append(rest, i))
            BY <3>3, <5>1, AppendOrder
          <5>3. QED
            BY <4>2, <5>2
        <4>3. QED
          BY <3>1, <4>1, <4>2
      <3>5. QED
        BY <2>2, <2>3, <3>2, <3>3, <3>4
    <2>5. CASE UpdateRunaheadState
      BY <2>2, <2>3, <2>5, EmptyBefore DEF UpdateRunaheadState, frontVars
    <2>6. CASE ~FrontEndAdvance /\ ~UpdateRunaheadState
      BY <1>1, <1>3, <2>2, <2>3, <2>6, FrontChange, PieceOrder
    <2>7. QED
      BY <2>4, <2>5, <2>6
  <1>4. QED
    BY <1>2, <1>3

\* Out of runahead with every stage in front of commit told of the exit.
FrontIsNormal == ~inRunahead /\ (sig.squash => phase = "iew")

\* The squash of an exit is taken back only once fetch has acted on it.
LEMMA FrontIsNormalBefore ==
  ASSUME CycleOrder, Next, FrontIsNormal', ~FrontEndSquash
  PROVE  FrontIsNormal /\ ~EnterRunahead /\ ~SquashFromRunaheadExit
  <1> USE DEF FrontIsNormal
  <1>1. ~SquashFromRunaheadExit
    BY DEF SquashFromRunaheadExit, SignalSquash
  <1>2. ~EnterRunahead
    BY DEF EnterRunahead
  <1>3. ~inRunahead
    BY <1>1, <1>2, ModeChange
  <1> SUFFICES sig.squash => phase = "iew"
    BY <1>1, <1>2, <1>3
  <1>4. CASE Event
    BY <1>3, <1>4 DEF Event, LLLReturn, MemResponse, ForgedResponse, InFlightTooLong,
       DeadlineEvent, ProcessTrapEvent
  <1>5. CASE \/ StartTick \/ FrontEndAdvance \/ FrontEndDiscard
             \/ IewExecute \/ IewDone \/ RobWalk
    BY <1>3, <1>5 DEF StartTick, FrontEndAdvance, FrontEndDiscard,
       IewExecute, IewDone, RobWalk
  <1>6. CASE SquashFromTrap \/ SquashFromSquashAfter \/ AcceptIewSquash
    BY <1>3, <1>6 DEF SquashFromTrap, SquashFromSquashAfter, AcceptIewSquash,
       SquashAll, SignalSquash, CycleOrder
  <1>7. CASE SelectNothing \/ IgnoreIewSquash \/ GetInsts
    BY <1>3, <1>7 DEF SelectNothing, IgnoreIewSquash, GetInsts
  <1>8. CASE \/ RetireSquashed \/ CommitHead \/ TrapHead \/ IgnoreRunaheadFault
             \/ PoisonRunaheadLLL \/ StopCommit \/ UpdateRunaheadState
    BY <1>3, <1>8 DEF RetireSquashed, CommitHead, TrapHead, IgnoreRunaheadFault,
       ReadyHead, AtHead, PoisonRunaheadLLL, StopCommit, UpdateRunaheadState
  <1>9. QED
    BY <1>1, <1>2, <1>4, <1>5, <1>6, <1>7, <1>8 DEF Next, Tick

LEMMA StaleInFrontStep ==
  ASSUME TypeOK, TypeOK', AgeOrder, CycleOrder, StaleInFront, Next
  PROVE  StaleInFront'
  <1> SUFFICES ASSUME FrontIsNormal'
               PROVE  (/\ NoneRunahead(renameNow) /\ NoneRunahead(renameNext)
                       /\ NoneRunahead(fetchQueue))'
    BY DEF StaleInFront, FrontIsNormal
  <1>1. /\ renameNow \in Seq(Inst) /\ renameNow' \in Seq(Inst)
        /\ renameNext \in Seq(Inst) /\ renameNext' \in Seq(Inst)
        /\ fetchQueue \in Seq(Inst) /\ fetchQueue' \in Seq(Inst)
    BY DEF TypeOK, RenameType, FrontType
  <1>2. CASE FrontEndSquash
    BY <1>2, EmptyBefore DEF FrontEndSquash, CycleOrder
  <1>3. CASE ~FrontEndSquash
    <2>1. ~inRunahead /\ ~EnterRunahead /\ FrontIsNormal
      BY <1>3, FrontIsNormalBefore DEF FrontIsNormal
    <2>2. NoneRunahead(renameNow) /\ NoneRunahead(renameNext) /\ NoneRunahead(fetchQueue)
      BY <2>1 DEF StaleInFront, FrontIsNormal
    <2>3. CASE FrontEndAdvance
      <3>1. PICK rest \in Seq(Inst) :
              /\ Piece(fetchQueue, rest)
              /\ Sorted(fetchQueue) => Before(renameNext', rest)
              /\ \/ fetchQueue' = rest /\ nextSn' = nextSn
                 \/ \E i \in Inst :
                      /\ i.sn = nextSn /\ i.runahead = inRunahead
                      /\ fetchQueue' = Append(rest, i) /\ nextSn' = nextSn + 1
        BY <2>3, AdvanceCases
      <3>2. /\ renameNext' \in Seq(Inst) /\ Piece(fetchQueue, renameNext')
            /\ renameNow' = renameNow
        BY <2>3, AdvanceCases
      <3>3. NoneRunahead(rest) /\ NoneRunahead(renameNext') /\ NumberedBelow(rest, nextSn)
        BY <1>1, <2>2, <3>1, <3>2, PieceOrder DEF AgeOrder
      <3>4. NoneRunahead(fetchQueue')
        <4>1. CASE fetchQueue' = rest
          BY <3>3, <4>1
        <4>2. ASSUME NEW i \in Inst, i.sn = nextSn, i.runahead = inRunahead,
                     fetchQueue' = Append(rest, i)
              PROVE  NoneRunahead(fetchQueue')
          <5>1. NumberedBelow(rest, i.sn) /\ ~i.runahead
            BY <2>1, <3>3, <4>2
          <5>2. NoneRunahead(Append(rest, i))
            BY <3>3, <5>1, AppendOrder
          <5>3. QED
            BY <4>2, <5>2
        <4>3. QED
          BY <3>1, <4>1, <4>2
      <3>5. QED
        BY <2>2, <3>2, <3>3, <3>4
    <2>4. CASE UpdateRunaheadState
      BY <2>2, <2>4, EmptyBefore DEF UpdateRunaheadState, frontVars
    <2>5. CASE ~FrontEndAdvance /\ ~UpdateRunaheadState
      BY <1>1, <2>1, <2>2, <2>5, FrontChange, PieceOrder
    <2>6. QED
      BY <2>3, <2>4, <2>5
  <1>4. QED
    BY <1>2, <1>3

\* A cycle of the walk marks what it covers or will come by it later: rob.cc's
\* iterator stops at the first instruction that is old enough to stay.
LEMMA WalkCovers ==
  ASSUME NEW s \in Seq(Inst), Sorted(s), NEW from \in DOMAIN s, NEW to \in Int,
         NEW w \in Nat, NEW k \in DOMAIN s, k <= from, s[k].sn > to
  PROVE  \/ MarkSquashed(s, WalkMarks(s, from, to, w))[k].squashed
         \/ WalkNext(s, from, to, w) \in DOMAIN s /\ k <= WalkNext(s, from, to, w)
  <1>1. /\ Len(s) \in Nat /\ DOMAIN s = 1..Len(s)
        /\ \A j \in DOMAIN s : s[j] \in Inst /\ s[j].sn \in Nat
    BY SeqTypes, InstFields
  <1>2. CASE k > from - w
    <2>1. k \in WalkMarks(s, from, to, w)
      BY <1>1, <1>2 DEF WalkMarks
    <2>2. QED
      BY <1>1, <2>1 DEF MarkSquashed, Inst
  <1>3. CASE k <= from - w
    <2> DEFINE next == from - w
    <2>1. next \in DOMAIN s /\ k <= next
      BY <1>1, <1>3
    <2>2. s[next].sn > to
      <3>1. k = next \/ s[k].sn < s[next].sn
        BY <1>1, <2>1 DEF Sorted
      <3>2. s[next].sn \in Nat /\ s[k].sn \in Nat
        BY <1>1, <2>1
      <3> HIDE DEF next
      <3>3. QED
        BY <3>1, <3>2
    <2>3. WalkNext(s, from, to, w) = next
      BY <2>1, <2>2 DEF WalkNext
    <2>4. QED
      BY <2>1, <2>3
  <1>4. QED
    BY <1>1, <1>2, <1>3

LEMMA SquashCovers ==
  ASSUME TypeOK, AgeOrder, NEW to \in Int, RobSquash(to),
         status' = "ROBSquashing", youngestSeqNum' = to,
         NEW k \in DOMAIN rob, rob[k].sn > to
  PROVE  rob'[k].squashed \/ ToBeMarked(k)'
  <1>1. rob \in Seq(Inst) /\ SquashWidth \in Nat /\ rob # <<>>
    BY SizeAssumption, EmptySeq DEF TypeOK, RobType
  <1>2. Len(rob) \in DOMAIN rob /\ k <= Len(rob)
    BY <1>1, SeqTypes
  <1>3. /\ rob' = MarkSquashed(rob, WalkMarks(rob, Len(rob), to, SquashWidth))
        /\ squashIt' = WalkNext(rob, Len(rob), to, SquashWidth)
        /\ squashTo' = to
    BY <1>1 DEF RobSquash
  <1>4. rob'[k].squashed \/ (squashIt' \in DOMAIN rob /\ k <= squashIt')
    BY <1>1, <1>2, <1>3, WalkCovers DEF AgeOrder
  <1>5. DOMAIN rob' = DOMAIN rob /\ rob'[k].sn = rob[k].sn
    BY <1>1, <1>3, MarkUpdated DEF Updated
  <1>6. QED
    BY <1>3, <1>4, <1>5 DEF ToBeMarked

\* As long as commit may commit or trap, every stale instruction is marked.
LEMMA StaleMarked ==
  ASSUME StaleInRob, ~inRunahead, status # "ROBSquashing",
         NEW k \in DOMAIN rob, rob[k].runahead
  PROVE  rob[k].squashed
  BY DEF StaleInRob, ToBeMarked

\* What the walk position and the known squashes depend on.
LEMMA WalkUnchanged ==
  ASSUME Next, ~RobWalk, ~SquashFromTrap, ~SquashFromSquashAfter,
         ~SquashFromRunaheadExit, ~AcceptIewSquash, ~GetInsts
  PROVE  /\ UNCHANGED <<squashIt, squashTo, youngestSeqNum>>
         /\ status = "ROBSquashing" => status' = "ROBSquashing"
  <1>1. CASE Event
    BY <1>1 DEF Event, LLLReturn, MemResponse, ForgedResponse, InFlightTooLong,
       DeadlineEvent, ProcessTrapEvent, robVars, commitVars
  <1>2. CASE \/ StartTick \/ FrontEndSquash \/ FrontEndAdvance \/ FrontEndDiscard
             \/ IewExecute \/ IewDone
    BY <1>2 DEF StartTick, FrontEndSquash, FrontEndAdvance, FrontEndDiscard,
       IewExecute, IewDone, robVars, commitVars
  <1>3. CASE \/ SelectNothing \/ IgnoreIewSquash \/ RetireSquashed \/ CommitHead
             \/ TrapHead
    BY <1>3 DEF SelectNothing, IgnoreIewSquash, RetireSquashed, CommitHead,
       TrapHead, ReadyHead, AtHead, robVars, commitVars
  <1>4. CASE \/ IgnoreRunaheadFault \/ EnterRunahead \/ PoisonRunaheadLLL
             \/ StopCommit \/ UpdateRunaheadState
    BY <1>4 DEF IgnoreRunaheadFault, EnterRunahead, PoisonRunaheadLLL,
       StopCommit, UpdateRunaheadState, robVars, commitVars
  <1>5. QED
    BY <1>1, <1>2, <1>3, <1>4 DEF Next, Tick

LEMMA StaleInRobStep ==
  ASSUME TypeOK, AgeOrder, CauseIsOldest, CycleOrder, AllInRunahead, StaleInRob,
         StaleInFront, TrapPaired, Next
  PROVE  StaleInRob'
  <1> SUFFICES ASSUME ~inRunahead', NEW k \in DOMAIN rob', rob'[k].runahead
               PROVE  rob'[k].squashed \/ ToBeMarked(k)'
    BY DEF StaleInRob
  <1>1. rob \in Seq(Inst)
    BY DEF TypeOK, RobType
  <1>2. \A j \in DOMAIN rob : rob[j] \in Inst /\ rob[j].sn \in Nat
    BY <1>1, SeqTypes, InstFields
  <1>3. ~EnterRunahead
    BY DEF EnterRunahead
  <1>4. ASSUME ~GetInsts, ~Retires
        PROVE  /\ k \in DOMAIN rob /\ DOMAIN rob' = DOMAIN rob
               /\ rob'[k].sn = rob[k].sn /\ rob[k].runahead
               /\ rob[k].squashed => rob'[k].squashed
    BY <1>3, <1>4, RobChange DEF Updated
  <1>5. CASE SquashFromRunaheadExit
    <2> DEFINE to == exitCause.sn - 1
    <2>1. /\ RobSquash(to) /\ youngestSeqNum' = to /\ status' = "ROBSquashing"
          /\ phase = "select"
      BY <1>5 DEF SquashFromRunaheadExit
    <2>2. k \in DOMAIN rob
      BY <2>1, <1>4 DEF GetInsts, Retires, RetireSquashed, CommitHead, ReadyHead, AtHead
    <2>3. to \in Int /\ rob[k].sn > to
      BY <1>2, <2>2 DEF CauseIsOldest, NotOlder, TypeOK, ModeType, ExitType, Cause
    <2> HIDE DEF to
    <2>4. QED
      BY <2>1, <2>2, <2>3, SquashCovers
  <1>6. CASE ~SquashFromRunaheadExit
    <2>1. ~inRunahead
      BY <1>3, <1>6, ModeChange
    <2>2. \A j \in DOMAIN rob : rob[j].runahead => rob[j].squashed \/ ToBeMarked(j)
      BY <2>1 DEF StaleInRob
    <2>3. CASE GetInsts
      <3>1. CASE rob' = rob /\ youngestSeqNum' = youngestSeqNum
        BY <2>2, <2>3, <3>1 DEF GetInsts, ToBeMarked
      <3>2. CASE ~(rob' = rob /\ youngestSeqNum' = youngestSeqNum)
        <4>1. /\ rob' = rob \o renameNow /\ status # "ROBSquashing" /\ phase = "get"
          BY <2>3, <3>2 DEF GetInsts
        <4>2. NoneRunahead(renameNow) /\ renameNow \in Seq(Inst)
          BY <2>1, <4>1 DEF StaleInFront, CycleOrder, TypeOK, RenameType
        <4>3. \/ k \in DOMAIN rob /\ rob'[k] = rob[k]
              \/ \E j \in DOMAIN renameNow : rob'[k] = renameNow[j]
          BY <1>1, <4>1, <4>2, ConcatProperties, LenProperties
        <4>4. k \in DOMAIN rob /\ rob'[k] = rob[k]
          BY <4>2, <4>3 DEF NoneRunahead
        <4>5. QED
          BY <2>1, <4>1, <4>4, StaleMarked
      <3>3. QED
        BY <3>1, <3>2
    <2>4. CASE Retires
      <3>1. rob' = Tail(rob) /\ rob # <<>> /\ status = "Running"
        BY <2>4 DEF Retires, RetireSquashed, CommitHead, ReadyHead, AtHead
      <3>2. k + 1 \in DOMAIN rob /\ rob'[k] = rob[k + 1]
        BY <1>1, <3>1, HeadTailProperties, LenProperties
      <3>3. QED
        BY <2>1, <3>1, <3>2, StaleMarked
    <2>5. CASE RobWalk
      <3>1. ~GetInsts /\ ~Retires
        BY <2>5 DEF RobWalk, GetInsts, Retires, RetireSquashed, CommitHead,
           ReadyHead, AtHead
      <3>2. CASE rob[k].squashed
        BY <1>4, <3>1, <3>2
      <3>3. CASE ~rob[k].squashed
        <4>1. k \in DOMAIN rob /\ ToBeMarked(k)
          BY <1>4, <2>2, <3>1, <3>3
        <4>2. squashIt \in Nat \ {0} /\ squashTo \in Int /\ SquashWidth \in Nat
          BY <1>1, <4>1, LenProperties, SizeAssumption
             DEF ToBeMarked, TypeOK, RobType
        <4>3. /\ rob' = MarkSquashed(rob, WalkMarks(rob, squashIt, squashTo, SquashWidth))
              /\ squashIt' = WalkNext(rob, squashIt, squashTo, SquashWidth)
              /\ status' = status /\ squashTo' = squashTo
              /\ youngestSeqNum' = youngestSeqNum
          BY <2>5, <4>1, <4>2 DEF RobWalk, ToBeMarked
        <4>4. rob'[k].squashed \/ (squashIt' \in DOMAIN rob /\ k <= squashIt')
          BY <1>1, <4>1, <4>2, <4>3, WalkCovers DEF ToBeMarked, AgeOrder
        <4>5. QED
          BY <1>4, <3>1, <4>1, <4>3, <4>4 DEF ToBeMarked
      <3>4. QED
        BY <3>2, <3>3
    <2>6. CASE SquashFromTrap \/ SquashFromSquashAfter
      <3>1. ~GetInsts /\ ~Retires /\ status # "ROBSquashing"
        BY <2>6 DEF SquashFromTrap, SquashFromSquashAfter, TrapPaired, GetInsts,
           Retires, RetireSquashed, CommitHead, ReadyHead, AtHead
      <3>2. QED
        BY <1>4, <2>1, <3>1, StaleMarked
    <2>7. CASE AcceptIewSquash
      <3> DEFINE to == IF iewNow.include THEN iewNow.sn - 1 ELSE iewNow.sn
      <3>1. /\ RobSquash(to) /\ youngestSeqNum' = to /\ status' = "ROBSquashing"
            /\ iewNow.sn <= youngestSeqNum /\ phase = "iewsquash"
        BY <2>7 DEF AcceptIewSquash, IewSquashCounts
      <3>2. to \in Int /\ to <= youngestSeqNum /\ youngestSeqNum \in Int
        BY <3>1 DEF TypeOK, IewType, IewMsg, CommitType
      <3>3. ~GetInsts /\ ~Retires
        BY <3>1 DEF GetInsts, Retires, RetireSquashed, CommitHead, ReadyHead, AtHead
      <3> HIDE DEF to
      <3>4. CASE rob[k].squashed
        BY <1>4, <3>3, <3>4
      <3>5. CASE ~rob[k].squashed
        <4>1. k \in DOMAIN rob /\ rob[k].sn > youngestSeqNum
          BY <1>4, <2>2, <3>3, <3>5 DEF ToBeMarked
        <4>2. rob[k].sn > to
          BY <1>2, <3>2, <4>1
        <4>3. QED
          BY <3>1, <3>2, <4>1, <4>2, SquashCovers
      <3>6. QED
        BY <3>4, <3>5
    <2>8. CASE /\ ~GetInsts /\ ~Retires /\ ~RobWalk /\ ~SquashFromTrap
               /\ ~SquashFromSquashAfter /\ ~AcceptIewSquash
      <3>1. CASE rob[k].squashed
        BY <1>4, <2>8, <3>1
      <3>2. CASE ~rob[k].squashed
        <4>1. k \in DOMAIN rob /\ ToBeMarked(k)
          BY <1>4, <2>2, <2>8, <3>2
        <4>2. /\ UNCHANGED <<squashIt, squashTo, youngestSeqNum>>
              /\ status' = "ROBSquashing"
          BY <1>6, <2>8, <4>1, WalkUnchanged DEF ToBeMarked
        <4>3. QED
          BY <1>4, <2>8, <4>1, <4>2 DEF ToBeMarked
      <3>3. QED
        BY <3>1, <3>2
    <2>9. QED
      BY <2>3, <2>4, <2>5, <2>6, <2>7, <2>8
  <1>7. QED
    BY <1>5, <1>6

-----------------------------------------------------------------------------
LEMMA InitModeInv == Init => ModeInv
  <1> SUFFICES ASSUME Init PROVE ModeInv
    OBVIOUS
  <1>1. AgeOrder /\ CauseIsOldest
    BY EmptyBefore DEF Init, AgeOrder, CauseIsOldest, NoCause
  <1>2. CycleOrder /\ AllInRunahead /\ StaleInRob
    <2>1. CycleOrder
      BY DEF Init, CycleOrder, NoSig
    <2>2. AllInRunahead /\ StaleInRob
      BY EmptySeq DEF Init, AllInRunahead, StaleInRob
    <2>3. QED
      BY <2>1, <2>2
  <1>3. StaleInFront
    BY EmptyBefore DEF Init, StaleInFront
  <1>4. ExitInRunahead /\ TrapPaired /\ SquashAfterPaired
    BY DEF Init, ExitInRunahead, TrapPaired, SquashAfterPaired
  <1>5. QED
    BY <1>1, <1>2, <1>3, <1>4 DEF ModeInv

LEMMA ModeInvStep == TypeOK /\ ModeInv /\ [Next]_vars => ModeInv'
  <1> SUFFICES ASSUME TypeOK, ModeInv, [Next]_vars PROVE ModeInv'
    OBVIOUS
  <1>1. TypeOK'
    BY StepType
  <1>2. CASE Next
    BY <1>1, <1>2, AgeOrderStep, CauseIsOldestStep, CycleOrderStep,
       AllInRunaheadStep, StaleInRobStep, StaleInFrontStep, ExitInRunaheadStep,
       TrapPairedStep, SquashAfterStep DEF ModeInv
  <1>3. CASE UNCHANGED vars
    BY <1>3 DEF ModeInv, AgeOrder, CauseIsOldest, CycleOrder, AllInRunahead,
       StaleInRob, ToBeMarked, StaleInFront, ExitInRunahead, TrapPaired,
       SquashAfterPaired, vars, frontVars, renameVars, robVars, commitVars,
       trapVars, modeVars, exitVars
  <1>4. QED
    BY <1>2, <1>3

\* Instructions of the two modes never mix: the squash of an exit reaches every
\* runahead instruction, however slow the walk of the ROB and whatever other
\* squash cuts in (commit.cc:834-880, rob.cc:538-620, fetch.cc:877-888).
THEOREM ModeInvariance == Spec => []ModeInv
  <1>1. QED
    BY InitModeInv, ModeInvStep, TypeInvariant, PTL DEF Spec

\* The commit loop never sees a live instruction of the other mode.
THEOREM ModeAgreementInvariant == Spec => []ModeAgreement
  <1>1. TypeOK /\ ModeInv => ModeAgreement
    <2> SUFFICES ASSUME TypeOK, ModeInv, status = "Running",
                        NEW k \in DOMAIN rob, ~rob[k].squashed
                 PROVE  rob[k].runahead = inRunahead
      BY DEF ModeAgreement
    <2>1. rob[k].runahead \in BOOLEAN /\ inRunahead \in BOOLEAN
      BY SeqTypes, InstFields DEF TypeOK, RobType, ModeType
    <2>2. CASE inRunahead
      BY <2>1, <2>2 DEF ModeInv, AllInRunahead, AllRunahead
    <2>3. CASE ~inRunahead
      <3>1. ~rob[k].runahead
        BY <2>3, StaleMarked DEF ModeInv
      <3>2. QED
        BY <2>1, <2>3, <3>1
    <2>4. QED
      BY <2>2, <2>3
  <1>2. QED
    BY <1>1, ModeInvariance, TypeInvariant, PTL

\* An exit from runahead loses no trap: none is pending in runahead.
THEOREM NoTrapInRunaheadInvariant == Spec => []NoTrapInRunahead
  <1>1. TypeOK /\ ModeInv => NoTrapInRunahead
    BY DEF ModeInv, TrapPaired, NoTrapInRunahead, TypeOK, TrapType
  <1>2. QED
    BY <1>1, ModeInvariance, TypeInvariant, PTL

\* Commit never waits for a trap squash that does not come.
THEOREM TrapWillSquashInvariant == Spec => []TrapWillSquash
  <1>1. ModeInv => TrapWillSquash
    BY DEF ModeInv, TrapPaired, TrapWillSquash
  <1>2. QED
    BY <1>1, ModeInvariance, PTL

\* The assertion of Commit::squashAfter (commit.cc:829) holds, and no squash
\* that cuts in leaves squashAfterInst behind.
THEOREM SquashAfterPairedInvariant == Spec => []SquashAfterPaired
  <1>1. ModeInv => SquashAfterPaired
    BY DEF ModeInv
  <1>2. QED
    BY <1>1, ModeInvariance, PTL

-----------------------------------------------------------------------------
(* Age.                                                                    *)

\* A step brings nothing older into the pipeline than what is there, and what
\* is fetched next.
LEMMA FloorKept ==
  ASSUME TypeOK, TypeOK', AgeOrder, Next, NEW sn \in Int, sn <= nextSn,
         NotOlder(rob, sn), NotOlder(renameNow, sn), NotOlder(renameNext, sn),
         NotOlder(fetchQueue, sn)
  PROVE  /\ sn <= nextSn'
         /\ NotOlder(rob', sn) /\ NotOlder(renameNow', sn) /\ NotOlder(renameNext', sn)
         /\ NotOlder(fetchQueue', sn)
  <1>1. /\ rob \in Seq(Inst) /\ rob' \in Seq(Inst)
        /\ renameNow \in Seq(Inst) /\ renameNow' \in Seq(Inst)
        /\ renameNext \in Seq(Inst) /\ renameNext' \in Seq(Inst)
        /\ fetchQueue \in Seq(Inst) /\ fetchQueue' \in Seq(Inst) /\ nextSn \in Nat
    BY DEF TypeOK, RobType, RenameType, FrontType
  <1>2. CASE EnterRunahead
    BY <1>2, EnterChange DEF EnterRunahead, NotOlder
  <1>3. CASE ~EnterRunahead
    <2>1. NotOlder(rob', sn)
      <3>1. CASE GetInsts
        BY <1>1, <3>1, ConcatOrder DEF GetInsts, AgeOrder
      <3>2. CASE ~GetInsts
        BY <1>1, <1>3, <3>2, RobPiece, PieceOrder
      <3>3. QED
        BY <3>1, <3>2
    <2>2. CASE FrontEndAdvance
      <3>1. PICK rest \in Seq(Inst) :
              /\ Piece(fetchQueue, rest)
              /\ \/ fetchQueue' = rest /\ nextSn' = nextSn
                 \/ \E i \in Inst :
                      /\ i.sn = nextSn
                      /\ fetchQueue' = Append(rest, i) /\ nextSn' = nextSn + 1
        BY <2>2, AdvanceCases
      <3>2. Piece(fetchQueue, renameNext') /\ renameNow' = renameNow
        BY <2>2, AdvanceCases
      <3>3. /\ NotOlder(renameNext', sn) /\ NotOlder(rest, sn)
            /\ NumberedBelow(rest, nextSn)
        BY <1>1, <3>1, <3>2, PieceOrder DEF AgeOrder
      <3>4. NotOlder(fetchQueue', sn)
        <4>1. ASSUME NEW i \in Inst, i.sn = nextSn, fetchQueue' = Append(rest, i)
              PROVE  NotOlder(fetchQueue', sn)
          BY <3>3, <4>1, AppendOrder
        <4>2. QED
          BY <3>1, <3>3, <4>1
      <3>5. sn <= nextSn'
        BY <1>1, <3>1
      <3>6. QED
        BY <2>1, <3>2, <3>3, <3>4, <3>5
    <2>3. CASE UpdateRunaheadState
      BY <2>1, <2>3, EmptyBefore DEF UpdateRunaheadState, frontVars
    <2>4. CASE ~FrontEndAdvance /\ ~UpdateRunaheadState
      BY <1>1, <1>3, <2>1, <2>4, FrontChange, PieceOrder
    <2>5. QED
      BY <2>2, <2>3, <2>4
  <1>4. QED
    BY <1>2, <1>3

LEMMA CommittedChange ==
  ASSUME Next, ~CommitHead
  PROVE  lastCommitedSeqNum' = lastCommitedSeqNum
  <1>1. CASE Event
    BY <1>1 DEF Event, LLLReturn, MemResponse, ForgedResponse, InFlightTooLong,
       DeadlineEvent, ProcessTrapEvent, commitVars
  <1>2. CASE \/ StartTick \/ FrontEndSquash \/ FrontEndAdvance \/ FrontEndDiscard
             \/ IewExecute \/ IewDone \/ RobWalk
    BY <1>2 DEF StartTick, FrontEndSquash, FrontEndAdvance, FrontEndDiscard,
       IewExecute, IewDone, RobWalk, commitVars
  <1>3. CASE \/ SquashFromTrap \/ SquashFromSquashAfter \/ SquashFromRunaheadExit
             \/ SelectNothing \/ AcceptIewSquash \/ IgnoreIewSquash \/ GetInsts
    BY <1>3 DEF SquashFromTrap, SquashFromSquashAfter, SquashFromRunaheadExit,
       SelectNothing, AcceptIewSquash, IgnoreIewSquash, GetInsts, commitVars
  <1>4. CASE \/ RetireSquashed \/ TrapHead \/ IgnoreRunaheadFault \/ EnterRunahead
             \/ PoisonRunaheadLLL \/ StopCommit \/ UpdateRunaheadState
    BY <1>4 DEF RetireSquashed, TrapHead, IgnoreRunaheadFault, EnterRunahead,
       PoisonRunaheadLLL, StopCommit, UpdateRunaheadState, commitVars
  <1>5. QED
    BY <1>1, <1>2, <1>3, <1>4 DEF Next, Tick

LEMMA CommittedIsOldestStep ==
  ASSUME TypeOK, TypeOK', AgeOrder, CommittedIsOldest, Next
  PROVE  CommittedIsOldest'
  <1>1. /\ rob \in Seq(Inst) /\ renameNow \in Seq(Inst) /\ renameNext \in Seq(Inst)
        /\ fetchQueue \in Seq(Inst) /\ nextSn \in Nat /\ nextSn' \in Nat
        /\ lastCommitedSeqNum \in Nat
    BY DEF TypeOK, RobType, RenameType, FrontType, CommitType
  <1>2. CASE ~CommitHead
    <2>1. lastCommitedSeqNum + 1 \in Int /\ lastCommitedSeqNum + 1 <= nextSn
      BY <1>1 DEF CommittedIsOldest
    <2>2. /\ lastCommitedSeqNum + 1 <= nextSn'
          /\ NotOlder(rob', lastCommitedSeqNum + 1)
          /\ NotOlder(renameNow', lastCommitedSeqNum + 1)
          /\ NotOlder(renameNext', lastCommitedSeqNum + 1)
          /\ NotOlder(fetchQueue', lastCommitedSeqNum + 1)
      BY <2>1, FloorKept DEF CommittedIsOldest
    <2>3. lastCommitedSeqNum' = lastCommitedSeqNum
      BY <1>2, CommittedChange
    <2>4. QED
      BY <1>1, <2>2, <2>3 DEF CommittedIsOldest
  <1>3. CASE CommitHead
    <2>1. /\ rob # <<>> /\ rob' = Tail(rob) /\ lastCommitedSeqNum' = rob[1].sn
          /\ UNCHANGED <<fetchQueue, nextSn, renameNext, renameNow>>
      BY <1>3 DEF CommitHead, ReadyHead, AtHead, Head0, frontVars, renameVars
    <2>2. 1 \in DOMAIN rob /\ rob[1].sn \in Nat /\ rob[1].sn < nextSn
      BY <1>1, <2>1, HeadType, InstFields DEF Head0, AgeOrder, NumberedBelow
    <2>3. \A k \in DOMAIN rob' :
            k + 1 \in DOMAIN rob /\ 1 < k + 1 /\ rob'[k] = rob[k + 1] /\ rob[k + 1].sn \in Nat
      BY <1>1, <2>1, HeadTailProperties, LenProperties, SeqTypes, InstFields
    <2>4. NotOlder(rob', rob[1].sn + 1)
      BY <2>2, <2>3 DEF NotOlder, AgeOrder, Sorted
    <2>5. /\ NotOlder(renameNow, rob[1].sn + 1) /\ NotOlder(renameNext, rob[1].sn + 1)
          /\ NotOlder(fetchQueue, rob[1].sn + 1)
      <3>1. /\ \A k \in DOMAIN renameNow : renameNow[k].sn \in Nat
            /\ \A k \in DOMAIN renameNext : renameNext[k].sn \in Nat
            /\ \A k \in DOMAIN fetchQueue : fetchQueue[k].sn \in Nat
        BY <1>1, SeqTypes, InstFields
      <3>2. QED
        BY <2>2, <3>1 DEF AgeOrder, Before, NotOlder
    <2>6. QED
      BY <2>1, <2>2, <2>4, <2>5 DEF CommittedIsOldest
  <1>4. QED
    BY <1>2, <1>3

-----------------------------------------------------------------------------
(* The walk.                                                               *)

\* SquashCovers for a squash that is known to start further down.
LEMMA SquashCoversFrom ==
  ASSUME TypeOK, AgeOrder, NEW to \in Int, RobSquash(to),
         status' = "ROBSquashing", youngestSeqNum' \in Int, youngestSeqNum' <= to,
         NEW k \in DOMAIN rob, rob[k].sn > to
  PROVE  rob'[k].squashed \/ ToBeMarked(k)'
  <1>1. rob \in Seq(Inst) /\ SquashWidth \in Nat /\ rob # <<>>
    BY SizeAssumption, EmptySeq DEF TypeOK, RobType
  <1>2. Len(rob) \in DOMAIN rob /\ k <= Len(rob)
    BY <1>1, SeqTypes
  <1>3. /\ rob' = MarkSquashed(rob, WalkMarks(rob, Len(rob), to, SquashWidth))
        /\ squashIt' = WalkNext(rob, Len(rob), to, SquashWidth)
        /\ squashTo' = to
    BY <1>1 DEF RobSquash
  <1>4. rob'[k].squashed \/ (squashIt' \in DOMAIN rob /\ k <= squashIt')
    BY <1>1, <1>2, <1>3, WalkCovers DEF AgeOrder
  <1>5. DOMAIN rob' = DOMAIN rob /\ rob'[k].sn = rob[k].sn
    BY <1>1, <1>3, MarkUpdated DEF Updated
  <1>6. rob[k].sn \in Nat
    BY <1>1, SeqTypes, InstFields
  <1>7. QED
    BY <1>3, <1>4, <1>5, <1>6 DEF ToBeMarked

\* What every squash of commit does: all that is younger than what it notes in
\* youngestSeqNum is younger than where its walk ends.
SquashesTo(to) ==
  /\ to \in Int /\ RobSquash(to) /\ status' = "ROBSquashing"
  /\ youngestSeqNum' \in Int
  /\ rob # <<>> => youngestSeqNum' <= to
  /\ \A k \in DOMAIN rob : rob[k].sn > youngestSeqNum' => rob[k].sn > to

LEMMA SquashAllTo ==
  ASSUME TypeOK, AgeOrder, CommittedIsOldest, SquashAll
  PROVE  \E to \in Int : SquashesTo(to)
  <1> DEFINE to == IF rob = <<>> THEN lastCommitedSeqNum ELSE Head0.sn - 1
  <1>1. /\ RobSquash(to) /\ status' = "ROBSquashing"
        /\ youngestSeqNum' = lastCommitedSeqNum /\ lastCommitedSeqNum \in Nat
    BY DEF SquashAll, TypeOK, CommitType
  <1>2. CASE rob = <<>>
    BY <1>1, <1>2, EmptySeq DEF SquashesTo
  <1>3. CASE rob # <<>>
    <2>1. 1 \in DOMAIN rob /\ Head0.sn \in Nat
      BY <1>3, HeadType, InstFields
    <2>2. lastCommitedSeqNum + 1 <= Head0.sn
      BY <2>1 DEF CommittedIsOldest, NotOlder, Head0
    <2>3. to = Head0.sn - 1 /\ to \in Int /\ lastCommitedSeqNum <= to
      BY <1>1, <1>3, <2>1, <2>2
    <2>4. ASSUME NEW k \in DOMAIN rob
          PROVE  rob[k].sn > to
      <3>1. rob[k].sn \in Nat /\ k \in Nat /\ k >= 1
        BY SeqTypes, InstFields DEF TypeOK, RobType
      <3>2. k # 1 => Head0.sn < rob[k].sn
        BY <2>1, <3>1 DEF AgeOrder, Sorted, Head0
      <3> HIDE DEF to
      <3>3. QED
        BY <2>1, <2>3, <3>1, <3>2 DEF Head0
    <2> HIDE DEF to
    <2>5. QED
      BY <1>1, <2>3, <2>4 DEF SquashesTo
  <1>4. QED
    BY <1>2, <1>3

LEMMA AcceptIewSquashTo ==
  ASSUME TypeOK, AcceptIewSquash
  PROVE  \E to \in Int : SquashesTo(to) /\ youngestSeqNum' = to
  <1> DEFINE to == IF iewNow.include THEN iewNow.sn - 1 ELSE iewNow.sn
  <1>1. RobSquash(to) /\ status' = "ROBSquashing" /\ youngestSeqNum' = to
    BY DEF AcceptIewSquash
  <1>2. to \in Int
    BY DEF TypeOK, IewType, IewMsg
  <1> HIDE DEF to
  <1>3. QED
    BY <1>1, <1>2 DEF SquashesTo

LEMMA ExitSquashTo ==
  ASSUME TypeOK, SquashFromRunaheadExit
  PROVE  /\ exitCause.sn - 1 \in Int /\ SquashesTo(exitCause.sn - 1)
         /\ youngestSeqNum' = exitCause.sn - 1
  <1> DEFINE to == exitCause.sn - 1
  <1>1. RobSquash(to) /\ status' = "ROBSquashing" /\ youngestSeqNum' = to
    BY DEF SquashFromRunaheadExit
  <1>2. to \in Int
    BY DEF TypeOK, ExitType, Cause
  <1> HIDE DEF to
  <1>3. SquashesTo(to) /\ youngestSeqNum' = to /\ to \in Int
    BY <1>1, <1>2 DEF SquashesTo
  <1>4. QED
    BY <1>3 DEF to

\* A squash starts in one of these steps, the walk goes on in RobWalk.
SquashStep ==
  \/ SquashFromTrap
  \/ SquashFromSquashAfter /\ ~SquashAfterIsStale
  \/ SquashFromRunaheadExit
  \/ AcceptIewSquash

LEMMA SquashStepTo ==
  ASSUME TypeOK, AgeOrder, CommittedIsOldest, SquashStep
  PROVE  \E to \in Int : SquashesTo(to)
  BY SquashAllTo, AcceptIewSquashTo, ExitSquashTo
     DEF SquashStep, SquashFromTrap, SquashFromSquashAfter

LEMMA SquashingStays ==
  ASSUME TypeOK, Next, ~RobWalk, ~SquashStep, status' = "ROBSquashing"
  PROVE  /\ status = "ROBSquashing" /\ ~Retires /\ ~EnterRunahead
         /\ UNCHANGED <<squashIt, squashTo, youngestSeqNum>>
         /\ GetInsts => rob' = rob
  <1>1. CASE Event
    BY <1>1 DEF Event, LLLReturn, MemResponse, ForgedResponse, InFlightTooLong,
       DeadlineEvent, ProcessTrapEvent, robVars, commitVars, Retires, RetireSquashed,
       CommitHead, EnterRunahead, LLLAtHead, ReadyHead, AtHead, GetInsts
  <1>2. CASE \/ StartTick \/ FrontEndSquash \/ FrontEndAdvance \/ FrontEndDiscard
             \/ IewExecute \/ IewDone
    BY <1>2 DEF StartTick, FrontEndSquash, FrontEndAdvance, FrontEndDiscard,
       IewExecute, IewDone, robVars, commitVars, Retires, RetireSquashed,
       CommitHead, EnterRunahead, LLLAtHead, ReadyHead, AtHead, GetInsts
  <1>3. CASE SelectNothing \/ IgnoreIewSquash \/ UpdateRunaheadState
    BY <1>3 DEF SelectNothing, IgnoreIewSquash, UpdateRunaheadState, robVars,
       commitVars, Retires, RetireSquashed, CommitHead, EnterRunahead, LLLAtHead,
       ReadyHead, AtHead, GetInsts
  <1>4. CASE SquashFromSquashAfter
    BY <1>4 DEF SquashFromSquashAfter, SquashStep
  <1>5. CASE \/ RetireSquashed \/ CommitHead \/ TrapHead \/ IgnoreRunaheadFault
             \/ EnterRunahead \/ PoisonRunaheadLLL
    BY <1>5 DEF RetireSquashed, CommitHead, TrapHead, IgnoreRunaheadFault,
       EnterRunahead, PoisonRunaheadLLL, LLLAtHead, ReadyHead, AtHead, commitVars
  <1>6. CASE StopCommit \/ GetInsts
    BY <1>6 DEF StopCommit, GetInsts, robVars, commitVars, Retires, RetireSquashed,
       CommitHead, EnterRunahead, LLLAtHead, ReadyHead, AtHead
  <1>7. QED
    BY <1>1, <1>2, <1>3, <1>4, <1>5, <1>6 DEF Next, Tick, SquashStep

LEMMA WalkReachesStep ==
  ASSUME TypeOK, TypeOK', AgeOrder, CommittedIsOldest, WalkReaches, Next
  PROVE  WalkReaches'
  <1> SUFFICES ASSUME status' = "ROBSquashing"
               PROVE  /\ \A k \in DOMAIN rob' : rob'[k].sn > youngestSeqNum' =>
                                    rob'[k].squashed \/ ToBeMarked(k)'
                      /\ rob' # <<>> => youngestSeqNum' <= squashTo'
    BY DEF WalkReaches
  <1>1. /\ rob \in Seq(Inst) /\ youngestSeqNum \in Int /\ youngestSeqNum' \in Int
        /\ \A k \in DOMAIN rob : rob[k] \in Inst /\ rob[k].sn \in Nat
    BY SeqTypes, InstFields DEF TypeOK, RobType, CommitType
  <1>2. CASE SquashStep
    <2>1. PICK to \in Int : SquashesTo(to)
      BY <1>2, SquashStepTo
    <2>2. Updated(rob, rob')
      BY <1>1, <2>1, RobSquashUpdated DEF SquashesTo
    <2>3. CASE rob = <<>>
      <3>1. rob' = <<>>
        BY <2>1, <2>3 DEF SquashesTo, RobSquash, robVars
      <3>2. QED
        BY <3>1, EmptySeq
    <2>4. CASE rob # <<>>
      <3>1. squashTo' = to /\ youngestSeqNum' <= to
        BY <2>1, <2>4 DEF SquashesTo, RobSquash
      <3>2. ASSUME NEW k \in DOMAIN rob', rob'[k].sn > youngestSeqNum'
            PROVE  rob'[k].squashed \/ ToBeMarked(k)'
        <4>1. k \in DOMAIN rob /\ rob[k].sn > to
          BY <2>1, <2>2, <3>2 DEF Updated, SquashesTo
        <4>2. QED
          BY <1>1, <2>1, <3>1, <4>1, SquashCoversFrom DEF SquashesTo
      <3>3. QED
        BY <3>1, <3>2
    <2>5. QED
      BY <2>3, <2>4
  <1>3. CASE RobWalk
    <2>1. /\ status = "ROBSquashing" /\ squashIt # 0 /\ squashTo' = squashTo
          /\ rob' = MarkSquashed(rob, WalkMarks(rob, squashIt, squashTo, SquashWidth))
          /\ squashIt' = WalkNext(rob, squashIt, squashTo, SquashWidth)
          /\ youngestSeqNum' = youngestSeqNum
      BY <1>3 DEF RobWalk
    <2>2. Updated(rob, rob')
      BY <1>1, <2>1, MarkUpdated
    <2>3. ASSUME NEW k \in DOMAIN rob', rob'[k].sn > youngestSeqNum'
          PROVE  rob'[k].squashed \/ ToBeMarked(k)'
      <3>1. k \in DOMAIN rob /\ DOMAIN rob' = DOMAIN rob /\ rob'[k].sn = rob[k].sn
        BY <2>2, <2>3 DEF Updated
      <3>2. CASE rob[k].squashed
        BY <2>2, <3>1, <3>2 DEF Updated
      <3>3. CASE ToBeMarked(k)
        <4>1. squashTo \in Int /\ SquashWidth \in Nat
          BY SizeAssumption DEF TypeOK, RobType
        <4>2. rob'[k].squashed \/ (squashIt' \in DOMAIN rob /\ k <= squashIt')
          BY <1>1, <2>1, <3>1, <3>3, <4>1, WalkCovers DEF ToBeMarked, AgeOrder
        <4>3. QED
          BY <2>1, <3>1, <3>3, <4>2 DEF ToBeMarked
      <3>4. QED
        BY <2>1, <2>3, <3>1, <3>2, <3>3 DEF WalkReaches
    <2>4. rob' # <<>> => youngestSeqNum' <= squashTo'
      <3>1. rob = <<>> => rob' = <<>>
        BY <2>1, <2>2, EmptySeq DEF Updated, MarkSquashed
      <3>2. QED
        BY <2>1, <3>1 DEF WalkReaches
    <2>5. QED
      BY <2>3, <2>4
  <1>4. CASE ~SquashStep /\ ~RobWalk
    <2>1. /\ status = "ROBSquashing" /\ ~Retires /\ ~EnterRunahead
          /\ UNCHANGED <<squashIt, squashTo, youngestSeqNum>>
          /\ GetInsts => rob' = rob
      BY <1>4, SquashingStays
    <2>2. Updated(rob, rob')
      BY <1>1, <2>1, RobChange DEF Updated
    <2>3. rob' \in Seq(Inst)
      BY DEF TypeOK, RobType
    <2>4. rob' # <<>> => rob # <<>>
      BY <1>1, <2>2, <2>3, EmptySeq, LenProperties DEF Updated
    <2>5. ASSUME NEW k \in DOMAIN rob', rob'[k].sn > youngestSeqNum'
          PROVE  rob'[k].squashed \/ ToBeMarked(k)'
      <3>1. /\ k \in DOMAIN rob /\ DOMAIN rob' = DOMAIN rob /\ rob'[k].sn = rob[k].sn
            /\ rob[k].squashed => rob'[k].squashed
        BY <2>2, <2>5 DEF Updated
      <3>2. rob[k].squashed \/ ToBeMarked(k)
        BY <2>1, <2>5, <3>1 DEF WalkReaches
      <3>3. QED
        BY <2>1, <3>1, <3>2 DEF ToBeMarked
    <2>6. QED
      BY <2>1, <2>4, <2>5 DEF WalkReaches
  <1>5. QED
    BY <1>2, <1>3, <1>4

-----------------------------------------------------------------------------
(* The restore.                                                            *)

LEMMA RestoreFlags ==
  ASSUME Next, ~SquashFromRunaheadExit, ~UpdateRunaheadState
  PROVE  archRestoreNext' = archRestoreNext /\ archRestoreNow' = archRestoreNow
  <1>1. CASE Event
    BY <1>1 DEF Event, LLLReturn, MemResponse, ForgedResponse, InFlightTooLong,
       DeadlineEvent, ProcessTrapEvent, archVars
  <1>2. CASE \/ StartTick \/ FrontEndSquash \/ FrontEndAdvance \/ FrontEndDiscard
             \/ IewExecute \/ IewDone \/ RobWalk
    BY <1>2 DEF StartTick, FrontEndSquash, FrontEndAdvance, FrontEndDiscard,
       IewExecute, IewDone, RobWalk, archVars
  <1>3. CASE \/ SquashFromTrap \/ SquashFromSquashAfter
             \/ SelectNothing \/ AcceptIewSquash \/ IgnoreIewSquash \/ GetInsts
    BY <1>3 DEF SquashFromTrap, SquashFromSquashAfter, SelectNothing,
       AcceptIewSquash, IgnoreIewSquash, GetInsts, archVars
  <1>4. CASE \/ RetireSquashed \/ CommitHead \/ TrapHead \/ IgnoreRunaheadFault
             \/ EnterRunahead \/ PoisonRunaheadLLL \/ StopCommit
    BY <1>4 DEF RetireSquashed, CommitHead, TrapHead, IgnoreRunaheadFault,
       EnterRunahead, PoisonRunaheadLLL, StopCommit, archVars
  <1>5. QED
    BY <1>1, <1>2, <1>3, <1>4 DEF Next, Tick

\* No period starts while a restore is pending: its load would be one of the
\* period before, and those are marked by the time commit runs again.
LEMMA NoEntryInRestore ==
  ASSUME TypeOK, AllInRunahead, StaleInRob, AllRunahead(rob), ~inRunahead
  PROVE  ~EnterRunahead
  <1> SUFFICES ASSUME EnterRunahead
               PROVE  FALSE
    OBVIOUS
  <1>1. AtHead /\ ~IsReady(Head0)
    BY DEF EnterRunahead, LLLAtHead
  <1>2. 1 \in DOMAIN rob /\ ~Head0.squashed
    BY <1>1, HeadType DEF AtHead, IsReady
  <1>3. Head0.runahead
    BY <1>2 DEF AllRunahead, Head0
  <1>4. QED
    BY <1>1, <1>2, <1>3, HeadMode

\* The control part of Restoring, when neither of the flags changes.
LEMMA RestorePhases ==
  ASSUME TypeOK, CycleOrder, Restoring, Next, ~EnterRunahead,
         ~SquashFromRunaheadExit, ~UpdateRunaheadState
  PROVE  /\ archRestoreNext => sig'.squash /\ phase' \in {"iewsquash", "get", "update"}
         /\ archRestoreNow => IF phase' \in {"events", "fetch"}
                              THEN sig'.squash
                              ELSE renameNow' = <<>> /\ renameNext' = <<>>
  <1> USE DEF Restoring
  <1>1. CASE Event
    BY <1>1 DEF Event, LLLReturn, MemResponse, ForgedResponse, InFlightTooLong,
       DeadlineEvent, ProcessTrapEvent, renameVars
  <1>2. CASE StartTick \/ FrontEndSquash \/ FrontEndAdvance \/ FrontEndDiscard
    BY <1>2 DEF StartTick, FrontEndSquash, FrontEndAdvance, FrontEndDiscard,
       renameVars, CycleOrder
  <1>3. CASE IewExecute \/ IewDone \/ RobWalk \/ SelectNothing \/ IgnoreIewSquash
    BY <1>3 DEF IewExecute, IewDone, RobWalk, SelectNothing, IgnoreIewSquash, renameVars
  <1>4. CASE SquashFromTrap \/ SquashFromSquashAfter \/ AcceptIewSquash
    BY <1>4 DEF SquashFromTrap, SquashFromSquashAfter, AcceptIewSquash, SquashAll,
       SignalSquash, renameVars
  <1>5. CASE GetInsts
    BY <1>5 DEF GetInsts, CycleOrder
  <1>6. CASE RetireSquashed \/ CommitHead \/ TrapHead \/ IgnoreRunaheadFault
    BY <1>6 DEF RetireSquashed, CommitHead, TrapHead, IgnoreRunaheadFault, ReadyHead,
       AtHead, renameVars
  <1>7. CASE PoisonRunaheadLLL \/ StopCommit
    BY <1>7 DEF PoisonRunaheadLLL, StopCommit, LLLAtHead, AtHead, renameVars
  <1>8. QED
    BY <1>1, <1>2, <1>3, <1>4, <1>5, <1>6, <1>7 DEF Next, Tick

LEMMA RestoringStep ==
  ASSUME TypeOK, TypeOK', AgeOrder, CycleOrder, AllInRunahead, StaleInRob,
         ExitInRunahead, Restoring, Next
  PROVE  Restoring'
  <1>1. /\ rob \in Seq(Inst) /\ rob' \in Seq(Inst)
        /\ renameNow \in Seq(Inst) /\ renameNow' \in Seq(Inst)
        /\ renameNext \in Seq(Inst) /\ renameNext' \in Seq(Inst)
        /\ archRestoreNext \in BOOLEAN /\ archRestoreNow \in BOOLEAN
    BY DEF TypeOK, RobType, RenameType, ArchType
  <1>2. CASE SquashFromRunaheadExit
    <2>1. inRunahead /\ ~archRestoreNow
      BY <1>2 DEF SquashFromRunaheadExit, ExitInRunahead, Restoring, RestorePending
    <2>2. /\ phase' = "iewsquash" /\ sig'.squash /\ archRestoreNow' = archRestoreNow
          /\ ~inRunahead' /\ renameNow' = renameNow /\ renameNext' = renameNext
      BY <1>2 DEF SquashFromRunaheadExit, SignalSquash, renameVars
    <2>3. Piece(rob, rob')
      BY <1>2, RobPiece DEF SquashFromRunaheadExit, GetInsts, EnterRunahead, LLLAtHead,
         AtHead
    <2>4. AllRunahead(rob')
      BY <1>1, <2>1, <2>3, PieceOrder DEF AllInRunahead
    <2>5. QED
      BY <2>1, <2>2, <2>4 DEF Restoring, RestorePending, AllInRunahead
  <1>3. CASE ~SquashFromRunaheadExit
    <2>1. CASE UpdateRunaheadState
      <3>1. /\ phase' = "events" /\ sig' = sig /\ inRunahead' = inRunahead
            /\ renameNow' = renameNext /\ renameNext' = <<>>
            /\ archRestoreNow' = archRestoreNext /\ archRestoreNext' = FALSE
        BY <2>1 DEF UpdateRunaheadState, RestoreWire
      <3>2. Piece(rob, rob')
        BY <2>1, RobPiece DEF UpdateRunaheadState, GetInsts, EnterRunahead, LLLAtHead,
           AtHead
      <3>3. AllRunahead(rob) => AllRunahead(rob')
        BY <1>1, <3>2, PieceOrder
      <3>4. QED
        BY <3>1, <3>3, EmptyBefore DEF Restoring, RestorePending
    <2>2. CASE ~UpdateRunaheadState /\ ~RestorePending
      BY <1>3, <2>2, RestoreFlags DEF Restoring, RestorePending
    <2>3. CASE ~UpdateRunaheadState /\ RestorePending
      <3>1. /\ archRestoreNext' = archRestoreNext /\ archRestoreNow' = archRestoreNow
        BY <1>3, <2>3, RestoreFlags
      <3>2. /\ ~inRunahead /\ AllRunahead(rob) /\ AllRunahead(renameNow)
            /\ AllRunahead(renameNext)
        BY <2>3 DEF Restoring
      <3>3. ~EnterRunahead
        BY <3>2, NoEntryInRestore
      <3>4. ~inRunahead'
        BY <1>3, <3>2, <3>3, ModeChange
      <3>5. AllRunahead(rob')
        <4>1. CASE GetInsts
          BY <1>1, <3>2, <4>1, ConcatOrder DEF GetInsts, AgeOrder
        <4>2. CASE ~GetInsts
          BY <1>1, <3>2, <3>3, <4>2, RobPiece, PieceOrder
        <4>3. QED
          BY <4>1, <4>2
      <3>6. AllRunahead(renameNow') /\ AllRunahead(renameNext')
        <4>1. CASE FrontEndAdvance
          <5>1. phase = "fetch" /\ ~sig.squash
            BY <4>1 DEF FrontEndAdvance
          <5>2. QED
            BY <2>3, <5>1 DEF Restoring, RestorePending
        <4>2. CASE ~FrontEndAdvance
          BY <1>1, <2>3, <3>2, <3>3, <4>2, FrontChange, PieceOrder
        <4>3. QED
          BY <4>1, <4>2
      <3>7. QED
        BY <1>3, <2>3, <3>1, <3>2, <3>3, <3>4, <3>5, <3>6, RestorePhases
           DEF Restoring, RestorePending
    <2>4. QED
      BY <2>1, <2>2, <2>3
  <1>4. QED
    BY <1>2, <1>3

-----------------------------------------------------------------------------
(* Redirects.                                                              *)

\* Once issued, an instruction is marked by commit only, and what has executed
\* is completed at the end of a cycle only.
StaysIssued ==
  \A k \in DOMAIN rob : rob[k].state # "waiting" =>
    /\ k \in DOMAIN rob' /\ rob'[k].state # "waiting"
    /\ rob'[k].squashed = rob[k].squashed

StaysExecuted ==
  \A k \in DOMAIN rob : rob[k].state = "executed" => rob'[k].state = "executed"

LEMMA SameStays ==
  ASSUME rob' = rob
  PROVE  StaysIssued /\ StaysExecuted
  BY DEF StaysIssued, StaysExecuted

LEMMA ReplaceStays ==
  ASSUME TypeOK, NEW k \in DOMAIN rob, NEW i \in Inst, rob' = [rob EXCEPT ![k] = i],
         \/ rob[k].state = "waiting"
         \/ /\ i.squashed = rob[k].squashed /\ i.state # "waiting"
            /\ rob[k].state = "executed" => i.state = "executed"
  PROVE  StaysIssued /\ StaysExecuted
  BY DEF StaysIssued, StaysExecuted, TypeOK, RobType

LEMMA PoisonStays ==
  ASSUME TypeOK, rob # <<>>, rob' = [rob EXCEPT ![1].poisoned = TRUE]
  PROVE  StaysIssued /\ StaysExecuted
  <1>1. 1 \in DOMAIN rob /\ rob[1] \in Inst
    BY HeadType DEF Head0
  <1>2. QED
    BY <1>1 DEF StaysIssued, StaysExecuted, Inst

LEMMA WriteBackStays ==
  ASSUME TypeOK, NEW K, WriteBackLoads(K)
  PROVE  StaysIssued /\ StaysExecuted
  <1>1. \A k \in DOMAIN rob : rob[k] \in Inst
    BY SeqTypes DEF TypeOK, RobType
  <1>2. QED
    BY <1>1 DEF WriteBackLoads, StaysIssued, StaysExecuted, Inst

LEMMA EventStays ==
  ASSUME TypeOK, Event
  PROVE  StaysIssued /\ StaysExecuted
  <1>1. CASE InFlightTooLong
    <2>1. 1 \in DOMAIN rob /\ rob[1] \in Inst /\ rob[1].state = "sent"
      BY <1>1, HeadType DEF Head0, InFlightTooLong
    <2>2. rob' = [rob EXCEPT ![1].state = "old"]
      BY <1>1 DEF InFlightTooLong
    <2>3. QED
      BY <2>1, <2>2 DEF StaysIssued, StaysExecuted, Inst
  <1>2. CASE ~InFlightTooLong
    BY <1>2, WriteBackStays, SameStays DEF Event, LLLReturn, MemResponse,
       ForgedResponse, DeadlineEvent, ProcessTrapEvent, robVars
  <1>3. QED
    BY <1>1, <1>2

\* Of what IEW does with an instruction, all starts from one not issued.
LEMMA IewStepStays ==
  ASSUME TypeOK, NEW k \in DOMAIN rob, IewStep(k)
  PROVE  StaysIssued /\ StaysExecuted
  <1>1. rob[k].state = "waiting"
    BY DEF IewStep, SkipSquashed, ExecutePoisoned, ExecuteShort, SendLoad,
       ExecuteBranch, ExecuteStore, Issued
  <1>2. DOMAIN rob' = DOMAIN rob /\ \A j \in DOMAIN rob : j # k => rob'[j] = rob[j]
    BY DEF IewStep, SkipSquashed, ExecutePoisoned, ExecuteShort, SendLoad,
       ExecuteBranch, ExecuteStore, Complete
  <1>3. QED
    BY <1>1, <1>2 DEF StaysIssued, StaysExecuted

LEMMA EnterStays ==
  ASSUME TypeOK, EnterRunahead
  PROVE  StaysIssued /\ StaysExecuted
  <1> DEFINE r == SetRunahead(rob)
  <1>1. \A k \in DOMAIN rob : rob[k] \in Inst
    BY SeqTypes DEF TypeOK, RobType
  <1>2. /\ DOMAIN r = DOMAIN rob
        /\ \A k \in DOMAIN rob : /\ r[k].state = rob[k].state
                                 /\ r[k].squashed = rob[k].squashed
    BY <1>1 DEF SetRunahead, Inst
  <1>3. rob' = [r EXCEPT ![1].poisoned = TRUE] /\ r \in Seq(Inst)
    BY SetRunaheadType DEF EnterRunahead, TypeOK, RobType
  <1>4. \A k \in DOMAIN r : r[k] \in Inst
    BY <1>3, SeqTypes
  <1> HIDE DEF r
  <1>5. QED
    BY <1>2, <1>3, <1>4 DEF StaysIssued, StaysExecuted, Inst

LEMMA MarkCompletedStays ==
  ASSUME TypeOK, UpdateRunaheadState
  PROVE  StaysIssued
  <1>1. \A k \in DOMAIN rob : rob[k] \in Inst
    BY SeqTypes DEF TypeOK, RobType
  <1>2. QED
    BY <1>1 DEF UpdateRunaheadState, MarkCompleted, StaysIssued, Inst

\* The steps after which an instruction is where it was, none marked by commit.
LEMMA Stays ==
  ASSUME TypeOK, Next, ~GetInsts, ~Retires, ~RobWalk, ~SquashStep
  PROVE  StaysIssued /\ (~UpdateRunaheadState => StaysExecuted)
  <1>1. CASE Event
    BY <1>1, EventStays
  <1>2. CASE IewExecute
    BY <1>2, IewStepStays DEF IewExecute, IewStep
  <1>3. CASE IgnoreRunaheadFault \/ PoisonRunaheadLLL
    BY <1>3, PoisonStays
       DEF IgnoreRunaheadFault, PoisonRunaheadLLL, ReadyHead, LLLAtHead, AtHead
  <1>4. CASE EnterRunahead
    BY <1>4, EnterStays
  <1>5. CASE UpdateRunaheadState
    BY <1>5, MarkCompletedStays
  <1>6. CASE \/ StartTick \/ FrontEndSquash \/ FrontEndAdvance \/ FrontEndDiscard
             \/ IewDone \/ SelectNothing \/ IgnoreIewSquash \/ TrapHead \/ StopCommit
    BY <1>6, SameStays DEF StartTick, FrontEndSquash, FrontEndAdvance,
       FrontEndDiscard, IewDone, SelectNothing, IgnoreIewSquash, TrapHead,
       StopCommit, robVars
  <1>7. CASE SquashFromSquashAfter
    BY <1>7, SameStays DEF SquashFromSquashAfter, SquashStep, robVars
  <1>8. QED
    BY <1>1, <1>2, <1>3, <1>4, <1>5, <1>6, <1>7 DEF Next, Tick, Retires, SquashStep

\* An instruction in the ROB is younger than what was committed, and not older
\* than the load of the last period.
LEMMA LiveIsYoung ==
  ASSUME TypeOK, CauseIsOldest, CommittedIsOldest, NEW k \in DOMAIN rob
  PROVE  rob[k].sn \in Nat /\ rob[k].sn > lastCommitedSeqNum
         /\ rob[k].sn >= runaheadCause.sn
  <1>1. rob[k].sn \in Nat /\ lastCommitedSeqNum \in Nat /\ runaheadCause.sn \in Nat
    BY SeqTypes, InstFields DEF TypeOK, RobType, CommitType, ModeType, Cause
  <1>2. runaheadCause.sn <= rob[k].sn /\ lastCommitedSeqNum + 1 <= rob[k].sn
    BY DEF CauseIsOldest, CommittedIsOldest, NotOlder
  <1>3. QED
    BY <1>1, <1>2

\* The walk marks an instruction that asked for a squash only if a squash of
\* commit has overtaken it; otherwise it leaves all before it alone, too.
LEMMA WalkAnswers ==
  ASSUME TypeOK, AgeOrder, CauseIsOldest, CommittedIsOldest, WalkReaches, RobWalk,
         NEW sn, NEW k \in DOMAIN rob, OnBehalf(sn, k)
  PROVE  \/ status' = "ROBSquashing" /\ Overtaken(sn)'
         \/ OnBehalf(sn, k)' /\ k \in DOMAIN rob' /\ (Held(k) => Held(k)')
  <1>1. /\ rob \in Seq(Inst) /\ squashTo \in Int /\ youngestSeqNum \in Int
        /\ \A j \in DOMAIN rob : rob[j] \in Inst /\ rob[j].sn \in Nat
    BY SeqTypes, InstFields DEF TypeOK, RobType, CommitType
  <1>2. /\ UNCHANGED <<youngestSeqNum, lastCommitedSeqNum, runaheadCause, inRunahead,
                       squashTo>>
    BY DEF RobWalk, modeVars
  <1>3. rob[k].sn = sn
    BY DEF OnBehalf
  <1>4. CASE ~(status = "ROBSquashing" /\ squashIt # 0)
    <2>1. rob' = rob /\ ~ToBeMarked(k)
      BY <1>1, <1>4, LenProperties DEF RobWalk, ToBeMarked
    <2>2. QED
      BY <1>2, <2>1 DEF OnBehalf, Held
  <1>5. CASE status = "ROBSquashing" /\ squashIt # 0
    <2>1. /\ status' = status
          /\ rob' = MarkSquashed(rob, WalkMarks(rob, squashIt, squashTo, SquashWidth))
      BY <1>5 DEF RobWalk
    <2>2. CASE sn > squashTo
      <3>1. youngestSeqNum <= squashTo
        BY <1>5, EmptySeq DEF WalkReaches
      <3>2. sn \in Nat /\ sn > youngestSeqNum
        BY <1>1, <1>3, <2>2, <3>1
      <3>3. QED
        BY <1>2, <1>3, <1>5, <2>1, <3>2, LiveIsYoung DEF Overtaken
    <2>3. CASE ~(sn > squashTo)
      <3>1. ASSUME NEW j \in DOMAIN rob, j <= k
            PROVE  j \in DOMAIN rob' /\ rob'[j] = rob[j]
        <4>1. j = k \/ rob[j].sn < rob[k].sn
          BY <1>1, <3>1, LenProperties DEF AgeOrder, Sorted
        <4>2. ~(rob[j].sn > squashTo)
          BY <1>1, <1>3, <2>3, <4>1
        <4>3. QED
          BY <2>1, <4>2 DEF MarkSquashed, WalkMarks
      <3>2. ~ToBeMarked(k)
        BY <1>3, <2>3 DEF ToBeMarked
      <3>3. k <= k /\ DOMAIN rob' = DOMAIN rob
        BY <1>1, <2>1, LenProperties DEF MarkSquashed
      <3>4. QED
        BY <1>2, <3>1, <3>2, <3>3 DEF OnBehalf, Held
    <2>4. QED
      BY <2>2, <2>3
  <1>6. QED
    BY <1>4, <1>5

\* A squash of commit from the front of the ROB, or from the load of a period,
\* overtakes every other.
LEMMA CommitOvertakes ==
  ASSUME TypeOK, CauseIsOldest, NEW sn \in Nat, sn > lastCommitedSeqNum,
         sn >= runaheadCause.sn, SquashStep, ~AcceptIewSquash
  PROVE  status' = "ROBSquashing" /\ Overtaken(sn)'
  <1>1. UNCHANGED <<lastCommitedSeqNum, runaheadCause>> /\ status' = "ROBSquashing"
    BY DEF SquashStep, SquashFromTrap, SquashFromSquashAfter, SquashFromRunaheadExit,
       SquashAll, modeVars
  <1>2. CASE SquashFromRunaheadExit
    <2>1. youngestSeqNum' = exitCause.sn - 1
      BY <1>2 DEF SquashFromRunaheadExit
    <2>2. exitCause.sn \in Nat /\ runaheadCause.sn \in Nat
          /\ exitCause.sn <= runaheadCause.sn
      BY DEF TypeOK, ExitType, ModeType, Cause, CauseIsOldest
    <2>3. QED
      BY <1>1, <2>1, <2>2 DEF Overtaken
  <1>3. CASE ~SquashFromRunaheadExit
    <2>1. youngestSeqNum' = lastCommitedSeqNum
      BY <1>3 DEF SquashStep, SquashFromTrap, SquashFromSquashAfter, SquashAll
    <2>2. QED
      BY <1>1, <2>1 DEF Overtaken
  <1>4. QED
    BY <1>2, <1>3

\* After any other step that neither adds nor removes, the squash is still on
\* behalf of the instruction it was for.
LEMMA StaysOnBehalf ==
  ASSUME TypeOK, Next, ~GetInsts, ~Retires, ~RobWalk, ~SquashStep,
         NEW sn, NEW k \in DOMAIN rob, OnBehalf(sn, k)
  PROVE  /\ k \in DOMAIN rob' /\ OnBehalf(sn, k)'
         /\ ~UpdateRunaheadState /\ Held(k) => Held(k)'
  <1>1. StaysIssued /\ (~UpdateRunaheadState => StaysExecuted)
    BY Stays
  <1>2. /\ rob[k].sn = sn /\ ~rob[k].squashed /\ rob[k].state # "waiting"
        /\ rob[k].runahead = inRunahead \/ ToBeMarked(k)
    BY DEF OnBehalf
  <1>3. ASSUME ~UpdateRunaheadState, Held(k)
        PROVE  Held(k)'
    <2>1. PICK j \in DOMAIN rob :
                 j <= k /\ ~rob[j].squashed /\ rob[j].state = "executed"
      BY <1>3 DEF Held
    <2>2. /\ j \in DOMAIN rob' /\ rob'[j].squashed = rob[j].squashed
          /\ rob'[j].state = "executed"
      BY <1>1, <1>3, <2>1 DEF StaysIssued, StaysExecuted
    <2>3. QED
      BY <2>1, <2>2 DEF Held
  <1>4. /\ k \in DOMAIN rob' /\ ~rob'[k].squashed /\ rob'[k].state # "waiting"
    BY <1>1, <1>2 DEF StaysIssued
  <1>5. CASE EnterRunahead
    <2>1. rob'[k].sn = rob[k].sn /\ rob'[k].runahead
      BY <1>4, <1>5, EnterChange DEF AllRunahead
    <2>2. rob'[k].runahead \in BOOLEAN /\ inRunahead' = TRUE
      <3>1. inRunahead' = TRUE
        BY <1>5 DEF EnterRunahead
      <3>2. rob'[k].runahead = TRUE
        <4>1. rob'[k] \in Inst
          BY <1>4, <1>5, StepType, SeqTypes DEF TypeOK, RobType
        <4>2. QED
          BY <2>1, <4>1, InstFields
      <3>3. QED
        BY <3>1, <3>2
    <2>3. rob'[k].runahead = inRunahead'
      BY <2>1, <2>2
    <2>4. QED
      BY <1>2, <1>3, <1>4, <2>1, <2>3 DEF OnBehalf
  <1>6. CASE ~EnterRunahead
    <2>1. rob'[k].sn = rob[k].sn /\ rob'[k].runahead = rob[k].runahead
      BY <1>6, RobChange DEF Updated
    <2>2. inRunahead' = inRunahead
      BY <1>6, ModeChange DEF SquashStep
    <2>3. ToBeMarked(k) => ToBeMarked(k)'
      <3>1. CASE SquashFromSquashAfter
        BY <3>1 DEF SquashFromSquashAfter, ToBeMarked
      <3>2. CASE ~SquashFromSquashAfter
        <4>1. DOMAIN rob' = DOMAIN rob
          BY <1>6, RobChange DEF Updated
        <4>2. /\ UNCHANGED <<squashIt, squashTo, youngestSeqNum>>
              /\ status = "ROBSquashing" => status' = "ROBSquashing"
          BY <3>2, WalkUnchanged DEF SquashStep
        <4>3. QED
          BY <2>1, <4>1, <4>2 DEF ToBeMarked
      <3>3. QED
        BY <3>1, <3>2
    <2>4. QED
      BY <1>2, <1>3, <1>4, <2>1, <2>2, <2>3 DEF OnBehalf
  <1>7. QED
    BY <1>5, <1>6

\* What Overtaken compares with changes in squashes, in getInsts, in commitHead
\* and at entry.
LEMMA OvertakenStays ==
  ASSUME Next, ~SquashStep, ~GetInsts, ~CommitHead, ~EnterRunahead, NEW sn,
         Overtaken(sn)
  PROVE  Overtaken(sn)'
  <1>1. lastCommitedSeqNum' = lastCommitedSeqNum
    BY CommittedChange
  <1>2. runaheadCause' = runaheadCause
    BY CauseChange
  <1>3. youngestSeqNum' = youngestSeqNum
    <2>1. CASE RobWalk
      BY <2>1 DEF RobWalk
    <2>2. CASE SquashFromSquashAfter
      BY <2>2 DEF SquashFromSquashAfter, SquashStep
    <2>3. CASE ~RobWalk /\ ~SquashFromSquashAfter
      BY <2>3, WalkUnchanged DEF SquashStep
    <2>4. QED
      BY <2>1, <2>2, <2>3
  <1>4. QED
    BY <1>1, <1>2, <1>3 DEF Overtaken

BeforeCommit == {"events", "fetch", "iew", "walk", "select", "iewsquash"}

\* The message commit reads changes at the end of a cycle only, and until it is
\* read nothing enters or leaves the ROB.
LEMMA ReadMessage ==
  ASSUME Next, ~UpdateRunaheadState
  PROVE  /\ iewNow' = iewNow
         /\ phase' \in BeforeCommit =>
              /\ phase \in BeforeCommit /\ ~GetInsts /\ ~Retires /\ ~EnterRunahead
              /\ ~AcceptIewSquash
  <1> USE DEF BeforeCommit
  <1>1. CASE Event
    BY <1>1 DEF Event, LLLReturn, MemResponse, ForgedResponse, InFlightTooLong,
       DeadlineEvent, ProcessTrapEvent, iewVars, Retires, RetireSquashed, CommitHead,
       EnterRunahead, LLLAtHead, ReadyHead, AtHead, GetInsts, AcceptIewSquash
  <1>2. CASE \/ StartTick \/ FrontEndSquash \/ FrontEndAdvance \/ FrontEndDiscard
             \/ IewExecute \/ IewDone \/ RobWalk
    BY <1>2 DEF StartTick, FrontEndSquash, FrontEndAdvance, FrontEndDiscard,
       IewExecute, IewDone, RobWalk, iewVars, Retires, RetireSquashed, CommitHead,
       EnterRunahead, LLLAtHead, ReadyHead, AtHead, GetInsts, AcceptIewSquash
  <1>3. CASE \/ SquashFromTrap \/ SquashFromSquashAfter \/ SquashFromRunaheadExit
             \/ SelectNothing
    BY <1>3 DEF SquashFromTrap, SquashFromSquashAfter, SquashFromRunaheadExit,
       SelectNothing, iewVars, Retires, RetireSquashed, CommitHead,
       EnterRunahead, LLLAtHead, ReadyHead, AtHead, GetInsts, AcceptIewSquash
  <1>4. CASE AcceptIewSquash \/ IgnoreIewSquash \/ GetInsts
    BY <1>4 DEF AcceptIewSquash, IgnoreIewSquash, GetInsts, iewVars
  <1>5. CASE \/ RetireSquashed \/ CommitHead \/ TrapHead \/ IgnoreRunaheadFault
             \/ EnterRunahead \/ PoisonRunaheadLLL \/ StopCommit
    BY <1>5 DEF RetireSquashed, CommitHead, TrapHead, IgnoreRunaheadFault,
       EnterRunahead, PoisonRunaheadLLL, StopCommit, LLLAtHead, ReadyHead, AtHead,
       iewVars
  <1>6. QED
    BY <1>1, <1>2, <1>3, <1>4, <1>5 DEF Next, Tick

LEMMA RedirectReadStep ==
  ASSUME TypeOK, TypeOK', AgeOrder, CauseIsOldest, CommittedIsOldest, WalkReaches,
         RedirectSent, RedirectRead, Next
  PROVE  RedirectRead'
  <1> SUFFICES ASSUME iewNow'.squash, phase' \in BeforeCommit,
                      NEW sn \in Nat, sn = iewNow'.sn
               PROVE  Overtaken(sn)' \/ \E k \in DOMAIN rob' : OnBehalf(sn, k)'
    <2>1. iewNow'.sn \in Nat
      BY DEF TypeOK, IewType, IewMsg
    <2>2. QED
      BY <2>1 DEF RedirectRead, BeforeCommit, Overtaken, OnBehalf, ToBeMarked
  <1>1. CASE UpdateRunaheadState
    <2>1. /\ ~GetInsts /\ ~Retires /\ ~RobWalk /\ ~SquashStep /\ ~EnterRunahead
          /\ ~CommitHead /\ phase = "update" /\ iewNow' = iewNext
      BY <1>1 DEF UpdateRunaheadState, GetInsts, Retires, RetireSquashed, CommitHead,
         ReadyHead, EnterRunahead, LLLAtHead, AtHead, RobWalk, SquashStep,
         SquashFromTrap, SquashFromSquashAfter, SquashFromRunaheadExit, AcceptIewSquash
    <2>2. Overtaken(sn) \/ \E k \in DOMAIN rob : OnBehalf(sn, k)
      BY <2>1 DEF RedirectSent
    <2>3. QED
      BY <2>1, <2>2, OvertakenStays, StaysOnBehalf
  <1>2. CASE ~UpdateRunaheadState
    <2>1. /\ iewNow' = iewNow /\ phase \in BeforeCommit /\ ~GetInsts /\ ~Retires
          /\ ~EnterRunahead /\ ~AcceptIewSquash /\ ~CommitHead
      BY <1>2, ReadMessage DEF Retires
    <2>2. Overtaken(sn) \/ \E k \in DOMAIN rob : OnBehalf(sn, k)
      BY <2>1 DEF RedirectRead, BeforeCommit
    <2>3. CASE SquashStep
      <3>1. sn > lastCommitedSeqNum /\ sn >= runaheadCause.sn
        BY <2>2, LiveIsYoung DEF Overtaken, OnBehalf
      <3>2. QED
        BY <2>1, <2>3, <3>1, CommitOvertakes
    <2>4. CASE ~SquashStep /\ Overtaken(sn)
      BY <2>1, <2>4, OvertakenStays
    <2>5. ASSUME ~SquashStep, NEW k \in DOMAIN rob, OnBehalf(sn, k)
          PROVE  Overtaken(sn)' \/ \E j \in DOMAIN rob' : OnBehalf(sn, j)'
      <3>1. CASE RobWalk
        BY <2>5, <3>1, WalkAnswers
      <3>2. CASE ~RobWalk
        BY <2>1, <2>5, <3>2, StaysOnBehalf
      <3>3. QED
        BY <3>1, <3>2
    <2>6. QED
      BY <2>2, <2>3, <2>4, <2>5
  <1>3. QED
    BY <1>1, <1>2

\* What is live is of the current mode, or the walk is on its way to it.
LEMMA LiveMode ==
  ASSUME TypeOK, AllInRunahead, StaleInRob, NEW k \in DOMAIN rob, ~rob[k].squashed
  PROVE  rob[k].runahead = inRunahead \/ ToBeMarked(k)
  <1>1. rob[k].runahead \in BOOLEAN /\ inRunahead \in BOOLEAN
    BY SeqTypes, InstFields DEF TypeOK, RobType, ModeType
  <1>2. CASE inRunahead
    BY <1>1, <1>2 DEF AllInRunahead, AllRunahead
  <1>3. CASE ~inRunahead /\ rob[k].runahead
    BY <1>3 DEF StaleInRob
  <1>4. CASE ~inRunahead /\ ~rob[k].runahead
    BY <1>1, <1>4
  <1>5. QED
    BY <1>2, <1>3, <1>4

\* A squash that IEW newly asks for is on behalf of a branch that executes, or of
\* a load behind a store that does.
LEMMA IewMessage ==
  ASSUME TypeOK, NEW k \in DOMAIN rob, IewStep(k), iewNext'.squash
  PROVE  \/ iewNext.squash /\ iewNext'.sn = iewNext.sn
         \/ \E j \in DOMAIN rob :
              /\ iewNext'.sn = rob[j].sn /\ (j = k \/ j \in Violators(k))
              /\ Issued(k)
              /\ rob' = [rob EXCEPT ![k] = [rob[k] EXCEPT !.state = "executed"]]
  <1>1. iewNext \in IewMsg /\ \A j \in DOMAIN rob : rob[j] \in Inst
    BY SeqTypes DEF TypeOK, IewType, RobType
  <1>2. ASSUME NEW inst, NEW msg \in IewMsg, Complete(k, inst, msg)
        PROVE  iewNext'.squash = msg.squash /\ iewNext'.sn = msg.sn
    BY <1>2 DEF Complete, IewMsg
  <1>3. CASE SkipSquashed(k) \/ SendLoad(k)
    BY <1>3 DEF SkipSquashed, SendLoad
  <1>4. CASE ExecutePoisoned(k) \/ ExecuteShort(k)
    BY <1>1, <1>2, <1>4 DEF ExecutePoisoned, ExecuteShort
  <1>5. CASE ExecuteBranch(k)
    <2>1. CASE Complete(k, rob[k], iewNext)
      BY <1>1, <1>2, <2>1
    <2>2. CASE Complete(k, rob[k], WithSquash(rob[k].sn, FALSE, BranchTarget(rob[k])))
      <3>1. rob[k].sn \in Nat /\ BranchTarget(rob[k]) \in Nat
        BY <1>1, InstFields DEF BranchTarget
      <3>2. WithSquash(rob[k].sn, FALSE, BranchTarget(rob[k])) \in IewMsg
        BY <3>1, WithSquashType
      <3>3. iewNext'.sn = WithSquash(rob[k].sn, FALSE, BranchTarget(rob[k])).sn
        BY <1>2, <2>2, <3>2
      <3>4. (iewNext.squash /\ iewNext'.sn = iewNext.sn) \/ iewNext'.sn = rob[k].sn
        BY <1>1, <3>3 DEF WithSquash, IewMsg
      <3>5. QED
        BY <1>5, <2>2, <3>4 DEF ExecuteBranch, Complete
    <2>3. QED
      BY <1>5, <2>1, <2>2 DEF ExecuteBranch
  <1>6. CASE ExecuteStore(k)
    <2>1. CASE Complete(k, rob[k], iewNext)
      BY <1>1, <1>2, <2>1
    <2>2. ASSUME NEW j \in Violators(k),
                 Complete(k, rob[k], WithSquash(rob[j].sn, TRUE, rob[j].pos))
          PROVE  (iewNext.squash /\ iewNext'.sn = iewNext.sn) \/ iewNext'.sn = rob[j].sn
      <3>1. rob[j].sn \in Nat /\ rob[j].pos \in Nat
        BY <1>1, InstFields DEF Violators
      <3>2. WithSquash(rob[j].sn, TRUE, rob[j].pos) \in IewMsg
        BY <3>1, WithSquashType
      <3>3. iewNext'.sn = WithSquash(rob[j].sn, TRUE, rob[j].pos).sn
        BY <1>2, <2>2, <3>2
      <3>4. QED
        BY <1>1, <3>3 DEF WithSquash, IewMsg
    <2>3. QED
      BY <1>6, <2>1, <2>2 DEF ExecuteStore, Violators, Complete
  <1>7. QED
    BY <1>3, <1>4, <1>5, <1>6 DEF IewStep

LEMMA ExecuteRedirects ==
  ASSUME TypeOK, CycleOrder, AllInRunahead, StaleInRob, RedirectSent, Next, IewExecute,
         iewNext'.squash, NEW sn, sn = iewNext'.sn
  PROVE  \E k \in DOMAIN rob' : OnBehalf(sn, k)' /\ Held(k)'
  <1>1. PICK k \in DOMAIN rob : IewStep(k)
    BY DEF IewExecute, IewStep
  <1>2. /\ ~GetInsts /\ ~Retires /\ ~RobWalk /\ ~SquashStep /\ ~UpdateRunaheadState
        /\ phase = "iew"
    BY DEF IewExecute, UpdateRunaheadState, GetInsts, Retires, RetireSquashed,
       CommitHead, ReadyHead, AtHead, RobWalk, SquashStep, SquashFromTrap,
       SquashFromSquashAfter, SquashFromRunaheadExit, AcceptIewSquash
  <1>3. CASE iewNext.squash /\ sn = iewNext.sn
    <2>1. PICK j \in DOMAIN rob : OnBehalf(sn, j) /\ Held(j)
      BY <1>2, <1>3 DEF RedirectSent
    <2>2. QED
      BY <1>2, <2>1, StaysOnBehalf
  <1>4. ASSUME NEW j \in DOMAIN rob, sn = rob[j].sn, j = k \/ j \in Violators(k),
               Issued(k), rob' = [rob EXCEPT ![k] = [rob[k] EXCEPT !.state = "executed"]]
        PROVE  j \in DOMAIN rob' /\ OnBehalf(sn, j)' /\ Held(j)'
    <2>1. /\ rob \in Seq(Inst) /\ rob[k] \in Inst /\ rob[j] \in Inst
          /\ k \in Nat /\ j \in Nat
      BY SeqTypes, LenProperties DEF TypeOK, RobType
    <2>2. ~rob[k].squashed /\ ~rob[j].squashed /\ k <= j
      BY <1>4, <2>1 DEF Issued, SquashedForIew, Violators
    <2>3. /\ DOMAIN rob' = DOMAIN rob
          /\ ~rob'[k].squashed /\ rob'[k].state = "executed"
          /\ rob'[j].sn = rob[j].sn /\ rob'[j].runahead = rob[j].runahead
          /\ ~rob'[j].squashed
      BY <1>4, <2>1, <2>2 DEF Inst
    <2>4. rob'[j].state # "waiting"
      <3>1. CASE j = k
        BY <2>3, <3>1
      <3>2. CASE j # k /\ j \in Violators(k)
        BY <1>4, <3>2 DEF Violators, IsExecuted, InFlight
      <3>3. QED
        BY <1>4, <3>1, <3>2
    <2>5. rob[j].runahead = inRunahead \/ ToBeMarked(j)
      BY <2>2, LiveMode
    <2>6. UNCHANGED <<status, squashIt, squashTo, youngestSeqNum, inRunahead>>
      BY DEF IewExecute, commitVars, modeVars
    <2>7. OnBehalf(sn, j)'
      BY <1>4, <2>3, <2>4, <2>5, <2>6 DEF OnBehalf, ToBeMarked
    <2>8. Held(j)'
      BY <2>2, <2>3 DEF Held
    <2>9. QED
      BY <2>3, <2>7, <2>8
  <1>5. QED
    BY <1>1, <1>3, <1>4, IewMessage

\* The squash commit takes from IEW overtakes a later one, or leaves what that is
\* on behalf of alone.
LEMMA AcceptAnswers ==
  ASSUME TypeOK, AgeOrder, CauseIsOldest, CommittedIsOldest, AcceptIewSquash,
         NEW sn, NEW k \in DOMAIN rob, OnBehalf(sn, k), Held(k)
  PROVE  \/ status' = "ROBSquashing" /\ Overtaken(sn)'
         \/ k \in DOMAIN rob' /\ OnBehalf(sn, k)' /\ Held(k)'
  <1>1. PICK to \in Int : SquashesTo(to) /\ youngestSeqNum' = to
    BY AcceptIewSquashTo
  <1>2. /\ rob \in Seq(Inst) /\ rob # <<>> /\ youngestSeqNum \in Int /\ rob[k].sn = sn
        /\ \A j \in DOMAIN rob : rob[j] \in Inst /\ rob[j].sn \in Nat
    BY EmptySeq, SeqTypes, InstFields DEF TypeOK, RobType, CommitType, OnBehalf
  <1>3. UNCHANGED <<lastCommitedSeqNum, runaheadCause, inRunahead>>
    BY DEF AcceptIewSquash, modeVars
  <1>4. to <= youngestSeqNum
    BY <1>1 DEF AcceptIewSquash, IewSquashCounts, TypeOK, IewType, IewMsg, CommitType
  <1>5. CASE sn > to
    BY <1>1, <1>2, <1>3, <1>5, LiveIsYoung DEF Overtaken, SquashesTo
  <1>6. CASE ~(sn > to)
    <2>1. rob' = MarkSquashed(rob, WalkMarks(rob, Len(rob), to, SquashWidth))
      BY <1>1, <1>2 DEF SquashesTo, RobSquash
    <2>2. ASSUME NEW j \in DOMAIN rob, j <= k
          PROVE  j \in DOMAIN rob' /\ rob'[j] = rob[j]
      <3>1. j = k \/ rob[j].sn < rob[k].sn
        BY <1>2, <2>2, LenProperties DEF AgeOrder, Sorted
      <3>2. ~(rob[j].sn > to)
        BY <1>2, <1>6, <3>1
      <3>3. QED
        BY <2>1, <3>2 DEF MarkSquashed, WalkMarks
    <2>3. ~ToBeMarked(k)
      BY <1>2, <1>4, <1>6 DEF ToBeMarked
    <2>4. k <= k /\ DOMAIN rob' = DOMAIN rob
      BY <1>2, <2>1, LenProperties DEF MarkSquashed
    <2>5. QED
      BY <1>3, <2>2, <2>3, <2>4 DEF OnBehalf, Held
  <1>7. QED
    BY <1>5, <1>6

\* What an instruction asked a squash for in this cycle is held back from
\* retirement by an instruction not completed before the end of it.
LEMMA RetireAnswers ==
  ASSUME TypeOK, Retires, NEW sn, NEW k \in DOMAIN rob, OnBehalf(sn, k), Held(k)
  PROVE  \E j \in DOMAIN rob' : OnBehalf(sn, j)' /\ Held(j)'
  <1>1. /\ rob' = Tail(rob) /\ rob # <<>> /\ status = "Running" /\ rob \in Seq(Inst)
        /\ inRunahead' = inRunahead /\ (rob[1].squashed \/ rob[1].state = "done")
    BY DEF Retires, RetireSquashed, CommitHead, ReadyHead, AtHead, Head0, IsReady,
       modeVars, TypeOK, RobType
  <1>2. PICK h \in DOMAIN rob : h <= k /\ ~rob[h].squashed /\ rob[h].state = "executed"
    BY DEF Held
  <1>3. h # 1 /\ h \in 1..Len(rob) /\ k \in 1..Len(rob) /\ Len(rob) \in Nat
    BY <1>1, <1>2, LenProperties
  <1>4. ASSUME NEW j \in DOMAIN rob, j # 1
        PROVE  j - 1 \in DOMAIN rob' /\ rob'[j - 1] = rob[j]
    BY <1>1, <1>4, HeadTailProperties, LenProperties
  <1>5. k # 1
    BY <1>2, <1>3
  <1>6. ~ToBeMarked(k)
    BY <1>1 DEF ToBeMarked
  <1>7. OnBehalf(sn, k - 1)'
    BY <1>1, <1>4, <1>5, <1>6 DEF OnBehalf
  <1>8. Held(k - 1)'
    <2>1. h - 1 <= k - 1
      BY <1>2, <1>3
    <2>2. QED
      BY <1>2, <1>3, <1>4, <2>1 DEF Held
  <1>9. QED
    BY <1>4, <1>5, <1>7, <1>8

LEMMA AppendAnswers ==
  ASSUME TypeOK, GetInsts, status # "ROBSquashing",
         NEW sn, NEW k \in DOMAIN rob, OnBehalf(sn, k), Held(k)
  PROVE  k \in DOMAIN rob' /\ OnBehalf(sn, k)' /\ Held(k)'
  <1>1. rob \in Seq(Inst) /\ renameNow \in Seq(Inst)
    BY DEF TypeOK, RobType, RenameType
  <1>2. \A j \in DOMAIN rob : j \in DOMAIN rob' /\ rob'[j] = rob[j]
    <2>1. CASE rob' = rob
      BY <2>1
    <2>2. CASE rob' = rob \o renameNow
      BY <1>1, <2>2, ConcatProperties, LenProperties
    <2>3. QED
      BY <2>1, <2>2 DEF GetInsts
  <1>3. inRunahead' = inRunahead /\ ~ToBeMarked(k)
    BY DEF GetInsts, modeVars, ToBeMarked
  <1>4. QED
    BY <1>2, <1>3 DEF OnBehalf, Held

\* IEW's message of this cycle changes in execution and goes on at the end.
LEMMA SentMessage ==
  ASSUME TypeOK, Next, ~IewExecute, iewNext'.squash
  PROVE  /\ ~UpdateRunaheadState
         /\ iewNext.squash /\ iewNext'.sn = iewNext.sn
  <1>1. CASE Event
    BY <1>1 DEF Event, LLLReturn, MemResponse, ForgedResponse, InFlightTooLong,
       DeadlineEvent, ProcessTrapEvent, WriteBackLoads, iewVars, UpdateRunaheadState,
       TypeOK, IewType, IewMsg
  <1>2. CASE \/ StartTick \/ FrontEndSquash \/ FrontEndAdvance \/ FrontEndDiscard
             \/ IewDone \/ RobWalk
    BY <1>2 DEF StartTick, FrontEndSquash, FrontEndAdvance, FrontEndDiscard,
       IewDone, RobWalk, iewVars, UpdateRunaheadState
  <1>3. CASE \/ SquashFromTrap \/ SquashFromSquashAfter \/ SquashFromRunaheadExit
             \/ SelectNothing \/ AcceptIewSquash \/ IgnoreIewSquash \/ GetInsts
    BY <1>3 DEF SquashFromTrap, SquashFromSquashAfter, SquashFromRunaheadExit,
       SelectNothing, AcceptIewSquash, IgnoreIewSquash, GetInsts, iewVars,
       UpdateRunaheadState
  <1>4. CASE \/ RetireSquashed \/ CommitHead \/ TrapHead \/ IgnoreRunaheadFault
             \/ EnterRunahead \/ PoisonRunaheadLLL \/ StopCommit
    BY <1>4 DEF RetireSquashed, CommitHead, TrapHead, IgnoreRunaheadFault,
       EnterRunahead, PoisonRunaheadLLL, StopCommit, LLLAtHead, ReadyHead, AtHead,
       iewVars, UpdateRunaheadState
  <1>5. CASE UpdateRunaheadState
    BY <1>5 DEF UpdateRunaheadState, NoIewMsg
  <1>6. QED
    BY <1>1, <1>2, <1>3, <1>4, <1>5 DEF Next, Tick

\* From execution to the end of the cycle.
LEMMA SentPhase ==
  ASSUME Next, ~IewExecute, ~UpdateRunaheadState, phase \notin {"events", "fetch"}
  PROVE  /\ phase' \notin {"events", "fetch"}
         /\ phase' \in {"iew", "walk"} => IewDone
         /\ phase \in {"iew", "walk"} => IewDone \/ RobWalk
         /\ GetInsts => phase = "get"
         /\ EnterRunahead \/ Retires => phase = "insts" /\ status = "Running"
         /\ phase = "update" => FALSE
  <1>1. ~(\/ Event \/ StartTick \/ FrontEndSquash \/ FrontEndAdvance \/ FrontEndDiscard)
    BY DEF Event, LLLReturn, MemResponse, ForgedResponse, InFlightTooLong,
       DeadlineEvent, ProcessTrapEvent, StartTick, FrontEndSquash, FrontEndAdvance,
       FrontEndDiscard
  <1>2. CASE IewDone \/ RobWalk
    BY <1>2 DEF IewDone, RobWalk, GetInsts, EnterRunahead, LLLAtHead, Retires,
       RetireSquashed, CommitHead, ReadyHead, AtHead
  <1>3. CASE \/ SquashFromTrap \/ SquashFromSquashAfter \/ SquashFromRunaheadExit
             \/ SelectNothing \/ AcceptIewSquash \/ IgnoreIewSquash \/ GetInsts
    BY <1>3 DEF SquashFromTrap, SquashFromSquashAfter, SquashFromRunaheadExit,
       SelectNothing, AcceptIewSquash, IgnoreIewSquash, GetInsts, EnterRunahead,
       LLLAtHead, Retires, RetireSquashed, CommitHead, ReadyHead, AtHead
  <1>4. CASE \/ RetireSquashed \/ CommitHead \/ TrapHead \/ IgnoreRunaheadFault
             \/ EnterRunahead \/ PoisonRunaheadLLL \/ StopCommit
    BY <1>4 DEF RetireSquashed, CommitHead, TrapHead, IgnoreRunaheadFault,
       EnterRunahead, PoisonRunaheadLLL, StopCommit, LLLAtHead, ReadyHead, AtHead,
       GetInsts, Retires
  <1>5. QED
    BY <1>1, <1>2, <1>3, <1>4 DEF Next, Tick

LEMMA RedirectSentStep ==
  ASSUME TypeOK, TypeOK', AgeOrder, CauseIsOldest, CycleOrder, AllInRunahead,
         StaleInRob, CommittedIsOldest, WalkReaches, RedirectSent, Next
  PROVE  RedirectSent'
  <1> SUFFICES ASSUME iewNext'.squash
               PROVE  RedirectSent'
    BY DEF RedirectSent
  <1>1. CASE IewExecute
    <2>1. phase' = "iew"
      BY <1>1 DEF IewExecute
    <2>2. \E k \in DOMAIN rob' : OnBehalf(iewNext.sn, k)' /\ Held(k)'
      BY <1>1, ExecuteRedirects DEF OnBehalf, ToBeMarked
    <2>3. QED
      BY <2>1, <2>2 DEF RedirectSent
  <1>2. CASE ~IewExecute
    <2>1. ~UpdateRunaheadState /\ iewNext.squash /\ iewNext'.sn = iewNext.sn
      BY <1>2, SentMessage
    <2>2. PICK sn \in Nat : sn = iewNext.sn /\ sn = iewNext'.sn
      BY <2>1 DEF TypeOK, IewType, IewMsg
    <2>3. phase \notin {"events", "fetch"}
      BY <2>1 DEF RedirectSent
    <2>4. /\ phase' \notin {"events", "fetch"}
          /\ phase' \in {"iew", "walk"} => IewDone
          /\ phase \in {"iew", "walk"} => IewDone \/ RobWalk
          /\ GetInsts => phase = "get"
          /\ EnterRunahead \/ Retires => phase = "insts" /\ status = "Running"
          /\ phase # "update"
      BY <1>2, <2>1, <2>3, SentPhase
    <2>5. \/ /\ phase \notin {"iew", "walk"} /\ status = "ROBSquashing"
             /\ Overtaken(sn)
          \/ \E k \in DOMAIN rob : OnBehalf(sn, k) /\ Held(k)
      BY <2>1, <2>2, <2>4 DEF RedirectSent
    <2>6. SUFFICES \/ ~IewDone /\ status' = "ROBSquashing" /\ Overtaken(sn)'
                   \/ \E k \in DOMAIN rob' : OnBehalf(sn, k)' /\ Held(k)'
      BY <2>2, <2>4 DEF RedirectSent, OnBehalf, Overtaken, ToBeMarked
    <2>7. CASE SquashStep
      <3>1. ~IewDone
        BY <2>7 DEF SquashStep, SquashFromTrap, SquashFromSquashAfter,
           SquashFromRunaheadExit, AcceptIewSquash, IewDone
      <3>2. CASE ~AcceptIewSquash
        <4>1. sn > lastCommitedSeqNum /\ sn >= runaheadCause.sn
          BY <2>5, LiveIsYoung DEF Overtaken, OnBehalf
        <4>2. QED
          BY <2>7, <3>1, <3>2, <4>1, CommitOvertakes
      <3>3. CASE AcceptIewSquash
        <4>1. CASE Overtaken(sn)
          <5>1. /\ status' = "ROBSquashing" /\ youngestSeqNum' <= youngestSeqNum
                /\ youngestSeqNum' \in Int /\ youngestSeqNum \in Int
                /\ UNCHANGED <<lastCommitedSeqNum, runaheadCause>>
            BY <3>3 DEF AcceptIewSquash, IewSquashCounts, modeVars, TypeOK, IewType,
               IewMsg, CommitType
          <5>2. QED
            BY <3>1, <4>1, <5>1 DEF Overtaken
        <4>2. CASE ~Overtaken(sn)
          BY <2>5, <3>1, <3>3, <4>2, AcceptAnswers
        <4>3. QED
          BY <4>1, <4>2
      <3>4. QED
        BY <3>2, <3>3
    <2>8. CASE ~SquashStep /\ status = "ROBSquashing" /\ Overtaken(sn)
               /\ phase \notin {"iew", "walk"}
      <3>1. ~IewDone /\ ~RobWalk /\ ~EnterRunahead /\ ~Retires
        BY <2>4, <2>8 DEF IewDone, RobWalk
      <3>2. CASE GetInsts
        <4>1. /\ UNCHANGED <<status, youngestSeqNum, lastCommitedSeqNum, runaheadCause>>
          BY <2>8, <3>2 DEF GetInsts, modeVars
        <4>2. QED
          BY <2>8, <3>1, <4>1 DEF Overtaken
      <3>3. CASE ~GetInsts
        <4>1. Overtaken(sn)'
          BY <2>8, <3>1, <3>3, OvertakenStays DEF Retires
        <4>2. ~SquashFromSquashAfter
          BY <2>8 DEF SquashFromSquashAfter
        <4>3. status' = "ROBSquashing"
          BY <2>8, <3>1, <3>3, <4>2, WalkUnchanged DEF SquashStep
        <4>4. QED
          BY <3>1, <4>1, <4>3
      <3>4. QED
        BY <3>2, <3>3
    <2>9. ASSUME ~SquashStep, NEW k \in DOMAIN rob, OnBehalf(sn, k), Held(k)
          PROVE  \/ ~IewDone /\ status' = "ROBSquashing" /\ Overtaken(sn)'
                 \/ \E j \in DOMAIN rob' : OnBehalf(sn, j)' /\ Held(j)'
      <3>1. CASE RobWalk
        BY <2>9, <3>1, WalkAnswers DEF RobWalk, IewDone
      <3>2. CASE Retires
        BY <2>9, <3>2, RetireAnswers
      <3>3. CASE GetInsts /\ status # "ROBSquashing"
        BY <2>9, <3>3, AppendAnswers
      <3>4. CASE GetInsts /\ status = "ROBSquashing"
        <4>1. UNCHANGED <<rob, status, squashIt, squashTo, youngestSeqNum, inRunahead>>
          BY <3>4 DEF GetInsts, modeVars
        <4>2. QED
          BY <2>9, <4>1 DEF OnBehalf, Held, ToBeMarked
      <3>5. CASE ~RobWalk /\ ~Retires /\ ~GetInsts
        BY <2>1, <2>9, <3>5, StaysOnBehalf
      <3>6. QED
        BY <3>1, <3>2, <3>3, <3>4, <3>5
    <2>10. QED
      BY <2>5, <2>7, <2>8, <2>9
  <1>3. QED
    BY <1>1, <1>2

-----------------------------------------------------------------------------
LEMMA InitSquashInv == Init => SquashInv
  <1> SUFFICES ASSUME Init PROVE SquashInv
    OBVIOUS
  <1>1. CommittedIsOldest
    BY EmptyBefore DEF Init, CommittedIsOldest
  <1>2. WalkReaches /\ Restoring
    BY DEF Init, WalkReaches, Restoring, RestorePending
  <1>3. RedirectSent /\ RedirectRead
    BY DEF Init, RedirectSent, RedirectRead, NoIewMsg
  <1>4. QED
    BY <1>1, <1>2, <1>3 DEF SquashInv

LEMMA SquashInvStep == TypeOK /\ ModeInv /\ SquashInv /\ [Next]_vars => SquashInv'
  <1> SUFFICES ASSUME TypeOK, ModeInv, SquashInv, [Next]_vars PROVE SquashInv'
    OBVIOUS
  <1>1. TypeOK'
    BY StepType
  <1>2. CASE Next
    BY <1>1, <1>2, CommittedIsOldestStep, WalkReachesStep, RestoringStep,
       RedirectSentStep, RedirectReadStep DEF ModeInv, SquashInv
  <1>3. CASE UNCHANGED vars
    BY <1>3 DEF SquashInv, CommittedIsOldest, WalkReaches, ToBeMarked, Restoring,
       RestorePending, RedirectSent, RedirectRead, Overtaken, OnBehalf, Held, vars,
       frontVars, renameVars, robVars, iewVars, commitVars, modeVars, archVars
  <1>4. QED
    BY <1>2, <1>3

\* Squashes of several sources, cycles apart, do not get in one another's way: the
\* walk of the ROB loses nothing when it is restarted (rob.cc:702-728), and what
\* IEW asks for is either live or overtaken by a squash of commit
\* (commit.cc:1109-1115).
THEOREM PipelineInvariance == Spec => []PipelineInv
  <1>1. TypeOK /\ PipelineInv /\ [Next]_vars => PipelineInv'
    BY ModeInvStep, SquashInvStep DEF PipelineInv
  <1>2. Init => PipelineInv
    BY InitModeInv, InitSquashInv DEF PipelineInv
  <1>3. QED
    BY <1>1, <1>2, TypeInvariant, PTL DEF Spec

\* No squash redirects fetch on behalf of a dead instruction, the walk ends with
\* all marked, and the assertion of ROB::archRestoreSanityCheck holds.
THEOREM SquashSoundInvariant == Spec => []SquashSound
  <1>1. TypeOK /\ PipelineInv => SquashSound
    <2> SUFFICES ASSUME TypeOK, PipelineInv
                 PROVE  RedirectFromLive /\ SquashComplete /\ ArchRestoreSane
      BY DEF SquashSound
    <2>1. ASSUME phase = "iewsquash", IewSquashCounts
          PROVE  \E k \in DOMAIN rob : /\ rob[k].sn = iewNow.sn /\ ~rob[k].squashed
                                       /\ rob[k].runahead = inRunahead
      <3>1. iewNow.sn <= youngestSeqNum /\ iewNow.squash
        BY <2>1 DEF IewSquashCounts
      <3>2. iewNow.sn \in Nat /\ youngestSeqNum \in Int
        BY DEF TypeOK, IewType, IewMsg, CommitType
      <3>3. \E k \in DOMAIN rob : OnBehalf(iewNow.sn, k)
        BY <2>1, <3>1, <3>2 DEF PipelineInv, SquashInv, RedirectRead, Overtaken
      <3>4. QED
        BY <3>1, <3>2, <3>3 DEF OnBehalf, ToBeMarked
    <2>2. ASSUME status = "ROBSquashing", squashIt = 0, NEW k \in DOMAIN rob,
                 rob[k].sn > youngestSeqNum
          PROVE  rob[k].squashed
      <3>1. squashIt \notin DOMAIN rob
        BY <2>2, LenProperties DEF TypeOK, RobType
      <3>2. QED
        BY <2>2, <3>1 DEF PipelineInv, SquashInv, WalkReaches, ToBeMarked
    <2>3. ASSUME phase = "update", archRestoreNow, squashIt = 0, NEW k \in DOMAIN rob
          PROVE  rob[k].squashed
      <3>1. ~inRunahead /\ rob[k].runahead
        BY <2>3 DEF PipelineInv, SquashInv, Restoring, RestorePending, AllRunahead
      <3>2. squashIt \notin DOMAIN rob
        BY <2>3, LenProperties DEF TypeOK, RobType
      <3>3. QED
        BY <3>1, <3>2 DEF PipelineInv, ModeInv, StaleInRob, ToBeMarked
    <2>4. QED
      BY <2>1, <2>2, <2>3 DEF RedirectFromLive, SquashComplete, ArchRestoreSane,
         AllSquashed
  <1>2. QED
    BY <1>1, PipelineInvariance, TypeInvariant, PTL

\* When the registers are restored, a cycle after the exit, nothing of the resumed
\* program holds any (cpu.cc:1821-1858).
THEOREM RestoreFirstInvariant == Spec => []RestoreFirst
  <1>1. PipelineInv => RestoreFirst
    BY DEF PipelineInv, SquashInv, Restoring, RestoreFirst, AllRunahead
  <1>2. QED
    BY <1>1, PipelineInvariance, PTL
=============================================================================
