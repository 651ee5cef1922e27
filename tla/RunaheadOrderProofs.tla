------------------------- MODULE RunaheadOrderProofs -------------------------
(***************************************************************************)
(* RunaheadCore implements InOrderMachine: the program is committed in     *)
(* order, each fault trapped once, and runahead leaves no trace. A period  *)
(* ends for its own load and the next one begins behind it: ExitInv is an  *)
(* invariant, and with it ExitSound, NextLoadOfPeriod and NoOverlap.       *)
(***************************************************************************)
EXTENDS RunaheadModeProofs, ExitInvariant

-----------------------------------------------------------------------------
(* Paths.                                                                  *)

Places == [sn : Nat, pos : Nat, jumps : BOOLEAN, ends : BOOLEAN]

OneEach(P) == \A i, j \in P : i.sn = j.sn => i = j

\* What is fetched goes on the end of the path.
LEMMA PathExtended ==
  ASSUME NEW P \in SUBSET Places, NEW first, NEW target, Connected(P, first, target),
         NEW n \in Places, \A i \in P : i.sn < n.sn, n.pos = target,
         NEW beyond, Leads(n, beyond)
  PROVE  Connected(P \cup {n}, first, beyond)
  <1> DEFINE Q == P \cup {n}
  <1>1. \A i \in Q : i.sn \in Nat /\ i.sn <= n.sn
    BY DEF Places
  <1>2. ASSUME NEW i \in Q, \A j \in Q : i.sn <= j.sn
        PROVE  i.pos = first
    BY <1>1, <1>2 DEF Connected, Places
  <1>3. ASSUME NEW i \in Q, NEW j \in Q, i.sn < j.sn,
               \A m \in Q : m.sn <= i.sn \/ j.sn <= m.sn
        PROVE  Leads(i, j.pos)
    <2>1. i \in P
      BY <1>1, <1>3
    <2>2. CASE j \in P
      BY <1>3, <2>1, <2>2 DEF Connected
    <2>3. CASE j = n
      <3>1. \A m \in P : m.sn <= i.sn
        BY <1>1, <1>3, <2>3
      <3>2. QED
        BY <2>1, <2>3, <3>1 DEF Connected
    <2>4. QED
      BY <2>2, <2>3
  <1>4. ASSUME NEW i \in Q, \A j \in Q : j.sn <= i.sn
        PROVE  Leads(i, beyond)
    BY <1>1, <1>4
  <1>5. Q # {}
    OBVIOUS
  <1> HIDE DEF Q
  <1>6. Connected(Q, first, beyond)
    BY <1>2, <1>3, <1>4, <1>5 DEF Connected
  <1>7. QED
    BY <1>6 DEF Q

\* A squash cuts the path off before c, or behind it.
LEMMA PathCutBefore ==
  ASSUME NEW P \in SUBSET Places, NEW first, NEW target, Connected(P, first, target),
         NEW c \in P
  PROVE  Connected({i \in P : i.sn < c.sn}, first, c.pos)
  <1> DEFINE Q == {i \in P : i.sn < c.sn}
  <1>1. \A i \in P : i.sn \in Nat
    BY DEF Places
  <1>2. ASSUME Q = {}
        PROVE  c.pos = first
    <2>1. \A j \in P : c.sn <= j.sn
      BY <1>1, <1>2
    <2>2. QED
      BY <2>1 DEF Connected
  <1>3. ASSUME NEW i \in Q, \A j \in Q : i.sn <= j.sn
        PROVE  i.pos = first
    <2>1. \A j \in P : i.sn <= j.sn
      BY <1>1, <1>3
    <2>2. QED
      BY <2>1 DEF Connected
  <1>4. ASSUME NEW i \in Q, NEW j \in Q, i.sn < j.sn,
               \A m \in Q : m.sn <= i.sn \/ j.sn <= m.sn
        PROVE  Leads(i, j.pos)
    <2>1. \A m \in P : m.sn <= i.sn \/ j.sn <= m.sn
      BY <1>1, <1>4
    <2>2. QED
      BY <1>4, <2>1 DEF Connected
  <1>5. ASSUME NEW i \in Q, \A j \in Q : j.sn <= i.sn
        PROVE  Leads(i, c.pos)
    <2>1. \A m \in P : m.sn <= i.sn \/ c.sn <= m.sn
      BY <1>1, <1>5
    <2>2. QED
      BY <2>1 DEF Connected
  <1> HIDE DEF Q
  <1>6. Connected(Q, first, c.pos)
    BY <1>2, <1>3, <1>4, <1>5 DEF Connected
  <1>7. QED
    BY <1>6 DEF Q

LEMMA PathCutBehind ==
  ASSUME NEW P \in SUBSET Places, NEW first, NEW target, Connected(P, first, target),
         OneEach(P), NEW c \in P, NEW beyond, Leads(c, beyond)
  PROVE  Connected({i \in P : i.sn <= c.sn}, first, beyond)
  <1> DEFINE Q == {i \in P : i.sn <= c.sn}
  <1>1. \A i \in P : i.sn \in Nat
    BY DEF Places
  <1>2. c \in Q /\ Q # {}
    BY <1>1
  <1>3. ASSUME NEW i \in Q, \A j \in Q : i.sn <= j.sn
        PROVE  i.pos = first
    <2>1. \A j \in P : i.sn <= j.sn
      BY <1>1, <1>3
    <2>2. QED
      BY <2>1 DEF Connected
  <1>4. ASSUME NEW i \in Q, NEW j \in Q, i.sn < j.sn,
               \A m \in Q : m.sn <= i.sn \/ j.sn <= m.sn
        PROVE  Leads(i, j.pos)
    <2>1. \A m \in P : m.sn <= i.sn \/ j.sn <= m.sn
      BY <1>1, <1>4
    <2>2. QED
      BY <1>4, <2>1 DEF Connected
  <1>5. ASSUME NEW i \in Q, \A j \in Q : j.sn <= i.sn
        PROVE  Leads(i, beyond)
    <2>1. i.sn = c.sn
      BY <1>1, <1>2, <1>5
    <2>2. QED
      BY <1>2, <2>1 DEF OneEach
  <1> HIDE DEF Q
  <1>6. Connected(Q, first, beyond)
    BY <1>2, <1>3, <1>4, <1>5 DEF Connected
  <1>7. QED
    BY <1>6 DEF Q

\* What is committed comes off its front.
LEMMA PathCommitted ==
  ASSUME NEW P \in SUBSET Places, NEW first, NEW target, Connected(P, first, target),
         OneEach(P), NEW h \in P, \A i \in P : h.sn <= i.sn,
         NEW then,
         (\A i \in P : i.sn <= h.sn) => then = target,
         \A j \in P : h.sn < j.sn /\ (\A m \in P : m.sn <= h.sn \/ j.sn <= m.sn)
                        => j.pos = then
  PROVE  Connected(P \ {h}, then, target)
  <1> DEFINE Q == P \ {h}
  <1>1. \A i \in P : i.sn \in Nat
    BY DEF Places
  <1>2. \A i \in Q : h.sn < i.sn
    BY <1>1 DEF OneEach
  <1>3. ASSUME Q = {}
        PROVE  target = then
    <2>1. \A i \in P : i.sn <= h.sn
      BY <1>1, <1>3
    <2>2. QED
      BY <2>1
  <1>4. ASSUME NEW i \in Q, \A j \in Q : i.sn <= j.sn
        PROVE  i.pos = then
    <2>1. \A m \in P : m.sn <= h.sn \/ i.sn <= m.sn
      BY <1>1, <1>4
    <2>2. QED
      BY <1>2, <2>1
  <1>5. ASSUME NEW i \in Q, NEW j \in Q, i.sn < j.sn,
               \A m \in Q : m.sn <= i.sn \/ j.sn <= m.sn
        PROVE  Leads(i, j.pos)
    <2>1. \A m \in P : m.sn <= i.sn \/ j.sn <= m.sn
      BY <1>1, <1>2, <1>5
    <2>2. QED
      BY <1>5, <2>1 DEF Connected
  <1>6. ASSUME NEW i \in Q, \A j \in Q : j.sn <= i.sn
        PROVE  Leads(i, target)
    <2>1. \A j \in P : j.sn <= i.sn
      BY <1>1, <1>2, <1>6
    <2>2. QED
      BY <2>1 DEF Connected
  <1> HIDE DEF Q
  <1>7. Connected(Q, then, target)
    BY <1>3, <1>4, <1>5, <1>6 DEF Connected
  <1>8. QED
    BY <1>7 DEF Q

-----------------------------------------------------------------------------
(* What is in flight.                                                      *)

LEMMA InstsOrder ==
  ASSUME NEW s \in Seq(Inst)
  PROVE  /\ Insts(s) \subseteq Inst
         /\ Sorted(s) => \A i, j \in Insts(s) : i.sn = j.sn => i = j
         /\ \A t \in Seq(Inst) :
              Before(s, t) => \A i \in Insts(s), j \in Insts(t) : i.sn < j.sn
         /\ \A sn : NumberedBelow(s, sn) => \A i \in Insts(s) : i.sn < sn
  <1>1. /\ DOMAIN s = 1..Len(s) /\ Len(s) \in Nat
        /\ \A k \in DOMAIN s : s[k] \in Inst /\ s[k].sn \in Nat
    BY SeqTypes, InstFields
  <1>2. Insts(s) \subseteq Inst
    BY <1>1 DEF Insts
  <1>3. ASSUME Sorted(s), NEW j \in DOMAIN s, NEW k \in DOMAIN s, s[j].sn = s[k].sn
        PROVE  j = k
    BY <1>1, <1>3 DEF Sorted
  <1>4. ASSUME NEW t \in Seq(Inst), Before(s, t), NEW i \in Insts(s), NEW j \in Insts(t)
        PROVE  i.sn < j.sn
    BY <1>4 DEF Insts, Before
  <1>5. ASSUME NEW sn, NumberedBelow(s, sn), NEW i \in Insts(s)
        PROVE  i.sn < sn
    BY <1>5 DEF Insts, NumberedBelow
  <1>6. ASSUME Sorted(s), NEW i \in Insts(s), NEW j \in Insts(s), i.sn = j.sn
        PROVE  i = j
    BY <1>3, <1>6 DEF Insts
  <1>7. QED
    BY <1>2, <1>4, <1>5, <1>6

LEMMA FrontFacts ==
  ASSUME TypeOK, AgeOrder
  PROVE  /\ Front \subseteq Inst
         /\ \A i, j \in Front : i.sn = j.sn => i = j
         /\ \A i \in Front : i.sn \in Nat /\ i.sn < nextSn
         /\ \A k \in DOMAIN rob, i \in Front : rob[k].sn < i.sn
  <1>1. /\ rob \in Seq(Inst) /\ renameNow \in Seq(Inst) /\ renameNext \in Seq(Inst)
        /\ fetchQueue \in Seq(Inst) /\ nextSn \in Nat
    BY DEF TypeOK, RobType, RenameType, FrontType
  <1>2. /\ Insts(renameNow) \subseteq Inst /\ Insts(renameNext) \subseteq Inst
        /\ Insts(fetchQueue) \subseteq Inst
    BY <1>1, InstsOrder
  <1>3. Front \subseteq Inst
    BY <1>2 DEF Front
  <1>4. \A i \in Front : i.sn \in Nat /\ i.sn < nextSn
    BY <1>1, <1>2, InstsOrder, InstFields DEF Front, AgeOrder
  <1>5. \A k \in DOMAIN rob, i \in Front : rob[k].sn < i.sn
    BY DEF Front, Insts, AgeOrder, Before
  <1>6. ASSUME NEW i \in Front, NEW j \in Front, i.sn = j.sn
        PROVE  i = j
    <2>1. i.sn \in Nat /\ j.sn \in Nat
      BY <1>4
    <2>2. /\ i \in Insts(renameNow) /\ j \in Insts(renameNext) => i.sn < j.sn
          /\ j \in Insts(renameNow) /\ i \in Insts(renameNext) => j.sn < i.sn
          /\ i \in Insts(renameNow) /\ j \in Insts(fetchQueue) => i.sn < j.sn
          /\ j \in Insts(renameNow) /\ i \in Insts(fetchQueue) => j.sn < i.sn
          /\ i \in Insts(renameNext) /\ j \in Insts(fetchQueue) => i.sn < j.sn
          /\ j \in Insts(renameNext) /\ i \in Insts(fetchQueue) => j.sn < i.sn
      BY <1>1, InstsOrder DEF AgeOrder
    <2>3. /\ i \in Insts(renameNow) /\ j \in Insts(renameNow) => i = j
          /\ i \in Insts(renameNext) /\ j \in Insts(renameNext) => i = j
          /\ i \in Insts(fetchQueue) /\ j \in Insts(fetchQueue) => i = j
      BY <1>1, <1>6, InstsOrder DEF AgeOrder
    <2>4. QED
      BY <1>6, <2>1, <2>2, <2>3 DEF Front
  <1>7. QED
    BY <1>3, <1>4, <1>5, <1>6

LEMMA FlyingFacts ==
  ASSUME TypeOK, AgeOrder
  PROVE  /\ Flying \subseteq Inst
         /\ \A i, j \in Flying : i.sn = j.sn => i = j
         /\ \A i \in Flying : i.sn \in Nat /\ i.sn < nextSn
         /\ \A i \in RobLive : \A j \in Flying : j.sn <= i.sn => j \in RobLive
  <1>1. /\ rob \in Seq(Inst) /\ nextSn \in Nat
        /\ \A k \in DOMAIN rob : rob[k] \in Inst /\ rob[k].sn \in Nat /\ k \in Nat
    BY SeqTypes, InstFields DEF TypeOK, RobType, FrontType
  <1>2. /\ Front \subseteq Inst
        /\ \A i, j \in Front : i.sn = j.sn => i = j
        /\ \A i \in Front : i.sn \in Nat /\ i.sn < nextSn
        /\ \A k \in DOMAIN rob, i \in Front : rob[k].sn < i.sn
    BY FrontFacts
  <1>3. \A j, k \in DOMAIN rob : rob[j].sn = rob[k].sn => j = k
    BY <1>1 DEF AgeOrder, Sorted
  <1>4. /\ RobLive \subseteq Inst
        /\ \A i, j \in RobLive : i.sn = j.sn => i = j
        /\ \A i \in RobLive : i.sn \in Nat /\ i.sn < nextSn
        /\ \A i \in RobLive, j \in Front : i.sn < j.sn
    BY <1>1, <1>2, <1>3 DEF RobLive, AgeOrder, NumberedBelow
  <1>5. Flying \subseteq RobLive \cup Front
    BY DEF Flying
  <1>6. QED
    BY <1>2, <1>4, <1>5

\* The sequence number of an instruction in the ROB is no other's.
LEMMA OfRob ==
  ASSUME TypeOK, AgeOrder, NEW k \in DOMAIN rob
  PROVE  \A j \in Flying : j.sn = rob[k].sn => j = rob[k]
  <1>1. \A j \in DOMAIN rob : rob[j].sn \in Nat /\ j \in Nat
    BY SeqTypes, InstFields DEF TypeOK, RobType
  <1>2. \A j \in DOMAIN rob : rob[j].sn = rob[k].sn => j = k
    BY <1>1 DEF AgeOrder, Sorted
  <1>3. \A i \in Front : i.sn # rob[k].sn
    BY <1>1, FrontFacts
  <1>4. QED
    BY <1>2, <1>3 DEF Flying, RobLive

LEMMA PathFacts ==
  ASSUME TypeOK, AgeOrder
  PROVE  /\ Path \subseteq Places /\ OneEach(Path)
         /\ \A i \in Flying : Place(i) \in Path /\ Place(i).sn = i.sn
                              /\ Place(i).pos = i.pos
  <1>1. \A i \in Flying : /\ i \in Inst /\ i.sn \in Nat /\ i.pos \in Nat
                          /\ i.mispred \in BOOLEAN /\ i.fault \in BOOLEAN
    BY FlyingFacts, InstFields
  <1>2. \A i \in Flying : Place(i) \in Places /\ Place(i).sn = i.sn /\ Place(i).pos = i.pos
    BY <1>1 DEF Place, Places
  <1>3. \A i, j \in Flying : i.sn = j.sn => i = j
    BY FlyingFacts
  <1>4. QED
    BY <1>2, <1>3 DEF Path, OneEach

-----------------------------------------------------------------------------
(* Steps after which the same instructions are in flight.                  *)

Alike(i, j) ==
  /\ j.sn = i.sn /\ j.pos = i.pos /\ j.kind = i.kind /\ j.mispred = i.mispred
  /\ i.kind = "pagefault" => j.fault = i.fault

\* What InstsTrue says of one instruction.
True(i) ==
  /\ TrueToProgram(i) /\ Redirects(iewNext, i)
  /\ phase \in Unread => Redirects(iewNow, i)

Continues ==
  /\ \A i \in Flying : \E j \in Flying' : Alike(i, j) /\ (Unresolved(i) => Unresolved(j)')
  /\ \A j \in Flying' : \E i \in Flying : Alike(i, j) /\ True(j)'

ProgressInv == InProgramOrder /\ WrongPathEnds /\ InstsTrue

LEMMA AlikePlace ==
  ASSUME NEW i, NEW j, Alike(i, j)
  PROVE  Place(i) = Place(j)
  BY DEF Alike, Place

LEMMA Continued ==
  ASSUME ProgressInv, Proceeding, Continues, prog' = prog, pc' = pc, Target' = Target
  PROVE  ProgressInv'
  <1>2. Path' = Path
    BY AlikePlace DEF Path, Continues
  <1>3. InProgramOrder'
    BY <1>2 DEF ProgressInv, InProgramOrder, Connected, Leads, EndOfProgram
  <1>4. ASSUME NEW j \in Flying', j.pos = 0
        PROVE  \E m \in Flying' : m.sn < j.sn /\ Unresolved(m)'
    <2>1. PICK i \in Flying : Alike(i, j)
      BY DEF Continues
    <2>2. PICK m \in Flying : m.sn < i.sn /\ Unresolved(m)
      BY <1>4, <2>1 DEF ProgressInv, WrongPathEnds, Alike
    <2>3. PICK n \in Flying' : Alike(m, n) /\ Unresolved(n)'
      BY <2>2 DEF Continues
    <2>4. QED
      BY <2>1, <2>2, <2>3 DEF Alike
  <1>5. ASSUME Target' = 0
        PROVE  \E m \in Flying' : Unresolved(m)'
    <2>1. PICK m \in Flying : Unresolved(m)
      BY <1>5 DEF ProgressInv, WrongPathEnds
    <2>2. QED
      BY <2>1 DEF Continues
  <1>6. WrongPathEnds'
    BY <1>4, <1>5 DEF WrongPathEnds
  <1>7. InstsTrue'
    BY DEF Continues, InstsTrue, True
  <1>8. QED
    BY <1>3, <1>6, <1>7 DEF ProgressInv

LEMMA SameContinues ==
  ASSUME InstsTrue, Proceeding, Flying' = Flying, mem' \subseteq mem,
         UNCHANGED <<prog, faults, iewNext, iewNow>>,
         phase' \in Unread => phase \in Unread,
         \A i \in Flying : Unresolved(i) => Unresolved(i)'
  PROVE  Continues
  <1>1. ASSUME NEW i \in Flying
        PROVE  Alike(i, i) /\ True(i)'
    <2>1. True(i)
      BY <1>1 DEF InstsTrue, True
    <2>2. TrueToProgram(i)'
      BY <2>1 DEF True, TrueToProgram, FaultKnown, Finished, InFlight
    <2>3. QED
      BY <2>1, <2>2 DEF True, Alike
  <1>2. QED
    BY <1>1 DEF Continues

LEMMA QuietContinues ==
  ASSUME InstsTrue, Proceeding, Flying' = Flying, mem' \subseteq mem,
         UNCHANGED <<prog, faults, iewNext, iewNow>>,
         phase \in Unread <=> phase' \in Unread
  PROVE  Continues
  <1>1. \A i \in Flying : Unresolved(i) => Unresolved(i)'
    BY DEF Unresolved
  <1>2. QED
    BY <1>1, SameContinues

LEMMA RobLiveKept ==
  ASSUME DOMAIN rob' = DOMAIN rob,
         \A k \in DOMAIN rob : /\ RobDead(k)' <=> RobDead(k)
                               /\ ~RobDead(k) => rob'[k] = rob[k]
  PROVE  RobLive' = RobLive
  BY DEF RobLive

LEMMA SameRob ==
  ASSUME UNCHANGED <<rob, squashIt, squashTo, status, youngestSeqNum>>
  PROVE  RobLive' = RobLive /\ \A k \in DOMAIN rob : RobDead(k)' <=> RobDead(k)
  <1>1. \A k \in DOMAIN rob : RobDead(k)' <=> RobDead(k)
    BY DEF RobDead, ToBeMarked
  <1>2. QED
    BY <1>1, RobLiveKept

LEMMA SameFront ==
  ASSUME UNCHANGED <<renameNow, renameNext, fetchQueue>>
  PROVE  Front' = Front
  BY DEF Front, Insts

\* The steps of a cycle that only hand on the turn.
Quiet ==
  \/ \E sn \in mem : LLLReturn(sn)
  \/ \E sn \in deadlines : DeadlineEvent(sn)
  \/ ProcessTrapEvent \/ StartTick \/ IewDone \/ SelectNothing \/ StopCommit

LEMMA QuietChange ==
  ASSUME Quiet
  PROVE  /\ UNCHANGED <<rob, squashIt, squashTo, status, youngestSeqNum, renameNow,
                        renameNext, fetchQueue, fetchPc, nextSn, pc, prog, faults,
                        iewNext, iewNow, inRunahead, storedPc>>
         /\ mem' \subseteq mem
         /\ phase \in Unread <=> phase' \in Unread
         /\ FrontDead' = FrontDead /\ (FrontDead => sig' = sig)
         /\ RangeAfterSignal' = RangeAfterSignal
  <1>1. CASE \/ \E sn \in mem : LLLReturn(sn)
             \/ \E sn \in deadlines : DeadlineEvent(sn)
             \/ ProcessTrapEvent
    BY <1>1 DEF LLLReturn, DeadlineEvent, ProcessTrapEvent, robVars, commitVars,
       renameVars, frontVars, iewVars, modeVars, trapVars, FrontDead, RangeAfterSignal
  <1>2. CASE StartTick \/ SelectNothing \/ StopCommit
    BY <1>2 DEF StartTick, SelectNothing, StopCommit, robVars, commitVars, Unread,
       renameVars, frontVars, iewVars, modeVars, trapVars, FrontDead, RangeAfterSignal
  <1>3. CASE IewDone
    BY <1>3 DEF IewDone, robVars, commitVars, Unread, NoSig,
       renameVars, frontVars, iewVars, modeVars, trapVars, FrontDead, RangeAfterSignal
  <1>4. QED
    BY <1>1, <1>2, <1>3 DEF Quiet

LEMMA QuietFlying ==
  ASSUME Quiet
  PROVE  Flying' = Flying /\ Target' = Target
  <1>1. RobLive' = RobLive /\ Front' = Front
    BY QuietChange, SameRob, SameFront
  <1>2. QED
    BY <1>1, QuietChange DEF Flying, Target

LEMMA QuietProgress ==
  ASSUME ProgressInv, Proceeding, Quiet
  PROVE  ProgressInv'
  <1>1. Continues
    BY QuietChange, QuietFlying, QuietContinues DEF ProgressInv
  <1>2. QED
    BY <1>1, QuietChange, QuietFlying, Continued

-----------------------------------------------------------------------------
(* Steps that change the instructions in the ROB where they are.           *)

LEMMA StaysTrue ==
  ASSUME NEW i, True(i), UNCHANGED <<prog, faults, iewNow>>,
         phase' \in Unread => phase \in Unread,
         i.sn \in mem' => i.sn \in mem,
         i.sn \in iewNext'.insts => i.sn \in iewNext.insts, Redirects(iewNext', i)
  PROVE  True(i)'
  <1>1. TrueToProgram(i)'
    BY DEF True, TrueToProgram, FaultKnown, Finished, InFlight
  <1>2. QED
    BY <1>1 DEF True

LEMMA StaysUnresolved ==
  ASSUME NEW i, Unresolved(i), i.sn \in Nat, iewNow' = iewNow,
         phase \in Unread => phase' \in Unread,
         iewNext.sn \in Nat, iewNext'.sn \in Nat,
         iewNext.squash => iewNext'.squash /\ iewNext'.sn <= iewNext.sn
  PROVE  Unresolved(i)'
  <1>1. iewNext.squash /\ iewNext.sn <= i.sn => iewNext'.squash /\ iewNext'.sn <= i.sn
    OBVIOUS
  <1>2. QED
    BY <1>1 DEF Unresolved

LEMMA RobContinues ==
  ASSUME DOMAIN rob' = DOMAIN rob, Front' = Front, FrontDead' = FrontDead,
         \A k \in DOMAIN rob :
           /\ RobDead(k)' <=> RobDead(k)
           /\ ~RobDead(k) => /\ Alike(rob[k], rob'[k]) /\ True(rob[k])'
                             /\ Unresolved(rob[k]) => Unresolved(rob[k])',
         ~FrontDead => \A i \in Front : /\ True(i)'
                                        /\ Unresolved(i) => Unresolved(i)'
  PROVE  Continues
  <1>1. ASSUME NEW i \in Flying
        PROVE  \E j \in Flying' : Alike(i, j) /\ (Unresolved(i) => Unresolved(j)')
    <2>1. CASE i \in RobLive
      <3>1. PICK k \in DOMAIN rob : ~RobDead(k) /\ i = rob[k]
        BY <2>1 DEF RobLive
      <3>2. rob'[k] \in Flying'
        BY <3>1 DEF Flying, RobLive
      <3>3. QED
        BY <3>1, <3>2
    <2>2. CASE i \in Front /\ ~FrontDead
      BY <2>2 DEF Flying, Alike
    <2>3. QED
      BY <2>1, <2>2 DEF Flying
  <1>2. ASSUME NEW j \in Flying'
        PROVE  \E i \in Flying : Alike(i, j) /\ True(j)'
    <2>1. CASE j \in RobLive'
      <3>1. PICK k \in DOMAIN rob : ~RobDead(k) /\ j = rob'[k]
        BY <2>1 DEF RobLive
      <3>2. rob[k] \in Flying
        BY <3>1 DEF Flying, RobLive
      <3>3. QED
        BY <3>1, <3>2
    <2>2. CASE j \in Front /\ ~FrontDead
      BY <2>2 DEF Flying, Alike
    <2>3. QED
      BY <2>1, <2>2 DEF Flying
  <1>3. QED
    BY <1>1, <1>2 DEF Continues

\* One instruction changes and IEW tells commit of it.
LEMMA OneContinues ==
  ASSUME TypeOK, AgeOrder, ProgressInv, Proceeding,
         NEW k \in DOMAIN rob, NEW inst \in Inst, rob' = [rob EXCEPT ![k] = inst],
         inst.sn = rob[k].sn, RobDead(k)' <=> RobDead(k),
         UNCHANGED <<squashIt, squashTo, status, youngestSeqNum, renameNow, renameNext,
                     fetchQueue, phase, sig, prog, faults, iewNow>>,
         iewNext' \in IewMsg,
         iewNext.squash => iewNext'.squash /\ iewNext'.sn <= iewNext.sn,
         iewNext'.insts \subseteq iewNext.insts \cup {inst.sn},
         mem' \subseteq mem \cup {inst.sn},
         \A i \in Flying : Redirects(iewNext', i),
         ~RobDead(k) => /\ Alike(rob[k], inst) /\ True(inst)'
                        /\ Unresolved(rob[k]) => Unresolved(inst)'
  PROVE  Continues
  <1>1. /\ rob \in Seq(Inst) /\ iewNext.sn \in Nat /\ iewNext'.sn \in Nat
        /\ \A j \in DOMAIN rob : rob[j].sn \in Nat /\ j \in Nat
    BY SeqTypes, InstFields DEF TypeOK, RobType, IewType, IewMsg
  <1>2. /\ DOMAIN rob' = DOMAIN rob /\ rob'[k] = inst
        /\ \A j \in DOMAIN rob : j # k => rob'[j] = rob[j]
    BY <1>1
  <1>3. \A j \in DOMAIN rob : j # k => rob[j].sn # inst.sn
    BY <1>1 DEF AgeOrder, Sorted
  <1>4. \A i \in Front : i.sn # inst.sn /\ i.sn \in Nat
    BY <1>1, FrontFacts
  <1>5. ASSUME NEW i \in Flying, i.sn # inst.sn, i.sn \in Nat
        PROVE  True(i)' /\ (Unresolved(i) => Unresolved(i)')
    <2>1. True(i)
      BY DEF ProgressInv, InstsTrue, True
    <2>2. True(i)'
      BY <1>5, <2>1, StaysTrue
    <2>3. QED
      BY <1>1, <1>5, <2>2, StaysUnresolved
  <1>6. ASSUME NEW j \in DOMAIN rob
        PROVE  /\ RobDead(j)' <=> RobDead(j)
               /\ ~RobDead(j) => /\ Alike(rob[j], rob'[j]) /\ True(rob[j])'
                                 /\ Unresolved(rob[j]) => Unresolved(rob[j])'
    <2>1. CASE j = k
      BY <1>2, <2>1
    <2>2. CASE j # k
      <3>1. RobDead(j)' <=> RobDead(j)
        BY <1>2, <2>2 DEF RobDead, ToBeMarked
      <3>2. ASSUME ~RobDead(j)
            PROVE  /\ Alike(rob[j], rob'[j]) /\ True(rob[j])'
                   /\ Unresolved(rob[j]) => Unresolved(rob[j])'
        <4>1. PICK i : i = rob[j]
          OBVIOUS
        <4>2. i \in Flying /\ i.sn # inst.sn /\ i.sn \in Nat
          BY <1>1, <1>3, <2>2, <3>2, <4>1 DEF Flying, RobLive
        <4>3. True(i)' /\ (Unresolved(i) => Unresolved(i)')
          BY <1>5, <4>2
        <4>4. i = rob'[j]
          BY <1>2, <2>2, <4>1
        <4>5. QED
          BY <4>1, <4>3, <4>4 DEF Alike
      <3>3. QED
        BY <3>1, <3>2
    <2>3. QED
      BY <2>1, <2>2
  <1>7. ASSUME ~FrontDead, NEW i \in Front
        PROVE  True(i)' /\ (Unresolved(i) => Unresolved(i)')
    BY <1>4, <1>5, <1>7 DEF Flying
  <1>8. Front' = Front /\ FrontDead' = FrontDead
    BY SameFront DEF FrontDead
  <1>9. QED
    BY <1>2, <1>6, <1>7, <1>8, RobContinues

-----------------------------------------------------------------------------
(* Execution.                                                              *)

LEMMA LiveIsNormal ==
  ASSUME StaleInRob, PoisonIsRunahead, ~inRunahead, NEW k \in DOMAIN rob, ~RobDead(k)
  PROVE  ~rob[k].runahead /\ ~rob[k].poisoned /\ ~rob[k].squashed
  BY DEF StaleInRob, PoisonIsRunahead, RobDead

\* An instruction on the correct path that is no fault has none to report.
LEMMA NoFault ==
  ASSUME ProgramSane, NEW i, TrueToProgram(i), i.pos # 0,
         i.kind \notin {"fault", "pagefault"}
  PROVE  i.pos \notin faults
  BY DEF ProgramSane, Faulting, TrueToProgram

\* The ROB where IEW skips or completes the instruction at k.
LEMMA SquashFlagKept ==
  ASSUME NEW k \in DOMAIN rob, NEW inst, rob' = [rob EXCEPT ![k] = inst],
         inst.sn = rob[k].sn, inst.squashed = rob[k].squashed,
         UNCHANGED <<squashIt, squashTo, status, youngestSeqNum>>
  PROVE  RobDead(k)' <=> RobDead(k)
  <1>1. DOMAIN rob' = DOMAIN rob /\ rob'[k] = inst
    OBVIOUS
  <1>2. QED
    BY <1>1 DEF RobDead, ToBeMarked

\* What an execution that finishes an instruction has to show.
LEMMA CompleteContinues ==
  ASSUME TypeOK, AgeOrder, ProgressInv, ProgramSane, Proceeding,
         NEW k \in DOMAIN rob, rob[k].state = "waiting",
         NEW inst \in Inst, NEW msg \in IewMsg, Complete(k, inst, msg),
         inst.sn = rob[k].sn, inst.squashed = rob[k].squashed,
         UNCHANGED <<squashIt, squashTo, status, youngestSeqNum, renameNow, renameNext,
                     fetchQueue, phase, sig, prog, faults, iewNow, mem>>,
         phase = "iew",
         msg.insts = iewNext.insts,
         iewNext.squash => msg.squash /\ msg.sn <= iewNext.sn,
         \A i \in Flying : Redirects(msg, i),
         ~RobDead(k) =>
           /\ inst.pos = rob[k].pos /\ inst.kind = rob[k].kind
           /\ inst.mispred = rob[k].mispred
           /\ inst.fault = (rob[k].fault \/ FaultsAtExecute(rob[k]))
           /\ inst.mispred => msg.squash /\ msg.sn <= inst.sn
  PROVE  Continues
  <1> DEFINE new == [inst EXCEPT !.state = "executed"]
  <1>1. /\ new \in Inst /\ new.sn = inst.sn /\ new.pos = inst.pos
        /\ new.kind = inst.kind /\ new.mispred = inst.mispred
        /\ new.fault = inst.fault /\ new.squashed = inst.squashed
        /\ new.state = "executed"
    BY DEF Inst, States
  <1>2. rob' = [rob EXCEPT ![k] = new]
    BY DEF Complete
  <1>3. /\ iewNext' \in IewMsg /\ iewNext'.insts = msg.insts \cup {inst.sn}
        /\ iewNext'.squash = msg.squash /\ iewNext'.sn = msg.sn
        /\ iewNext'.include = msg.include /\ iewNext'.pc = msg.pc
    BY InstFields DEF Complete, IewMsg
  <1> HIDE DEF new
  <1>4. RobDead(k)' <=> RobDead(k)
    BY <1>1, <1>2, SquashFlagKept
  <1>5. \A i \in Flying : Redirects(iewNext', i)
    BY <1>3 DEF Redirects
  <1>6. ASSUME ~RobDead(k)
        PROVE  /\ Alike(rob[k], new) /\ True(new)'
               /\ Unresolved(rob[k]) => Unresolved(new)'
    <2>1. rob[k] \in Flying /\ rob[k] \in Inst
      BY <1>6, SeqTypes DEF Flying, RobLive, TypeOK, RobType
    <2>2. PICK i \in Inst : i = rob[k] /\ True(i) /\ i.state = "waiting" /\ i \in Flying
      BY <2>1 DEF ProgressInv, InstsTrue, True
    <2>3. /\ new.sn = i.sn /\ new.pos = i.pos /\ new.kind = i.kind
          /\ new.mispred = i.mispred /\ new.fault = (i.fault \/ FaultsAtExecute(i))
      BY <1>1, <1>6, <2>2
    <2>4. i.fault \in BOOLEAN /\ i.sn \in Nat /\ i.pos \in Nat
      BY InstFields
    <2>5. Alike(i, new)
      BY <2>3, <2>4 DEF Alike, FaultsAtExecute
    <2>6. ~Finished(i) /\ i.sn \notin iewNow.insts
      BY <2>2 DEF Finished, True, TrueToProgram
    <2>7. Redirects(iewNext', new)
      BY <1>5, <2>2, <2>3 DEF Redirects, BranchTarget
    <2>8. phase \in Unread => Redirects(iewNow, new)
      BY <2>2, <2>3 DEF True, Redirects, BranchTarget
    <2>9. new.pos # 0 => /\ new.fault => new.pos \in faults
                         /\ new.pos \in faults => new.fault
      <3>1. CASE i.kind \notin {"fault", "pagefault"} /\ i.pos # 0
        BY <2>2, <2>3, <2>4, <3>1, NoFault DEF True, TrueToProgram, FaultsAtExecute
      <3>2. CASE i.kind = "fault" /\ i.pos # 0
        BY <2>2, <2>3, <2>4, <3>2 DEF True, TrueToProgram, FaultsAtExecute
      <3>3. CASE i.kind = "pagefault" /\ i.pos # 0
        BY <2>2, <2>3, <2>4, <3>3 DEF True, TrueToProgram, FaultsAtExecute, FaultKnown
      <3>4. QED
        BY <2>3, <3>1, <3>2, <3>3
    <2>10. TrueToProgram(new)'
      BY <1>1, <2>2, <2>3, <2>9 DEF True, TrueToProgram, Finished, InFlight, FaultKnown
    <2>11. True(new)'
      BY <2>7, <2>8, <2>10 DEF True
    <2>12. new.mispred => Unresolved(new)'
      BY <1>1, <1>3, <1>6, <2>2, <2>3, <2>6 DEF Unresolved
    <2>13. QED
      BY <2>2, <2>3, <2>5, <2>11, <2>12 DEF Unresolved
  <1>7. QED
    BY <1>1, <1>2, <1>3, <1>4, <1>5, <1>6, OneContinues

\* The message after a squash was asked for in this cycle.
LEMMA SquashMessage ==
  ASSUME TypeOK, InstsTrue, Proceeding, NEW i \in Inst, NEW include \in BOOLEAN,
         NEW msg, msg = WithSquash(i.sn, include, IF include THEN i.pos ELSE BranchTarget(i)),
         include \/ i.mispred,
         \A j \in Flying : j.sn = i.sn => j = i
  PROVE  /\ msg \in IewMsg /\ msg.insts = iewNext.insts
         /\ msg.squash /\ msg.sn <= i.sn
         /\ iewNext.squash => msg.sn <= iewNext.sn
         /\ \A j \in Flying : Redirects(msg, j)
  <1>1. /\ i.sn \in Nat /\ i.pos \in Nat /\ BranchTarget(i) \in Nat
        /\ iewNext \in IewMsg /\ iewNext.sn \in Nat
    BY InstFields DEF BranchTarget, TypeOK, IewType, IewMsg
  <1>2. msg \in IewMsg
    BY <1>1, WithSquashType
  <1>3. CASE iewNext.squash /\ iewNext.sn < i.sn
    <2>1. msg = iewNext
      BY <1>3 DEF WithSquash
    <2>2. QED
      BY <1>1, <1>2, <1>3, <2>1 DEF InstsTrue
  <1>4. CASE ~(iewNext.squash /\ iewNext.sn < i.sn)
    <2>1. /\ msg.insts = iewNext.insts /\ msg.squash /\ msg.sn = i.sn
          /\ msg.include = include
          /\ msg.pc = IF include THEN i.pos ELSE BranchTarget(i)
      BY <1>1, <1>4 DEF WithSquash, IewMsg
    <2>2. \A j \in Flying : Redirects(msg, j)
      BY <2>1 DEF Redirects
    <2>3. QED
      BY <1>1, <1>2, <1>4, <2>1, <2>2
  <1>5. QED
    BY <1>3, <1>4

LEMMA IewContinues ==
  ASSUME TypeOK, AgeOrder, StaleInRob, RangeDead, PoisonIsRunahead, ProgramSane,
         ProgressInv, Proceeding, NEW k \in DOMAIN rob, IewStep(k), phase = "iew",
         UNCHANGED <<squashIt, squashTo, status, youngestSeqNum, renameNow, renameNext,
                     fetchQueue, phase, sig, prog, faults, iewNow>>
  PROVE  Continues
  <1>1. /\ rob \in Seq(Inst) /\ rob[k] \in Inst /\ rob[k].sn \in Nat
        /\ rob[k].mispred \in BOOLEAN /\ rob[k].fault \in BOOLEAN
        /\ iewNext \in IewMsg /\ iewNext.sn \in Nat /\ iewNext' \in IewMsg
    BY SeqTypes, InstFields, IewStepType DEF TypeOK, RobType, IewType, IewMsg
  <1>2. \A i \in Flying : Redirects(iewNext, i)
    BY DEF ProgressInv, InstsTrue
  <1>3. ~RobDead(k) => TrueToProgram(rob[k]) /\ ~rob[k].runahead /\ ~rob[k].squashed
    BY LiveIsNormal DEF Flying, RobLive, ProgressInv, InstsTrue, Proceeding
  <1>4. CASE SkipSquashed(k)
    <2>1. RobDead(k)
      BY <1>3, <1>4 DEF SkipSquashed, SquashedForIew, RangeDead
    <2>2. PICK inst \in Inst : /\ inst.sn = rob[k].sn /\ inst.squashed
                               /\ rob' = [rob EXCEPT ![k] = inst]
      BY ZenonT(60), <1>1, <1>4, InstUpdates DEF SkipSquashed, Inst
    <2>3. /\ mem' \subseteq mem \cup {inst.sn} /\ iewNext' = iewNext
          /\ iewNext'.insts \subseteq iewNext.insts \cup {inst.sn}
          /\ iewNext.squash => iewNext'.squash /\ iewNext'.sn <= iewNext.sn
          /\ \A i \in Flying : Redirects(iewNext', i)
      BY <1>1, <1>2, <1>4 DEF SkipSquashed
    <2>4. RobDead(k)' <=> RobDead(k)
      BY <2>1, <2>2 DEF RobDead
    <2>5. QED
      BY <1>1, <2>1, <2>2, <2>3, <2>4, OneContinues
  <1>5. CASE ExecutePoisoned(k)
    <2>1. RobDead(k)
      BY <1>3, <1>5 DEF ExecutePoisoned
    <2>2. PICK inst \in Inst : /\ inst.sn = rob[k].sn /\ inst.squashed = rob[k].squashed
                               /\ Complete(k, inst, iewNext)
      BY ZenonT(60), <1>1, <1>5, InstUpdates DEF ExecutePoisoned, Inst
    <2>3. mem' = mem /\ rob[k].state = "waiting"
      BY <1>5 DEF ExecutePoisoned, Issued
    <2>4. iewNext.squash => iewNext.sn <= iewNext.sn
      BY <1>1
    <2>5. QED
      BY <1>1, <1>2, <2>1, <2>2, <2>3, <2>4, CompleteContinues
  <1>6. CASE ExecuteShort(k)
    <2>1. PICK inst \in Inst : inst = [rob[k] EXCEPT !.fault = @ \/ FaultsAtExecute(rob[k])]
      BY <1>1, InstUpdates
    <2>2. /\ inst.sn = rob[k].sn /\ inst.squashed = rob[k].squashed
          /\ inst.pos = rob[k].pos /\ inst.kind = rob[k].kind
          /\ inst.mispred = rob[k].mispred
          /\ inst.fault = (rob[k].fault \/ FaultsAtExecute(rob[k]))
      BY <1>1, <2>1 DEF Inst
    <2>3. /\ Complete(k, inst, iewNext) /\ mem' = mem /\ rob[k].state = "waiting"
          /\ rob[k].kind # "branch"
      BY <1>6, <2>1 DEF ExecuteShort, Issued
    <2>4. ~RobDead(k) => ~inst.mispred
      BY <1>3, <2>2, <2>3 DEF TrueToProgram
    <2>5. QED
      BY <1>1, <1>2, <2>2, <2>3, <2>4, CompleteContinues
  <1>7. CASE SendLoad(k)
    <2>0. rob[k].kind = "load" /\ rob[k].state = "waiting" /\ iewNext' = iewNext
      BY <1>7 DEF SendLoad, Issued
    <2>1. PICK inst \in Inst :
            /\ inst.sn = rob[k].sn /\ inst.squashed = rob[k].squashed
            /\ inst.pos = rob[k].pos /\ inst.kind = "load"
            /\ inst.mispred = rob[k].mispred /\ inst.fault = rob[k].fault
            /\ inst.state \in {"old", "sent"} /\ rob' = [rob EXCEPT ![k] = inst]
            /\ mem' = mem \cup {inst.sn}
      <3>1. PICK st \in {"old", "sent"} : /\ rob' = [rob EXCEPT ![k].state = st]
                                         /\ mem' = mem \cup {rob[k].sn}
        BY <1>7 DEF SendLoad
      <3>2. st \in States
        BY DEF States
      <3>3. [rob[k] EXCEPT !.state = st] \in Inst
        BY <1>1, <3>2, InstUpdates
      <3>4. /\ [rob[k] EXCEPT !.state = st].sn = rob[k].sn
            /\ [rob[k] EXCEPT !.state = st].squashed = rob[k].squashed
            /\ [rob[k] EXCEPT !.state = st].pos = rob[k].pos
            /\ [rob[k] EXCEPT !.state = st].kind = rob[k].kind
            /\ [rob[k] EXCEPT !.state = st].mispred = rob[k].mispred
            /\ [rob[k] EXCEPT !.state = st].fault = rob[k].fault
            /\ [rob[k] EXCEPT !.state = st].state = st
        BY <1>1 DEF Inst
      <3>5. QED
        BY <2>0, <3>1, <3>3, <3>4
    <2>2. /\ iewNext'.insts \subseteq iewNext.insts \cup {inst.sn}
          /\ iewNext.squash => iewNext'.squash /\ iewNext'.sn <= iewNext.sn
          /\ \A i \in Flying : Redirects(iewNext', i)
      BY <1>1, <1>2, <2>0
    <2>3. RobDead(k)' <=> RobDead(k)
      BY <2>1, SquashFlagKept
    <2>4. ASSUME ~RobDead(k)
          PROVE  /\ Alike(rob[k], inst) /\ True(inst)'
                 /\ Unresolved(rob[k]) => Unresolved(inst)'
      <3>1. PICK i \in Inst : i = rob[k] /\ True(i) /\ i.state = "waiting" /\ i.kind = "load"
        BY <1>1, <2>0, <2>4 DEF ProgressInv, InstsTrue, True, Flying, RobLive
      <3>2. ~i.mispred /\ ~Unresolved(i)
        BY <3>1 DEF True, TrueToProgram, Unresolved
      <3>3. Alike(i, inst)
        BY <2>1, <3>1 DEF Alike
      <3>4. TrueToProgram(inst)'
        BY <2>0, <2>1, <3>1 DEF True, TrueToProgram, Finished, InFlight, FaultKnown
      <3>5. Redirects(iewNext', inst) /\ (phase \in Unread => Redirects(iewNow, inst))
        BY <2>0, <2>1, <3>1 DEF True, Redirects, BranchTarget
      <3>6. QED
        BY <3>1, <3>2, <3>3, <3>4, <3>5 DEF True
    <2>5. mem' \subseteq mem \cup {inst.sn}
      BY <2>1
    <2>6. QED
      BY <1>1, <2>1, <2>2, <2>3, <2>4, <2>5, OneContinues
  <1>8. CASE ExecuteBranch(k)
    <2>1. rob[k].state = "waiting" /\ mem' = mem /\ rob[k].kind = "branch"
      BY <1>8 DEF ExecuteBranch, Issued
    <2>2. PICK msg : /\ Complete(k, rob[k], msg)
                     /\ msg = IF rob[k].mispred
                              THEN WithSquash(rob[k].sn, FALSE, BranchTarget(rob[k]))
                              ELSE iewNext
      BY <1>8 DEF ExecuteBranch
    <2>3. ~RobDead(k) => rob[k].fault = (rob[k].fault \/ FaultsAtExecute(rob[k]))
      BY <1>1, <2>1 DEF FaultsAtExecute
    <2>4. CASE ~rob[k].mispred
      BY <1>1, <1>2, <2>1, <2>2, <2>3, <2>4, CompleteContinues
    <2>5. CASE rob[k].mispred
      <3>1. \A j \in Flying : j.sn = rob[k].sn => j = rob[k]
        BY OfRob
      <3>2. /\ msg \in IewMsg /\ msg.insts = iewNext.insts
            /\ msg.squash /\ msg.sn <= rob[k].sn
            /\ iewNext.squash => msg.sn <= iewNext.sn
            /\ \A j \in Flying : Redirects(msg, j)
        BY <1>1, <2>2, <2>5, <3>1, SquashMessage DEF ProgressInv
      <3>3. QED
        BY <1>1, <2>1, <2>2, <2>3, <3>2, CompleteContinues
    <2>6. QED
      BY <1>1, <2>4, <2>5
  <1>9. CASE ExecuteStore(k)
    <2>1. rob[k].state = "waiting" /\ mem' = mem /\ rob[k].kind = "store"
      BY <1>9 DEF ExecuteStore, Issued
    <2>2. ~RobDead(k) => /\ rob[k].fault = (rob[k].fault \/ FaultsAtExecute(rob[k]))
                         /\ ~rob[k].mispred
      BY <1>1, <1>3, <2>1 DEF FaultsAtExecute, TrueToProgram
    <2>3. CASE Complete(k, rob[k], iewNext)
      BY <1>1, <1>2, <2>1, <2>2, <2>3, CompleteContinues
    <2>4. ASSUME NEW j \in Violators(k),
                 Complete(k, rob[k], WithSquash(rob[j].sn, TRUE, rob[j].pos))
          PROVE  Continues
      <3>1. j \in DOMAIN rob /\ rob[j] \in Inst
        BY <1>1, SeqTypes DEF Violators
      <3>2. \A i \in Flying : i.sn = rob[j].sn => i = rob[j]
        BY <3>1, OfRob
      <3>3. PICK msg : msg = WithSquash(rob[j].sn, TRUE, rob[j].pos)
        OBVIOUS
      <3>4. /\ msg \in IewMsg /\ msg.insts = iewNext.insts /\ msg.squash
            /\ iewNext.squash => msg.sn <= iewNext.sn
            /\ \A i \in Flying : Redirects(msg, i)
        BY <1>1, <3>1, <3>2, <3>3, SquashMessage DEF ProgressInv
      <3>5. QED
        BY <1>1, <2>1, <2>2, <2>4, <3>3, <3>4, CompleteContinues
    <2>5. QED
      BY <1>9, <2>3, <2>4 DEF ExecuteStore
  <1>10. QED
    BY <1>4, <1>5, <1>6, <1>7, <1>8, <1>9 DEF IewStep

-----------------------------------------------------------------------------
(* Memory's answers, and the end of the cycle.                             *)

LEMMA WriteBackContinues ==
  ASSUME TypeOK, AgeOrder, ProgressInv, ProgramSane, Proceeding,
         NEW K \in SUBSET DOMAIN rob, WriteBackLoads(K),
         \A k \in K : ~RobDead(k) => rob[k].kind = "load",
         UNCHANGED <<squashIt, squashTo, status, youngestSeqNum, renameNow, renameNext,
                     fetchQueue, phase, sig, prog, faults, iewNow>>,
         mem' \subseteq mem
  PROVE  Continues
  <1>1. /\ rob \in Seq(Inst) /\ iewNext \in IewMsg /\ iewNext' \in IewMsg
        /\ \A j \in DOMAIN rob : rob[j] \in Inst /\ rob[j].sn \in Nat /\ j \in Nat
    BY SeqTypes, InstFields, WriteBackType DEF TypeOK, RobType, IewType
  <1>2. /\ iewNext'.insts = iewNext.insts \cup {rob[k].sn : k \in K}
        /\ iewNext'.squash = iewNext.squash /\ iewNext'.sn = iewNext.sn
        /\ iewNext'.include = iewNext.include /\ iewNext'.pc = iewNext.pc
    BY <1>1 DEF WriteBackLoads, IewMsg
  <1>3. iewNext.sn \in Nat /\ iewNext'.sn \in Nat
    BY <1>1 DEF IewMsg
  <1>4. /\ DOMAIN rob' = DOMAIN rob
        /\ \A j \in DOMAIN rob : j \notin K => rob'[j] = rob[j]
        /\ \A j \in K : rob'[j] = [rob[j] EXCEPT !.state = "executed"]
    BY DEF WriteBackLoads
  <1>5. ASSUME NEW j \in DOMAIN rob
        PROVE  rob'[j].squashed = rob[j].squashed /\ rob'[j].sn = rob[j].sn
    <2>1. [rob[j] EXCEPT !.state = "executed"].squashed = rob[j].squashed
      BY <1>1 DEF Inst
    <2>2. [rob[j] EXCEPT !.state = "executed"].sn = rob[j].sn
      BY <1>1 DEF Inst
    <2>3. QED
      BY <1>4, <2>1, <2>2
  <1>6. \A j \in DOMAIN rob : RobDead(j)' <=> RobDead(j)
    BY <1>4, <1>5 DEF RobDead, ToBeMarked
  <1>7. \A i \in Flying : Redirects(iewNext', i)
    BY <1>2 DEF Redirects, ProgressInv, InstsTrue
  <1>8. ASSUME NEW i \in Flying, i.sn \in Nat, \A k \in K : i.sn # rob[k].sn
        PROVE  True(i)' /\ (Unresolved(i) => Unresolved(i)')
    <2>1. True(i)
      BY DEF ProgressInv, InstsTrue, True
    <2>2. Redirects(iewNext', i) /\ (i.sn \in iewNext'.insts => i.sn \in iewNext.insts)
      BY <1>2, <1>7, <1>8
    <2>3. True(i)'
      BY <2>1, <2>2, StaysTrue
    <2>4. QED
      BY <1>2, <1>3, <1>8, <2>3, StaysUnresolved
  <1>9. ASSUME NEW j \in DOMAIN rob, ~RobDead(j)
        PROVE  /\ Alike(rob[j], rob'[j]) /\ True(rob[j])'
               /\ Unresolved(rob[j]) => Unresolved(rob[j])'
    <2>1. PICK i \in Inst : i = rob[j] /\ i \in Flying
      BY <1>1, <1>9 DEF Flying, RobLive
    <2>2. CASE j \notin K
      <3>1. i.sn \in Nat /\ \A k \in K : i.sn # rob[k].sn
        BY <1>1, <2>1, <2>2 DEF AgeOrder, Sorted
      <3>2. True(i)' /\ (Unresolved(i) => Unresolved(i)')
        BY <1>8, <2>1, <3>1
      <3>3. i = rob'[j]
        BY <1>4, <2>1, <2>2
      <3>4. QED
        BY <2>1, <3>2, <3>3 DEF Alike
    <2>3. CASE j \in K
      <3>1. PICK n \in Inst : n = rob'[j]
        BY <1>1, <1>4, <2>3, InstUpdates DEF States
      <3>2. /\ n.sn = i.sn /\ n.pos = i.pos /\ n.kind = i.kind /\ n.mispred = i.mispred
            /\ n.fault = i.fault /\ n.state = "executed" /\ i.kind = "load"
        BY <1>4, <1>9, <2>1, <2>3, <3>1 DEF Inst
      <3>3. True(i)
        BY <2>1 DEF ProgressInv, InstsTrue, True
      <3>4. Alike(i, n)
        BY <3>2 DEF Alike
      <3>5. ~Unresolved(i)
        BY <3>2, <3>3 DEF True, TrueToProgram, Unresolved
      <3>6. i.pos # 0 => i.pos \notin faults
        BY <3>2, <3>3, NoFault DEF True
      <3>7. TrueToProgram(n)'
        BY <3>2, <3>3, <3>6 DEF True, TrueToProgram, Finished, InFlight
      <3>8. Redirects(iewNext', n) /\ (phase \in Unread => Redirects(iewNow, n))
        BY <1>7, <2>1, <3>2, <3>3 DEF True, Redirects, BranchTarget
      <3>9. True(n)'
        BY <3>7, <3>8 DEF True
      <3>10. QED
        BY <2>1, <3>1, <3>4, <3>5, <3>9
    <2>4. QED
      BY <2>2, <2>3
  <1>10. ASSUME ~FrontDead, NEW i \in Front
         PROVE  True(i)' /\ (Unresolved(i) => Unresolved(i)')
    <2>1. i \in Flying /\ i.sn \in Nat /\ \A k \in K : i.sn # rob[k].sn
      BY <1>1, <1>10, FrontFacts DEF Flying
    <2>2. QED
      BY <1>8, <2>1
  <1>11. Front' = Front /\ FrontDead' = FrontDead
    BY SameFront DEF FrontDead
  <1>12. QED
    BY <1>4, <1>6, <1>9, <1>10, <1>11, RobContinues

LEMMA MemoryProgress ==
  ASSUME TypeOK, AgeOrder, StaleInRob, PoisonIsRunahead, ProgramSane, ProgressInv,
         Proceeding,
         \/ \E sn \in mem : MemResponse(sn)
         \/ \E k \in DOMAIN rob : ForgedResponse(k)
  PROVE  ProgressInv'
  <1>1. PICK K \in SUBSET DOMAIN rob :
          /\ WriteBackLoads(K)
          /\ \/ \E sn \in mem : \A k \in K : rob[k].sn = sn
             \/ \A k \in K : rob[k].poisoned
    <2>1. CASE \E sn \in mem : MemResponse(sn)
      BY <2>1 DEF MemResponse, TakesResponse
    <2>2. ASSUME NEW k \in DOMAIN rob, ForgedResponse(k)
          PROVE  WriteBackLoads({k}) /\ {k} \in SUBSET DOMAIN rob /\ rob[k].poisoned
      BY <2>2 DEF ForgedResponse, ForgedPending
    <2>3. QED
      BY <2>1, <2>2
  <1>2. ASSUME NEW k \in K, ~RobDead(k)
        PROVE  rob[k].kind = "load"
    <2>1. ~rob[k].poisoned
      BY <1>2, LiveIsNormal DEF Proceeding
    <2>2. rob[k].sn \in mem
      BY <1>1, <2>1
    <2>3. TrueToProgram(rob[k])
      BY <1>2 DEF Flying, RobLive, ProgressInv, InstsTrue
    <2>4. QED
      BY <2>2, <2>3 DEF TrueToProgram
  <1>3. /\ UNCHANGED <<squashIt, squashTo, status, youngestSeqNum, renameNow, renameNext,
                       fetchQueue, phase, sig, prog, faults, iewNow, pc, fetchPc>>
        /\ mem' \subseteq mem
    BY DEF MemResponse, ForgedResponse, frontVars, renameVars, commitVars, trapVars
  <1>4. Continues
    BY <1>1, <1>2, <1>3, WriteBackContinues
  <1>5. QED
    BY <1>3, <1>4, Continued DEF Target, FrontDead

LEMMA TooLongProgress ==
  ASSUME TypeOK, AgeOrder, ProgressInv, Proceeding, InFlightTooLong
  PROVE  ProgressInv'
  <1>1. /\ rob \in Seq(Inst) /\ rob # <<>> /\ rob[1] \in Inst /\ 1 \in DOMAIN rob
        /\ rob[1].state = "sent" /\ iewNext.sn \in Nat /\ iewNext \in IewMsg
    BY HeadType DEF InFlightTooLong, Head0, TypeOK, IewType, IewMsg
  <1>2. PICK inst \in Inst :
          /\ inst.sn = rob[1].sn /\ inst.squashed = rob[1].squashed
          /\ inst.pos = rob[1].pos /\ inst.kind = rob[1].kind
          /\ inst.mispred = rob[1].mispred /\ inst.fault = rob[1].fault
          /\ inst.state = "old" /\ rob' = [rob EXCEPT ![1] = inst]
    BY ZenonT(60), <1>1, InstUpdates DEF InFlightTooLong, States, Inst
  <1>3. /\ UNCHANGED <<squashIt, squashTo, status, youngestSeqNum, renameNow, renameNext,
                       fetchQueue, phase, sig, prog, faults, iewNow, iewNext, mem, pc,
                       fetchPc>>
    BY DEF InFlightTooLong, frontVars, renameVars, commitVars, trapVars, iewVars
  <1>4. RobDead(1)' <=> RobDead(1)
    BY <1>1, <1>2, <1>3, SquashFlagKept
  <1>5. ASSUME ~RobDead(1)
        PROVE  /\ Alike(rob[1], inst) /\ True(inst)'
               /\ Unresolved(rob[1]) => Unresolved(inst)'
    <2>1. PICK i \in Inst : i = rob[1] /\ True(i) /\ i.state = "sent"
      BY <1>1, <1>5 DEF ProgressInv, InstsTrue, True, Flying, RobLive
    <2>2. Alike(i, inst)
      BY <1>2, <2>1 DEF Alike
    <2>3. TrueToProgram(inst)'
      BY <1>2, <1>3, <2>1 DEF True, TrueToProgram, Finished, InFlight, FaultKnown
    <2>4. Redirects(iewNext, inst) /\ (phase \in Unread => Redirects(iewNow, inst))
      BY <1>2, <2>1 DEF True, Redirects, BranchTarget
    <2>5. True(inst)'
      BY <1>3, <2>3, <2>4 DEF True
    <2>6. ~Unresolved(i)
      BY <2>1 DEF True, TrueToProgram, Unresolved, InFlight
    <2>7. QED
      BY <2>1, <2>2, <2>5, <2>6
  <1>6. /\ iewNext' \in IewMsg
        /\ iewNext.squash => iewNext'.squash /\ iewNext'.sn <= iewNext.sn
        /\ iewNext'.insts \subseteq iewNext.insts \cup {inst.sn}
        /\ mem' \subseteq mem \cup {inst.sn}
        /\ \A i \in Flying : Redirects(iewNext', i)
    BY <1>1, <1>3 DEF ProgressInv, InstsTrue
  <1>7. Continues
    BY <1>1, <1>2, <1>3, <1>4, <1>5, <1>6, OneContinues
  <1>8. QED
    BY <1>3, <1>7, Continued DEF Target, FrontDead

\* At the end of a cycle what IEW sent becomes what commit reads.
LEMMA UpdateProgress ==
  ASSUME TypeOK, AgeOrder, CycleOrder, ProgressInv, Proceeding, UpdateRunaheadState
  PROVE  ProgressInv'
  <1>1. /\ rob \in Seq(Inst)
        /\ \A j \in DOMAIN rob : rob[j] \in Inst /\ rob[j].sn \in Nat /\ j \in Nat
    BY SeqTypes, InstFields DEF TypeOK, RobType
  <1>2. /\ UNCHANGED <<squashIt, squashTo, status, youngestSeqNum, fetchQueue, sig, prog,
                       faults, mem, pc, fetchPc>>
        /\ iewNow' = iewNext /\ iewNext' = NoIewMsg
        /\ renameNow' = renameNext /\ renameNext' = <<>> /\ renameNow = <<>>
        /\ phase = "update" /\ phase' = "events"
    BY DEF UpdateRunaheadState, frontVars, commitVars, trapVars, CycleOrder
  <1>3. Front' = Front /\ FrontDead' = FrontDead
    BY <1>2 DEF Front, Insts, FrontDead
  <1>4. /\ DOMAIN rob' = DOMAIN rob
        /\ \A j \in DOMAIN rob : rob[j].sn \notin iewNow.insts => rob'[j] = rob[j]
        /\ \A j \in DOMAIN rob : rob'[j] \in {rob[j], [rob[j] EXCEPT !.state = "done"]}
    BY DEF UpdateRunaheadState, MarkCompleted
  <1>5. ASSUME NEW j \in DOMAIN rob
        PROVE  RobDead(j)' <=> RobDead(j)
    <2>1. /\ [rob[j] EXCEPT !.state = "done"].squashed = rob[j].squashed
          /\ [rob[j] EXCEPT !.state = "done"].sn = rob[j].sn
      BY <1>1 DEF Inst
    <2>2. rob'[j].squashed = rob[j].squashed /\ rob'[j].sn = rob[j].sn
      BY <1>4, <2>1
    <2>3. QED
      BY <1>2, <1>4, <2>2 DEF RobDead, ToBeMarked
  <1>6. ASSUME NEW i \in Flying, NEW n, n \in {i, [i EXCEPT !.state = "done"]},
               i.sn \notin iewNow.insts => n = i, i \in Inst
        PROVE  Alike(i, n) /\ True(n)' /\ (Unresolved(i) => Unresolved(n)')
    <2>1. /\ n.sn = i.sn /\ n.pos = i.pos /\ n.kind = i.kind /\ n.mispred = i.mispred
          /\ n.fault = i.fault
          /\ n.state = i.state \/ (n.state = "done" /\ i.sn \in iewNow.insts)
      BY <1>6 DEF Inst
    <2>2. True(i)
      BY DEF ProgressInv, InstsTrue, True
    <2>3. TrueToProgram(n)'
      BY <1>2, <2>1, <2>2 DEF True, TrueToProgram, Finished, InFlight, FaultKnown, NoIewMsg
    <2>4. Redirects(iewNow', n) /\ Redirects(iewNext', n)
      BY <1>2, <2>1, <2>2 DEF True, Redirects, BranchTarget, NoIewMsg
    <2>5. True(n)'
      BY <2>3, <2>4 DEF True
    <2>6. Unresolved(i) => Unresolved(n)'
      BY <1>2, <2>1, <2>2 DEF True, TrueToProgram, Finished, Unresolved, Unread
    <2>7. QED
      BY <2>1, <2>5, <2>6 DEF Alike
  <1>7. ASSUME NEW j \in DOMAIN rob, ~RobDead(j)
        PROVE  /\ Alike(rob[j], rob'[j]) /\ True(rob[j])'
               /\ Unresolved(rob[j]) => Unresolved(rob[j])'
    <2>1. PICK i : i = rob[j] /\ i \in Flying /\ i \in Inst
      BY <1>1, <1>7 DEF Flying, RobLive
    <2>2. PICK n : n = rob'[j]
      OBVIOUS
    <2>3. n \in {i, [i EXCEPT !.state = "done"]} /\ (i.sn \notin iewNow.insts => n = i)
      BY <1>4, <2>1, <2>2
    <2>4. Alike(i, n) /\ True(n)' /\ (Unresolved(i) => Unresolved(n)')
      BY <1>6, <2>1, <2>3
    <2>5. QED
      BY <2>1, <2>2, <2>4
  <1>8. ASSUME ~FrontDead, NEW i \in Front
        PROVE  True(i)' /\ (Unresolved(i) => Unresolved(i)')
    <2>1. i \in Flying /\ i \in Inst
      BY <1>8, FrontFacts DEF Flying
    <2>2. QED
      BY <1>6, <2>1
  <1>9. Continues
    BY <1>3, <1>4, <1>5, <1>7, <1>8, RobContinues
  <1>10. QED
    BY <1>2, <1>3, <1>9, Continued DEF Target

-----------------------------------------------------------------------------
(* The walk of the ROB, and what fetch does about a squash.                *)

LEMMA FrontSquashProgress ==
  ASSUME CycleOrder, ProgressInv, Proceeding, FrontEndSquash
  PROVE  ProgressInv'
  <1>1. /\ UNCHANGED <<rob, squashIt, squashTo, status, youngestSeqNum, prog, faults, mem,
                       pc, iewNext, iewNow>>
        /\ phase = "fetch" /\ phase' = "iew" /\ sig.squash /\ fetchPc' = sig.pc
        /\ renameNow' = <<>> /\ renameNext' = <<>> /\ fetchQueue' = <<>>
    BY DEF FrontEndSquash, CycleOrder, robVars, iewVars, commitVars, trapVars
  <1>2. RobLive' = RobLive
    BY <1>1, SameRob
  <1>3. Front' = {} /\ FrontDead /\ ~FrontDead'
    BY <1>1 DEF Front, Insts, FrontDead
  <1>4. Flying' = Flying /\ Target' = Target
    BY <1>1, <1>2, <1>3 DEF Flying, Target
  <1>5. Continues
    BY <1>1, <1>4, QuietContinues DEF ProgressInv, Unread
  <1>6. QED
    BY <1>1, <1>4, <1>5, Continued

LEMMA WalkDead ==
  ASSUME TypeOK, AgeOrder, WalkReaches, RobWalk, NEW k \in DOMAIN rob
  PROVE  /\ DOMAIN rob' = DOMAIN rob
         /\ RobDead(k)' <=> RobDead(k)
         /\ ~RobDead(k) => rob'[k] = rob[k]
  <1>1. /\ rob \in Seq(Inst) /\ squashIt \in Nat /\ squashTo \in Int
        /\ SquashWidth \in Nat /\ youngestSeqNum \in Int
        /\ \A j \in DOMAIN rob : rob[j] \in Inst /\ rob[j].sn \in Nat /\ j \in Nat
        /\ 0 \notin DOMAIN rob /\ rob # <<>>
    BY SeqTypes, InstFields, SizeAssumption, EmptySeq DEF TypeOK, RobType, CommitType
  <1>2. UNCHANGED <<youngestSeqNum, squashTo>>
    BY DEF RobWalk
  <1>3. CASE status = "ROBSquashing" /\ squashIt # 0
    <2> DEFINE marks == WalkMarks(rob, squashIt, squashTo, SquashWidth)
    <2>1. /\ rob' = MarkSquashed(rob, marks) /\ status' = status
          /\ squashIt' = WalkNext(rob, squashIt, squashTo, SquashWidth)
      BY <1>3 DEF RobWalk
    <2>2. /\ DOMAIN rob' = DOMAIN rob
          /\ \A j \in DOMAIN rob : j \in marks => rob'[j] = [rob[j] EXCEPT !.squashed = TRUE]
          /\ \A j \in DOMAIN rob : j \notin marks => rob'[j] = rob[j]
      BY <2>1 DEF MarkSquashed
    <2>3. /\ rob'[k].sn = rob[k].sn
          /\ k \in marks => rob'[k].squashed
          /\ k \notin marks => rob'[k] = rob[k]
      BY <1>1, <2>2 DEF Inst
    <2>4. k \in marks => k <= squashIt /\ rob[k].sn > squashTo
      BY DEF WalkMarks
    <2>5. youngestSeqNum <= squashTo
      BY <1>1, <1>3 DEF WalkReaches
    <2>6. k \in marks => RobDead(k)
      <3>1. ASSUME k \in marks
            PROVE  rob[k].squashed \/ ToBeMarked(k)
        BY <1>1, <1>3, <2>4, <2>5, <3>1 DEF WalkReaches
      <3>2. QED
        BY <3>1 DEF RobDead
    <2>7. ASSUME ToBeMarked(k)
          PROVE  rob'[k].squashed \/ ToBeMarked(k)'
      <3>1. /\ squashIt \in DOMAIN rob /\ k <= squashIt /\ rob[k].sn > squashTo
            /\ rob[k].sn > youngestSeqNum
        BY <2>7 DEF ToBeMarked
      <3>2. rob'[k].squashed \/ (squashIt' \in DOMAIN rob /\ k <= squashIt')
        BY <1>1, <2>1, <3>1, WalkCovers DEF AgeOrder
      <3>3. QED
        BY <1>2, <1>3, <2>1, <2>2, <2>3, <3>1, <3>2 DEF ToBeMarked
    <2>8. rob[k].squashed => rob'[k].squashed
      BY <2>3
    <2>9. ASSUME RobDead(k)', k \notin marks
          PROVE  RobDead(k)
      <3>1. CASE rob[k].squashed
        BY <3>1 DEF RobDead
      <3>2. CASE ToBeMarked(k)'
        <4>1. rob[k].sn > youngestSeqNum
          BY <1>2, <2>3, <3>2 DEF ToBeMarked
        <4>2. QED
          BY <1>3, <4>1 DEF WalkReaches, RobDead
      <3>3. QED
        BY <2>3, <2>9, <3>1, <3>2 DEF RobDead
    <2> HIDE DEF marks
    <2>10. QED
      BY <2>2, <2>3, <2>6, <2>7, <2>8, <2>9 DEF RobDead
  <1>4. CASE ~(status = "ROBSquashing" /\ squashIt # 0)
    <2>1. rob' = rob /\ squashIt' = squashIt /\ status' # "ROBSquashing"
      BY <1>4 DEF RobWalk
    <2>2. ~ToBeMarked(k) /\ ~ToBeMarked(k)'
      BY <1>1, <1>4, <2>1 DEF ToBeMarked
    <2>3. QED
      BY <2>1, <2>2 DEF RobDead
  <1>5. QED
    BY <1>3, <1>4

LEMMA WalkProgress ==
  ASSUME TypeOK, AgeOrder, WalkReaches, ProgressInv, Proceeding, RobWalk
  PROVE  ProgressInv'
  <1>1. /\ UNCHANGED <<prog, faults, mem, pc, iewNext, iewNow, fetchPc, sig, renameNow,
                       renameNext, fetchQueue>>
        /\ phase = "walk" /\ phase' = "select"
    BY DEF RobWalk, frontVars, renameVars, iewVars, trapVars
  <1>2. DOMAIN rob' = DOMAIN rob
    BY DEF RobWalk, MarkSquashed
  <1>3. RobLive' = RobLive
    BY <1>2, WalkDead, RobLiveKept
  <1>4. Front' = Front /\ FrontDead' = FrontDead
    BY <1>1, SameFront DEF FrontDead
  <1>5. Flying' = Flying /\ Target' = Target
    BY <1>1, <1>3, <1>4 DEF Flying, Target
  <1>6. Continues
    BY <1>1, <1>5, QuietContinues DEF ProgressInv, Unread
  <1>7. QED
    BY <1>1, <1>5, <1>6, Continued

\* A message commit ignores has been overtaken: what it is for is dead.
LEMMA IgnoreProgress ==
  ASSUME TypeOK, AgeOrder, WalkReaches, YoungestKnown, FrontFresh, ProgressInv,
         Proceeding, IgnoreIewSquash
  PROVE  ProgressInv'
  <1>1. /\ UNCHANGED <<rob, squashIt, squashTo, status, youngestSeqNum, prog, faults, mem,
                       pc, iewNext, iewNow, fetchPc, sig, renameNow, renameNext,
                       fetchQueue>>
        /\ phase = "iewsquash" /\ phase' = "get"
    BY DEF IgnoreIewSquash, frontVars, renameVars, robVars, iewVars, commitVars, trapVars
  <1>2. RobLive' = RobLive /\ Front' = Front /\ FrontDead' = FrontDead
    BY <1>1, SameRob, SameFront DEF FrontDead
  <1>3. Flying' = Flying /\ Target' = Target
    BY <1>1, <1>2 DEF Flying, Target
  <1>4. iewNow.sn \in Nat /\ youngestSeqNum \in Int
    BY DEF TypeOK, IewType, IewMsg, CommitType
  <1>5. ASSUME NEW i \in Flying, i.state # "waiting", iewNow.squash, iewNow.sn <= i.sn
        PROVE  FALSE
    <2>1. i \in RobLive
      BY <1>5 DEF Flying, FrontFresh
    <2>2. PICK k \in DOMAIN rob : i = rob[k] /\ ~rob[k].squashed /\ ~ToBeMarked(k)
      BY <2>1 DEF RobLive, RobDead
    <2>3. i.sn \in Nat
      BY FlyingFacts
    <2>4. iewNow.sn > youngestSeqNum
      BY <1>4, <1>5 DEF IgnoreIewSquash, IewSquashCounts, Proceeding
    <2>5. rob[k].sn > youngestSeqNum
      BY <1>4, <1>5, <2>2, <2>3, <2>4
    <2>6. rob[k].sn <= youngestSeqNum
      BY <2>2, <2>5 DEF WalkReaches, YoungestKnown
    <2>7. QED
      BY <1>4, <2>2, <2>3, <2>5, <2>6
  <1>6. \A i \in Flying : Unresolved(i) => Unresolved(i)'
    BY <1>1, <1>5 DEF Unresolved
  <1>7. Continues
    BY <1>1, <1>3, <1>6, SameContinues DEF ProgressInv, Unread
  <1>8. QED
    BY <1>1, <1>3, <1>7, Continued

-----------------------------------------------------------------------------
(* Instructions enter the ROB and leave it.                                *)

\* Outside of a walk the dead are those marked.
LEMMA DeadIsMarked ==
  ASSUME status # "ROBSquashing"
  PROVE  \A k : RobDead(k) <=> rob[k].squashed
  BY DEF RobDead, ToBeMarked

LEMMA GetProgress ==
  ASSUME TypeOK, CycleOrder, RenameStops, FrontFresh, ProgressInv, Proceeding, GetInsts
  PROVE  ProgressInv'
  <1>1. /\ UNCHANGED <<squashIt, squashTo, status, prog, faults, mem, pc, iewNext, iewNow,
                       fetchPc, sig, renameNext, fetchQueue>>
        /\ phase = "get" /\ phase' \in {"update", "insts"} /\ renameNow' = <<>>
    BY DEF GetInsts, frontVars, iewVars, trapVars
  <1>2. FrontDead' = FrontDead /\ Target' = Target
    BY <1>1 DEF FrontDead, Target
  <1>3. Front' = Insts(renameNext) \cup Insts(fetchQueue)
    BY <1>1 DEF Front, Insts
  <1>4. Flying' = Flying
    <2>1. CASE status = "ROBSquashing"
      <3>1. UNCHANGED <<rob, squashIt, squashTo, status, youngestSeqNum>>
        BY <1>1, <2>1 DEF GetInsts
      <3>2. RobLive' = RobLive
        BY <3>1, SameRob
      <3>3. ~FrontDead => Front' = Front
        BY <1>1, <2>1, SameFront DEF RenameStops
      <3>4. QED
        BY <1>2, <3>2, <3>3 DEF Flying
    <2>2. CASE status # "ROBSquashing"
      <3>1. rob \in Seq(Inst) /\ renameNow \in Seq(Inst)
        BY DEF TypeOK, RobType, RenameType
      <3>2. rob' = rob \o renameNow
        BY <2>2, <3>1 DEF GetInsts, Proceeding
      <3>3. ~FrontDead
        BY <2>2 DEF FrontDead, CycleOrder
      <3>4. /\ DOMAIN rob = 1..Len(rob) /\ Len(rob) \in Nat
            /\ DOMAIN renameNow = 1..Len(renameNow) /\ Len(renameNow) \in Nat
            /\ DOMAIN rob' = 1..(Len(rob) + Len(renameNow))
            /\ \A k \in DOMAIN rob' : rob'[k] = IF k <= Len(rob) THEN rob[k]
                                                ELSE renameNow[k - Len(rob)]
        BY <3>1, <3>2
      <3>5. RobLive = {rob[k] : k \in {j \in DOMAIN rob : ~rob[j].squashed}}
        BY <2>2, DeadIsMarked DEF RobLive
      <3>6. RobLive' = {rob'[k] : k \in {j \in DOMAIN rob' : ~rob'[j].squashed}}
        BY <1>1, <2>2 DEF RobLive, RobDead, ToBeMarked
      <3>7. \A i \in Insts(renameNow) : ~i.squashed
        BY DEF FrontFresh, Front
      <3>8. ASSUME NEW i \in RobLive'
            PROVE  i \in RobLive \cup Insts(renameNow)
        <4>1. PICK k \in DOMAIN rob' : i = rob'[k] /\ ~rob'[k].squashed
          BY <3>6
        <4>2. CASE k <= Len(rob)
          BY <3>4, <3>5, <4>1, <4>2
        <4>3. CASE ~(k <= Len(rob))
          <5>1. k - Len(rob) \in DOMAIN renameNow
            BY <3>4, <4>1, <4>3
          <5>2. QED
            BY <3>4, <4>1, <4>3, <5>1 DEF Insts
        <4>4. QED
          BY <4>2, <4>3
      <3>9. ASSUME NEW i \in RobLive \cup Insts(renameNow)
            PROVE  i \in RobLive'
        <4>1. CASE i \in RobLive
          <5>1. PICK k \in DOMAIN rob : i = rob[k] /\ ~rob[k].squashed
            BY <3>5, <4>1
          <5>2. k \in DOMAIN rob' /\ rob'[k] = rob[k]
            BY <3>4
          <5>3. QED
            BY <3>6, <5>1, <5>2
        <4>2. CASE i \in Insts(renameNow)
          <5>1. PICK k \in DOMAIN renameNow : i = renameNow[k]
            BY <4>2 DEF Insts
          <5>2. k + Len(rob) \in DOMAIN rob' /\ rob'[k + Len(rob)] = renameNow[k]
            BY <3>4
          <5>3. QED
            BY <3>6, <3>7, <4>2, <5>1, <5>2
        <4>3. QED
          BY <4>1, <4>2
      <3>10. RobLive' = RobLive \cup Insts(renameNow)
        BY <3>8, <3>9
      <3>11. QED
        BY <1>2, <1>3, <3>3, <3>10 DEF Flying, Front
    <2>3. QED
      BY <2>1, <2>2
  <1>5. Continues
    BY <1>1, <1>4, QuietContinues DEF ProgressInv, Unread
  <1>6. QED
    BY <1>1, <1>2, <1>4, <1>5, Continued

\* What leaves the ROB at its head.
LEMMA TailLive ==
  ASSUME TypeOK, rob # <<>>, rob' = Tail(rob), status # "ROBSquashing",
         status' # "ROBSquashing", AgeOrder
  PROVE  /\ RobLive' = {i \in RobLive : i.sn # Head0.sn}
         /\ \A i \in RobLive : Head0.sn <= i.sn
         /\ ~Head0.squashed => Head0 \in RobLive
         /\ Head0.squashed => RobLive' = RobLive
  <1>1. /\ rob \in Seq(Inst) /\ DOMAIN rob = 1..Len(rob) /\ Len(rob) \in Nat \ {0}
        /\ \A k \in DOMAIN rob : rob[k].sn \in Nat
        /\ DOMAIN rob' = 1..(Len(rob) - 1)
        /\ \A k \in DOMAIN rob' : rob'[k] = rob[k + 1]
    BY SeqTypes, InstFields, EmptySeq DEF TypeOK, RobType
  <1>2. RobLive = {rob[k] : k \in {j \in DOMAIN rob : ~rob[j].squashed}}
    BY DeadIsMarked DEF RobLive
  <1>3. RobLive' = {rob'[k] : k \in {j \in DOMAIN rob' : ~rob'[j].squashed}}
    BY DEF RobLive, RobDead, ToBeMarked
  <1>4. \A k \in DOMAIN rob : k # 1 => rob[1].sn < rob[k].sn
    BY <1>1 DEF AgeOrder, Sorted
  <1>5. \A i \in RobLive : Head0.sn <= i.sn
    BY <1>1, <1>2, <1>4 DEF Head0
  <1>6. ASSUME NEW i \in RobLive'
        PROVE  i \in RobLive /\ i.sn # Head0.sn
    <2>1. PICK k \in DOMAIN rob' : i = rob'[k] /\ ~rob'[k].squashed
      BY <1>3
    <2>2. k + 1 \in DOMAIN rob /\ rob'[k] = rob[k + 1] /\ k + 1 # 1
      BY <1>1
    <2>3. rob[1].sn < rob[k + 1].sn /\ rob[1].sn \in Nat
      BY <1>1, <1>4, <2>2
    <2>4. QED
      BY <1>1, <1>2, <2>1, <2>2, <2>3 DEF Head0
  <1>7. ASSUME NEW i \in RobLive, i.sn # Head0.sn
        PROVE  i \in RobLive'
    <2>1. PICK k \in DOMAIN rob : i = rob[k] /\ ~rob[k].squashed
      BY <1>2
    <2>2. k # 1
      BY <1>7, <2>1 DEF Head0
    <2>3. k - 1 \in DOMAIN rob' /\ rob'[k - 1] = rob[k]
      BY <1>1, <2>2
    <2>4. QED
      BY <1>3, <2>1, <2>3
  <1>8. RobLive' = {i \in RobLive : i.sn # Head0.sn}
    BY <1>6, <1>7
  <1>9. ASSUME Head0.squashed, NEW i \in RobLive
        PROVE  i.sn # Head0.sn
    <2>1. PICK k \in DOMAIN rob : i = rob[k] /\ ~rob[k].squashed
      BY <1>2
    <2>2. k # 1
      BY <1>9, <2>1 DEF Head0
    <2>3. QED
      BY <1>1, <1>4, <2>1, <2>2 DEF Head0
  <1>10. 1 \in DOMAIN rob
    BY <1>1
  <1>11. QED
    BY <1>2, <1>5, <1>8, <1>9, <1>10 DEF Head0

LEMMA RetireProgress ==
  ASSUME TypeOK, AgeOrder, CycleOrder, ProgressInv, Proceeding, RetireSquashed
  PROVE  ProgressInv'
  <1>1. /\ UNCHANGED <<squashIt, squashTo, status, prog, faults, mem, pc, iewNext, iewNow,
                       fetchPc, sig, renameNow, renameNext, fetchQueue, phase>>
        /\ status # "ROBSquashing" /\ rob # <<>> /\ rob' = Tail(rob) /\ Head0.squashed
    BY DEF RetireSquashed, AtHead, commitVars, frontVars, renameVars, iewVars, trapVars
  <1>2. RobLive' = RobLive
    BY <1>1, TailLive
  <1>3. Front' = Front /\ FrontDead' = FrontDead
    BY <1>1, SameFront DEF FrontDead
  <1>4. Flying' = Flying /\ Target' = Target
    BY <1>1, <1>2, <1>3 DEF Flying, Target
  <1>5. Continues
    BY <1>1, <1>4, QuietContinues DEF ProgressInv
  <1>6. QED
    BY <1>1, <1>4, <1>5, Continued

-----------------------------------------------------------------------------
(* Commit.                                                                 *)

\* What commit finds live at the head of the ROB is the next instruction.
LEMMA HeadIsNext ==
  ASSUME TypeOK, AgeOrder, StaleInRob, PoisonIsRunahead, ProgressInv, ~inRunahead,
         AtHead, ~Head0.squashed
  PROVE  /\ Head0 \in Inst /\ Head0 \in Flying /\ rob # <<>>
         /\ \A j \in Flying : Head0.sn <= j.sn
         /\ TrueToProgram(Head0) /\ ~Head0.poisoned
         /\ Head0.pos = pc /\ Head0.pos \in 1..Len(prog)
         /\ phase = "insts" /\ status = "Running" /\ Proceeding
  <1>1. /\ phase = "insts" /\ status = "Running" /\ rob # <<>>
        /\ ~Head0.squashed /\ Proceeding
    BY DEF AtHead, Proceeding
  <1>2. 1 \in DOMAIN rob /\ Head0 = rob[1] /\ Head0 \in Inst /\ rob \in Seq(Inst)
    BY <1>1, HeadType DEF Head0
  <1>3. ~RobDead(1)
    BY <1>1, <1>2, DeadIsMarked
  <1>4. ~Head0.poisoned
    BY <1>1, <1>2, <1>3, LiveIsNormal DEF Proceeding
  <1>5. Head0 \in Flying
    BY <1>2, <1>3 DEF Flying, RobLive
  <1>6. \A j \in Flying : Head0.sn <= j.sn
    <2>1. \A k \in DOMAIN rob : rob[1].sn <= rob[k].sn
      <3>1. \A k \in DOMAIN rob : k \in Nat /\ k >= 1 /\ rob[k].sn \in Nat
        BY <1>2, SeqTypes, InstFields
      <3>2. QED
        BY <1>2, <3>1 DEF AgeOrder, Sorted
    <2>2. \A i \in Front : rob[1].sn <= i.sn
      BY <1>2, FrontFacts, InstFields
    <2>3. QED
      BY <1>2, <2>1, <2>2 DEF Flying, RobLive
  <1>7. TrueToProgram(Head0)
    BY <1>1, <1>5 DEF ProgressInv, InstsTrue
  <1>8. Head0.pos = pc
    <2>1. /\ Place(Head0) \in Path /\ Place(Head0).pos = Head0.pos
          /\ Place(Head0).sn = Head0.sn
      BY <1>5, PathFacts
    <2>2. \A p \in Path : Place(Head0).sn <= p.sn
      BY <1>6, <2>1, PathFacts DEF Path
    <2>3. QED
      BY <1>1, <2>1, <2>2 DEF ProgressInv, InProgramOrder, Connected
  <1>9. Head0.pos # 0
    <2>1. ASSUME Head0.pos = 0
          PROVE  FALSE
      <3>1. PICK j \in Flying : j.sn < Head0.sn
        BY <1>1, <1>5, <2>1 DEF ProgressInv, WrongPathEnds
      <3>2. QED
        BY <1>2, <1>6, <3>1, FlyingFacts, InstFields
    <2>2. QED
      BY <2>1
  <1>10. Len(prog) \in Nat
    BY LenProperties DEF TypeOK
  <1>11. Head0.pos \in 1..Len(prog)
    BY <1>7, <1>9, <1>10 DEF TrueToProgram
  <1>12. QED
    BY <1>1, <1>2, <1>4, <1>5, <1>6, <1>7, <1>8, <1>11

\* If it is ready, it is no misprediction anyone has yet to find.
LEMMA ReadyIsNext ==
  ASSUME TypeOK, AgeOrder, StaleInRob, PoisonIsRunahead, ProgressInv, ~inRunahead,
         ReadyHead
  PROVE  /\ Head0 \in Inst /\ Head0 \in Flying /\ rob # <<>>
         /\ \A j \in Flying : Head0.sn <= j.sn
         /\ TrueToProgram(Head0) /\ ~Unresolved(Head0) /\ ~Head0.poisoned
         /\ Head0.pos = pc /\ Head0.pos \in 1..Len(prog) /\ Finished(Head0)
         /\ phase = "insts" /\ status = "Running" /\ Proceeding
  <1>1. AtHead /\ ~Head0.squashed /\ phase = "insts" /\ Head0.state = "done"
    BY DEF ReadyHead, AtHead, IsReady
  <1>2. ~Unresolved(Head0) /\ Finished(Head0)
    BY <1>1 DEF Unresolved, Unread, Finished
  <1>3. QED
    BY <1>1, <1>2, HeadIsNext

LEMMA CommitProgress ==
  ASSUME TypeOK, AgeOrder, CycleOrder, StaleInRob, PoisonIsRunahead, ProgressInv,
         ~inRunahead, CommitHead
  PROVE  ProgressInv'
  <1>1. /\ ReadyHead /\ ~Head0.fault /\ rob' = Tail(rob) /\ pc' = Advance(Head0)
        /\ status' \in {"Running", "SquashAfterPending"}
        /\ UNCHANGED <<squashIt, squashTo, prog, faults, mem, iewNext, iewNow, fetchPc, sig,
                       renameNow, renameNext, fetchQueue, phase, inRunahead>>
    BY DEF CommitHead, ReadyHead, AtHead, frontVars, renameVars, iewVars, modeVars
  <1>2. /\ Head0 \in Inst /\ Head0 \in Flying /\ rob # <<>>
        /\ \A j \in Flying : Head0.sn <= j.sn
        /\ TrueToProgram(Head0) /\ ~Unresolved(Head0) /\ ~Head0.poisoned
        /\ Head0.pos \in 1..Len(prog)
        /\ phase = "insts" /\ status = "Running" /\ Proceeding
    BY <1>1, ReadyIsNext
  <1>3. PICK h \in Inst : h = Head0 /\ h.sn \in Nat /\ h.pos \in Nat
    BY <1>2, InstFields
  <1>4. Len(prog) \in Nat
    BY LenProperties DEF TypeOK
  <1>5. pc' = h.pos + 1
    BY <1>1, <1>2, <1>3 DEF Advance
  <1>6. RobLive' = {i \in RobLive : i.sn # h.sn}
    BY <1>1, <1>2, <1>3, TailLive
  <1>7. Front' = Front /\ FrontDead' = FrontDead /\ Target' = Target
    BY <1>1, SameFront DEF FrontDead, Target
  <1>8. \A i \in Front : i.sn # h.sn
    BY <1>2, <1>3, FrontFacts, HeadType DEF Head0
  <1>9. Flying' = {i \in Flying : i.sn # h.sn}
    BY <1>6, <1>7, <1>8 DEF Flying
  <1>10. \A i \in Flying : i.sn \in Nat /\ (i.sn = h.sn => i = h)
    BY <1>2, <1>3, FlyingFacts
  <1>11. Path \in SUBSET Places /\ OneEach(Path) /\ Place(h) \in Path
         /\ Place(h).sn = h.sn /\ Place(h).pos = h.pos
         /\ \A i \in Flying : Place(i) \in Path /\ Place(i).sn = i.sn
                              /\ Place(i).pos = i.pos
    BY <1>2, <1>3, PathFacts
  <1>12. Path' = Path \ {Place(h)}
    <2>1. \A i \in Flying : Place(i) = Place(h) <=> i.sn = h.sn
      BY <1>10, <1>11
    <2>2. QED
      BY <1>9, <1>10, <2>1 DEF Path
  <1>13. Place(h).ends = FALSE
    BY <1>1, <1>3 DEF Place
  <1>14. \A p \in Path : Place(h).sn <= p.sn
    BY <1>2, <1>3, <1>11 DEF Path
  <1>15. ASSUME \A p \in Path : p.sn <= Place(h).sn
         PROVE  Target = pc'
    <2>1. Leads(Place(h), Target)
      BY <1>2, <1>11, <1>15 DEF ProgressInv, InProgramOrder, Connected
    <2>2. Target # 0
      <3>1. ASSUME Target = 0
            PROVE  FALSE
        <4>1. PICK j \in Flying : Unresolved(j)
          BY <1>2, <3>1 DEF ProgressInv, WrongPathEnds
        <4>2. j.sn <= h.sn /\ h.sn <= j.sn
          BY <1>2, <1>3, <1>11, <1>15
        <4>3. j = h
          BY <1>3, <1>10, <4>2
        <4>4. QED
          BY <1>2, <1>3, <4>1, <4>3
      <3>2. QED
        BY <3>1
    <2>3. QED
      BY <1>2, <1>3, <1>5, <1>11, <1>13, <2>1, <2>2 DEF Leads
  <1>16. ASSUME NEW p \in Path, Place(h).sn < p.sn,
                \A m \in Path : m.sn <= Place(h).sn \/ p.sn <= m.sn
         PROVE  p.pos = pc'
    <2>1. Leads(Place(h), p.pos)
      BY <1>2, <1>11, <1>16 DEF ProgressInv, InProgramOrder, Connected
    <2>2. PICK j \in Flying : p = Place(j)
      BY DEF Path
    <2>3. p.sn = j.sn /\ p.pos = j.pos /\ j.sn \in Nat
      BY <1>10, <1>11, <2>2
    <2>4. p.pos # 0
      <3>1. ASSUME p.pos = 0
            PROVE  FALSE
        <4>1. PICK m \in Flying : m.sn < j.sn /\ Unresolved(m)
          BY <1>2, <2>3, <3>1 DEF ProgressInv, WrongPathEnds
        <4>2. Place(m) \in Path /\ Place(m).sn = m.sn /\ m.sn \in Nat
          BY <1>10, <1>11
        <4>3. m.sn <= h.sn \/ j.sn <= m.sn
          BY <1>11, <1>16, <2>3, <4>2
        <4>4. m.sn = h.sn
          BY <1>2, <1>3, <2>3, <4>1, <4>2, <4>3
        <4>5. QED
          BY <1>2, <1>3, <1>10, <4>1, <4>4
      <3>2. QED
        BY <3>1
    <2>5. QED
      BY <1>2, <1>3, <1>5, <1>11, <1>13, <2>1, <2>4 DEF Leads
  <1>17. Connected(Path \ {Place(h)}, pc', Target)
    <2>1. Connected(Path, pc, Target)
      BY <1>2 DEF ProgressInv, InProgramOrder
    <2>2. QED
      BY <1>11, <1>14, <1>15, <1>16, <2>1, PathCommitted
  <1>18. Connected(Path', pc', Target')
    BY <1>7, <1>12, <1>17
  <1>19. InProgramOrder'
    BY <1>1, <1>2, <1>7, <1>18
       DEF ProgressInv, InProgramOrder, Connected, Leads, EndOfProgram
  <1>20. \A i \in Flying : Unresolved(i) => i \in Flying' /\ Unresolved(i)'
    <2>1. \A i \in Flying : Unresolved(i) => i.sn # h.sn
      BY <1>2, <1>3, <1>10
    <2>2. QED
      BY <1>1, <1>9, <2>1 DEF Unresolved
  <1>21. WrongPathEnds'
    BY <1>2, <1>7, <1>9, <1>20 DEF ProgressInv, WrongPathEnds
  <1>22. InstsTrue'
    BY <1>1, <1>2, <1>9 DEF ProgressInv, InstsTrue, TrueToProgram, FaultKnown
  <1>23. QED
    BY <1>19, <1>21, <1>22 DEF ProgressInv

-----------------------------------------------------------------------------
(* Fetch.                                                                  *)

\* Rename takes the oldest n instructions of the fetch queue.
LEMMA QueueSplit ==
  ASSUME NEW s \in Seq(Inst), NEW n \in 0..Len(s)
  PROVE  Insts(s) = Insts(SubSeq(s, 1, n)) \cup Insts(SubSeq(s, n + 1, Len(s)))
  <1> DEFINE t == SubSeq(s, 1, n)
             u == SubSeq(s, n + 1, Len(s))
  <1>1. /\ DOMAIN s = 1..Len(s) /\ Len(s) \in Nat /\ n \in Nat /\ n <= Len(s)
        /\ DOMAIN t = 1..n /\ \A k \in 1..n : t[k] = s[k]
        /\ DOMAIN u = 1..(Len(s) - n) /\ \A k \in 1..(Len(s) - n) : u[k] = s[n + k]
    OBVIOUS
  <1> HIDE DEF t, u
  <1>2. ASSUME NEW k \in DOMAIN s
        PROVE  s[k] \in Insts(t) \cup Insts(u)
    <2>1. CASE k <= n
      BY <1>1, <2>1 DEF Insts
    <2>2. CASE ~(k <= n)
      <3>1. k - n \in DOMAIN u /\ u[k - n] = s[k]
        BY <1>1, <2>2
      <3>2. QED
        BY <3>1 DEF Insts
    <2>3. QED
      BY <2>1, <2>2
  <1>3. \A k \in DOMAIN t : t[k] \in Insts(s)
    BY <1>1 DEF Insts
  <1>4. ASSUME NEW k \in DOMAIN u
        PROVE  u[k] \in Insts(s)
    <2>1. n + k \in DOMAIN s /\ u[k] = s[n + k]
      BY <1>1
    <2>2. QED
      BY <2>1 DEF Insts
  <1>5. Insts(s) = Insts(t) \cup Insts(u)
    BY <1>2, <1>3, <1>4 DEF Insts
  <1>6. QED
    BY <1>5 DEF t, u

LEMMA AppendInsts ==
  ASSUME NEW s \in Seq(Inst), NEW i \in Inst
  PROVE  Insts(Append(s, i)) = Insts(s) \cup {i}
  <1> DEFINE t == Append(s, i)
  <1>1. /\ DOMAIN s = 1..Len(s) /\ Len(s) \in Nat
        /\ DOMAIN t = 1..(Len(s) + 1) /\ t[Len(s) + 1] = i
        /\ \A k \in 1..Len(s) : t[k] = s[k]
    OBVIOUS
  <1> HIDE DEF t
  <1>2. \A k \in DOMAIN t : t[k] \in Insts(s) \cup {i}
    BY <1>1 DEF Insts
  <1>3. \A k \in DOMAIN s : s[k] \in Insts(t)
    BY <1>1 DEF Insts
  <1>4. i \in Insts(t)
    BY <1>1 DEF Insts
  <1>5. Insts(t) = Insts(s) \cup {i}
    BY <1>2, <1>3, <1>4 DEF Insts
  <1>6. QED
    BY <1>5 DEF t

\* What rename and fetch do in a cycle, in terms of what is in front of the ROB.
LEMMA AdvanceFront ==
  ASSUME TypeOK, CycleOrder, FrontEndAdvance
  PROVE  \/ Front' = Front /\ UNCHANGED <<fetchPc, nextSn>>
         \/ \E k \in Kinds, mispred \in BOOLEAN :
              /\ \E rest : FetchInst(rest, k, mispred)
              /\ Front' = Front \cup {NewInst(k, mispred)}
              /\ NewInst(k, mispred) \in Inst
  <1>1. fetchQueue \in Seq(Inst) /\ renameNow' = renameNow /\ renameNext = <<>>
    BY DEF TypeOK, FrontType, FrontEndAdvance, CycleOrder
  <1>2. PICK n \in 0..Len(fetchQueue) :
          LET rest == SubSeq(fetchQueue, n + 1, Len(fetchQueue))
          IN  /\ renameNext' = SubSeq(fetchQueue, 1, n)
              /\ \/ fetchQueue' = rest /\ UNCHANGED <<fetchPc, nextSn>>
                 \/ \E k \in Kinds, mispred \in BOOLEAN : FetchInst(rest, k, mispred)
    BY DEF FrontEndAdvance
  <1>3. PICK rest \in Seq(Inst) : rest = SubSeq(fetchQueue, n + 1, Len(fetchQueue))
    BY <1>1, SeqTypes
  <1>4. Insts(fetchQueue) = Insts(renameNext') \cup Insts(rest)
    BY <1>1, <1>2, <1>3, QueueSplit
  <1>5. Front = Insts(renameNow) \cup Insts(renameNext') \cup Insts(rest)
    <2>1. Insts(renameNext) = {}
      BY <1>1 DEF Insts
    <2>2. QED
      BY <1>4, <2>1 DEF Front
  <1>6. Front' = Insts(renameNow) \cup Insts(renameNext') \cup Insts(fetchQueue')
    BY <1>1 DEF Front, Insts
  <1>7. CASE fetchQueue' = rest /\ UNCHANGED <<fetchPc, nextSn>>
    BY <1>5, <1>6, <1>7
  <1>8. ASSUME NEW k \in Kinds, NEW mispred \in BOOLEAN, FetchInst(rest, k, mispred)
        PROVE  /\ Front' = Front \cup {NewInst(k, mispred)}
               /\ NewInst(k, mispred) \in Inst
    <2>1. NewInst(k, mispred) \in Inst
      BY DEF NewInst, FaultsAtFetch, Inst, States, TypeOK, FrontType, ModeType
    <2>2. fetchQueue' = Append(rest, NewInst(k, mispred))
      BY <1>8 DEF FetchInst
    <2>3. Insts(fetchQueue') = Insts(rest) \cup {NewInst(k, mispred)}
      BY <2>1, <2>2, AppendInsts
    <2>4. QED
      BY <1>5, <1>6, <2>1, <2>3
  <1>9. QED
    BY <1>2, <1>3, <1>7, <1>8

\* Fetch goes on along the path.
LEMMA FetchProgress ==
  ASSUME TypeOK, AgeOrder, NumbersHandedOut, ProgressInv, Proceeding, FrontEndAdvance,
         NEW k \in Kinds, NEW mispred \in BOOLEAN, NEW rest, FetchInst(rest, k, mispred),
         Front' = Front \cup {NewInst(k, mispred)}, NewInst(k, mispred) \in Inst
  PROVE  ProgressInv'
  <1>1. /\ UNCHANGED <<rob, squashIt, squashTo, status, youngestSeqNum, prog, faults, mem,
                       pc, iewNext, iewNow, sig>>
        /\ phase = "fetch" /\ phase' = "iew" /\ ~sig.squash
    BY DEF FrontEndAdvance, robVars, iewVars, commitVars, trapVars
  <1>2. PICK n \in Inst : /\ n = NewInst(k, mispred) /\ Front' = Front \cup {n}
                          /\ n.sn = nextSn /\ n.pos = fetchPc /\ n.kind = k
                          /\ n.state = "waiting" /\ n.mispred = mispred
                          /\ n.fault = FaultsAtFetch(k)
    BY DEF NewInst
  <1>3. /\ RobLive' = RobLive /\ ~FrontDead /\ ~FrontDead'
        /\ Target = fetchPc /\ Target' = fetchPc'
    BY <1>1, SameRob DEF FrontDead, Target
  <1>4. Flying' = Flying \cup {n}
    BY <1>2, <1>3 DEF Flying
  <1>5. /\ Len(prog) \in Nat /\ nextSn \in Nat /\ fetchPc \in 0..Len(prog)
        /\ fetchPc # EndOfProgram /\ (mispred => k = "branch")
        /\ (fetchPc # 0 => k = prog[fetchPc])
    <2>1. Len(prog) \in Nat /\ nextSn \in Nat
      BY LenProperties DEF TypeOK, FrontType
    <2>2. fetchPc \in 0..EndOfProgram
      BY <1>3 DEF ProgressInv, InProgramOrder
    <2>3. /\ fetchPc # EndOfProgram /\ (mispred => k = "branch")
          /\ (fetchPc # 0 => k = prog[fetchPc])
      BY DEF FetchInst, KindsAtFetch
    <2>4. QED
      BY <2>1, <2>2, <2>3 DEF EndOfProgram
  <1>6. /\ FaultsAtFetch(k) => fetchPc' = EndOfProgram
        /\ ~FaultsAtFetch(k) /\ (mispred \/ fetchPc = 0) => fetchPc' = 0
        /\ ~FaultsAtFetch(k) /\ ~(mispred \/ fetchPc = 0) => fetchPc' = fetchPc + 1
    BY DEF FetchInst, FaultsAtFetch
  <1>7. /\ Path \in SUBSET Places
        /\ \A i \in Flying : Place(i) \in Path /\ Place(i).sn = i.sn
    BY PathFacts
  <1>8. /\ Place(n) \in Places /\ Place(n).sn = nextSn /\ Place(n).pos = Target
        /\ Place(n).jumps = mispred /\ (Place(n).ends <=> FaultsAtFetch(k))
    BY <1>2, <1>3, InstFields DEF Place, Places, FaultsAtFetch
  <1>9. \A p \in Path : p.sn < Place(n).sn
    BY <1>8, FlyingFacts, PathFacts DEF Path
  <1>10. Leads(Place(n), fetchPc')
    BY <1>3, <1>6, <1>8 DEF Leads, EndOfProgram
  <1>11. Connected(Path, pc, Target)
    BY DEF ProgressInv, InProgramOrder
  <1>12. Connected(Path \cup {Place(n)}, pc, fetchPc')
    BY <1>7, <1>8, <1>9, <1>10, <1>11, PathExtended
  <1>13. Path' = Path \cup {Place(n)}
    BY <1>4 DEF Path
  <1>14. Connected(Path', pc', Target')
    BY <1>1, <1>3, <1>12, <1>13 DEF Connected, Leads, EndOfProgram
  <1>15. fetchPc' \in 0..(Len(prog) + 1)
    <2>1. fetchPc' \in {EndOfProgram, 0, fetchPc + 1}
      BY <1>6
    <2>2. QED
      BY <1>5, <2>1 DEF EndOfProgram
  <1>16. InProgramOrder'
    BY <1>1, <1>3, <1>14, <1>15 DEF InProgramOrder, Connected, Leads, EndOfProgram
  <1>17. \A i \in Flying : Unresolved(i) => Unresolved(i)'
    BY <1>1 DEF Unresolved, Unread
  <1>18. \A i \in Flying : i.sn < n.sn
    BY <1>2, FlyingFacts
  <1>19. WrongPathEnds'
    <2>1. ASSUME NEW i \in Flying', i.pos = 0
          PROVE  \E j \in Flying' : j.sn < i.sn /\ Unresolved(j)'
      <3>1. CASE i \in Flying
        BY <1>4, <1>17, <2>1, <3>1 DEF ProgressInv, WrongPathEnds
      <3>2. CASE i = n
        <4>1. PICK j \in Flying : Unresolved(j)
          BY <1>2, <1>3, <2>1, <3>2 DEF ProgressInv, WrongPathEnds
        <4>2. QED
          BY <1>4, <1>17, <1>18, <3>2, <4>1
      <3>3. QED
        BY <1>4, <3>1, <3>2
    <2>2. ASSUME Target' = 0
          PROVE  \E j \in Flying' : Unresolved(j)'
      <3>1. CASE mispred
        BY <1>2, <1>4, <3>1 DEF Unresolved
      <3>2. CASE ~mispred
        <4>1. fetchPc = 0
          BY <1>3, <1>5, <1>6, <2>2, <3>2 DEF EndOfProgram
        <4>2. PICK j \in Flying : Unresolved(j)
          BY <1>3, <4>1 DEF ProgressInv, WrongPathEnds
        <4>3. QED
          BY <1>4, <1>17, <4>2
      <3>3. QED
        BY <3>1, <3>2
    <2>3. QED
      BY <2>1, <2>2 DEF WrongPathEnds
  <1>20. ASSUME NEW i \in Flying
         PROVE  True(i)'
    <2>1. True(i)
      BY DEF ProgressInv, InstsTrue, True
    <2>2. QED
      BY <1>1, <2>1 DEF True, TrueToProgram, FaultKnown, Unread
  <1>21. True(n)'
    <2>1. n.sn \notin iewNow.insts \cup iewNext.insts \cup mem
      BY <1>2, <1>5 DEF NumbersHandedOut
    <2>2. ~(iewNow.squash /\ iewNow.sn = n.sn) /\ ~(iewNext.squash /\ iewNext.sn = n.sn)
      BY <1>2, <1>5 DEF NumbersHandedOut
    <2>3. TrueToProgram(n)'
      BY <1>1, <1>2, <1>5, <2>1
         DEF TrueToProgram, FaultsAtFetch, FaultKnown, Finished, InFlight
    <2>4. Redirects(iewNext', n) /\ Redirects(iewNow', n)
      BY <1>1, <2>2 DEF Redirects
    <2>5. QED
      BY <2>3, <2>4 DEF True
  <1>22. InstsTrue'
    BY <1>4, <1>20, <1>21 DEF InstsTrue, True
  <1>23. QED
    BY <1>16, <1>19, <1>22 DEF ProgressInv

LEMMA AdvanceProgress ==
  ASSUME TypeOK, AgeOrder, CycleOrder, NumbersHandedOut, ProgressInv, Proceeding,
         FrontEndAdvance
  PROVE  ProgressInv'
  <1>1. CASE Front' = Front /\ UNCHANGED <<fetchPc, nextSn>>
    <2>1. /\ UNCHANGED <<rob, squashIt, squashTo, status, youngestSeqNum, prog, faults, mem,
                         pc, iewNext, iewNow, sig>>
          /\ phase = "fetch" /\ phase' = "iew" /\ ~sig.squash
      BY DEF FrontEndAdvance, robVars, iewVars, commitVars, trapVars
    <2>2. Flying' = Flying /\ Target' = Target
      BY <1>1, <2>1, SameRob DEF Flying, Target, FrontDead
    <2>3. Continues
      BY <2>1, <2>2, QuietContinues DEF ProgressInv, Unread
    <2>4. QED
      BY <2>1, <2>2, <2>3, Continued
  <1>2. QED
    BY <1>1, AdvanceFront, FetchProgress

-----------------------------------------------------------------------------
(* Squashes.                                                               *)

\* After a squash from IEW: dead is what was, and what is younger than it says.
LEMMA AcceptDead ==
  ASSUME TypeOK, AgeOrder, AcceptIewSquash, NEW to \in Int, RobSquash(to),
         youngestSeqNum' = to, status' = "ROBSquashing",
         to <= youngestSeqNum, NEW k \in DOMAIN rob
  PROVE  /\ DOMAIN rob' = DOMAIN rob
         /\ RobDead(k)' <=> RobDead(k) \/ rob[k].sn > to
         /\ ~RobDead(k)' => rob'[k] = rob[k]
  <1> DEFINE marks == WalkMarks(rob, Len(rob), to, SquashWidth)
  <1>1. /\ rob \in Seq(Inst) /\ rob # <<>> /\ youngestSeqNum \in Int
        /\ \A j \in DOMAIN rob : rob[j] \in Inst /\ rob[j].sn \in Nat /\ j \in Nat
    BY SeqTypes, InstFields, EmptySeq DEF TypeOK, RobType, CommitType
  <1>2. rob' = MarkSquashed(rob, marks) /\ squashTo' = to
    BY <1>1 DEF RobSquash
  <1>3. DOMAIN rob' = DOMAIN rob
    BY <1>2 DEF MarkSquashed
  <1>4. k \in marks => rob'[k] = [rob[k] EXCEPT !.squashed = TRUE] /\ rob[k].sn > to
    BY <1>2 DEF MarkSquashed, WalkMarks
  <1>5. k \notin marks => rob'[k] = rob[k]
    BY <1>2 DEF MarkSquashed
  <1>6. /\ rob'[k].sn = rob[k].sn
        /\ k \in marks => rob'[k].squashed
        /\ rob[k].squashed => rob'[k].squashed
    BY <1>1, <1>4, <1>5 DEF Inst
  <1> HIDE DEF marks
  <1>7. ASSUME rob[k].sn > to
        PROVE  RobDead(k)'
    BY <1>7, SquashCovers DEF RobDead
  <1>8. ASSUME RobDead(k)
        PROVE  RobDead(k)'
    <2>1. CASE rob[k].squashed
      BY <1>6, <2>1 DEF RobDead
    <2>2. CASE ToBeMarked(k)
      <3>1. rob[k].sn > to
        BY <1>1, <2>2 DEF ToBeMarked
      <3>2. QED
        BY <1>7, <3>1
    <2>3. QED
      BY <1>8, <2>1, <2>2 DEF RobDead
  <1>9. ASSUME RobDead(k)'
        PROVE  RobDead(k) \/ rob[k].sn > to
    <2>1. ToBeMarked(k)' => rob[k].sn > to
      BY <1>2, <1>6 DEF ToBeMarked
    <2>2. rob'[k].squashed => rob[k].squashed \/ rob[k].sn > to
      BY <1>4, <1>5
    <2>3. QED
      BY <1>9, <2>1, <2>2 DEF RobDead
  <1>10. ~RobDead(k)' => rob'[k] = rob[k]
    BY <1>5, <1>6 DEF RobDead
  <1>11. QED
    BY <1>3, <1>7, <1>8, <1>9, <1>10

\* A squash from IEW is for an instruction that is in flight.
LEMMA AcceptedIsFlying ==
  ASSUME TypeOK, RedirectRead, AcceptIewSquash
  PROVE  \E c \in RobLive : c.sn = iewNow.sn
  <1>1. /\ iewNow.squash /\ phase = "iewsquash" /\ iewNow.sn <= youngestSeqNum
        /\ iewNow.sn \in Nat /\ youngestSeqNum \in Int
    BY DEF AcceptIewSquash, IewSquashCounts, TypeOK, IewType, IewMsg, CommitType
  <1>2. PICK k \in DOMAIN rob : OnBehalf(iewNow.sn, k)
    BY <1>1 DEF RedirectRead, Overtaken
  <1>3. ~RobDead(k) /\ rob[k].sn = iewNow.sn
    BY <1>1, <1>2 DEF OnBehalf, RobDead, ToBeMarked
  <1>4. QED
    BY <1>3 DEF RobLive

LEMMA AcceptProgress ==
  ASSUME TypeOK, AgeOrder, RedirectRead, ProgressInv, Proceeding, AcceptIewSquash
  PROVE  ProgressInv'
  <1> DEFINE to == IF iewNow.include THEN iewNow.sn - 1 ELSE iewNow.sn
  <1>1. /\ UNCHANGED <<prog, faults, mem, pc, iewNext, iewNow, renameNow, renameNext,
                       fetchQueue>>
        /\ phase = "iewsquash" /\ phase' = "get" /\ sig'.squash /\ sig'.pc = iewNow.pc
        /\ RobSquash(to) /\ youngestSeqNum' = to /\ status' = "ROBSquashing"
        /\ iewNow.squash /\ iewNow.sn <= youngestSeqNum
    BY DEF AcceptIewSquash, IewSquashCounts, SignalSquash, frontVars, renameVars, iewVars,
       trapVars
  <1>2. iewNow.sn \in Nat /\ iewNow.include \in BOOLEAN /\ youngestSeqNum \in Int
    BY DEF TypeOK, IewType, IewMsg, CommitType
  <1>3. to \in Int /\ to <= youngestSeqNum
    BY <1>1, <1>2
  <1>4. PICK c \in RobLive : c.sn = iewNow.sn
    BY AcceptedIsFlying
  <1>5. c \in Flying /\ c \in Inst /\ c.sn \in Nat /\ c.pos \in Nat
    BY <1>4, FlyingFacts, InstFields DEF Flying
  <1>6. RobLive' = {i \in RobLive : i.sn <= to}
    <2>1. \A k \in DOMAIN rob : rob[k].sn \in Nat
      BY SeqTypes, InstFields DEF TypeOK, RobType
    <2>2. /\ DOMAIN rob' = DOMAIN rob
          /\ \A k \in DOMAIN rob : /\ RobDead(k)' <=> RobDead(k) \/ rob[k].sn > to
                                   /\ ~RobDead(k)' => rob'[k] = rob[k]
      <3>1. DOMAIN rob' = DOMAIN rob
        BY <1>1 DEF RobSquash, MarkSquashed, robVars
      <3>2. QED
        BY <1>1, <1>3, <3>1, AcceptDead
    <2>3. ASSUME NEW i \in RobLive'
          PROVE  i \in RobLive /\ i.sn <= to
      <3>1. PICK k \in DOMAIN rob : i = rob'[k] /\ ~RobDead(k)'
        BY <2>2 DEF RobLive
      <3>2. i = rob[k] /\ ~RobDead(k) /\ ~(rob[k].sn > to)
        BY <2>2, <3>1
      <3>3. i \in RobLive
        BY <3>2 DEF RobLive
      <3>4. QED
        BY <1>3, <2>1, <3>2, <3>3
    <2>4. ASSUME NEW i \in RobLive, i.sn <= to
          PROVE  i \in RobLive'
      <3>1. PICK k \in DOMAIN rob : i = rob[k] /\ ~RobDead(k)
        BY DEF RobLive
      <3>2. ~RobDead(k)' /\ rob'[k] = i
        BY <1>3, <2>1, <2>2, <2>4, <3>1
      <3>3. QED
        BY <2>2, <3>2 DEF RobLive
    <2> HIDE DEF to
    <2>5. QED
      BY <2>3, <2>4
  <1>7. FrontDead' /\ Target' = iewNow.pc
    BY <1>1 DEF FrontDead, Target
  <1>8. Flying' = {i \in Flying : i.sn <= to}
    <2>1. \A i \in Flying : i.sn <= to => i.sn <= c.sn
      BY <1>2, <1>4, FlyingFacts
    <2>2. \A i \in Flying : i.sn <= to => i \in RobLive
      BY <1>4, <2>1, FlyingFacts
    <2>3. RobLive \subseteq Flying
      BY DEF Flying
    <2>4. Flying' = RobLive'
      BY <1>7 DEF Flying
    <2> HIDE DEF to
    <2>5. QED
      BY <1>6, <2>2, <2>3, <2>4
  <1>9. /\ Path \in SUBSET Places /\ OneEach(Path) /\ Place(c) \in Path
        /\ Place(c).sn = c.sn /\ Place(c).pos = c.pos
        /\ \A i \in Flying : Place(i).sn = i.sn /\ i.sn \in Nat
    BY <1>5, PathFacts, FlyingFacts
  <1>10. Path' = {p \in Path : p.sn <= to}
    <2> HIDE DEF to
    <2>1. QED
      BY <1>8, <1>9 DEF Path
  <1>11. Connected(Path, pc, Target)
    BY DEF ProgressInv, InProgramOrder
  <1>12. TrueToProgram(c) /\ Redirects(iewNow, c)
    BY <1>1, <1>5 DEF ProgressInv, InstsTrue, Unread
  <1>13. Len(prog) \in Nat /\ c.pos \in 0..Len(prog)
    BY <1>12, LenProperties DEF TypeOK, TrueToProgram
  <1>14. /\ Connected(Path', pc, iewNow.pc) /\ iewNow.pc \in 0..(Len(prog) + 1)
         /\ iewNow.pc = 0 => c.pos = 0
    <2>1. CASE iewNow.include
      <3>1. iewNow.pc = c.pos
        BY <1>1, <1>4, <1>12, <2>1 DEF Redirects
      <3>2. {p \in Path : p.sn <= to} = {p \in Path : p.sn < c.sn}
        <4>1. \A p \in Path : p.sn \in Nat
          BY <1>9 DEF Places
        <4>2. to = c.sn - 1 /\ c.sn \in Nat
          BY <1>4, <1>5, <2>1
        <4> HIDE DEF to
        <4>3. \A p \in Path : p.sn <= to <=> p.sn < c.sn
          BY <4>1, <4>2
        <4>4. QED
          BY <4>3
      <3>3. Connected({p \in Path : p.sn < c.sn}, pc, c.pos)
        BY <1>9, <1>11, PathCutBefore
      <3> HIDE DEF to
      <3>4. QED
        <4>1. Path' = {p \in Path : p.sn < c.sn}
          BY <1>10, <3>2
        <4>2. Connected(Path', pc, iewNow.pc)
          BY <3>1, <3>3, <4>1
        <4>3. iewNow.pc \in 0..(Len(prog) + 1) /\ (iewNow.pc = 0 => c.pos = 0)
          BY <1>13, <3>1
        <4>4. QED
          BY <4>2, <4>3
    <2>2. CASE ~iewNow.include
      <3>1. c.mispred /\ iewNow.pc = BranchTarget(c)
        BY <1>1, <1>4, <1>12, <2>2 DEF Redirects
      <3>2. {p \in Path : p.sn <= to} = {p \in Path : p.sn <= c.sn}
        BY <1>4, <2>2
      <3>3. ~Place(c).ends
        BY <1>12, <3>1 DEF Place, TrueToProgram
      <3>4. Leads(Place(c), BranchTarget(c))
        BY <1>9, <3>3 DEF Leads, BranchTarget
      <3>5. Connected({p \in Path : p.sn <= c.sn}, pc, BranchTarget(c))
        BY <1>9, <1>11, <3>4, PathCutBehind
      <3>6. BranchTarget(c) \in 0..(Len(prog) + 1) /\ (BranchTarget(c) = 0 => c.pos = 0)
        BY <1>5, <1>13 DEF BranchTarget
      <3> HIDE DEF to
      <3>7. QED
        BY <1>10, <3>1, <3>2, <3>5, <3>6
    <2>3. QED
      BY <2>1, <2>2
  <1>15. InProgramOrder'
    BY <1>1, <1>7, <1>14 DEF InProgramOrder, Connected, Leads, EndOfProgram
  <1>16. ASSUME NEW i \in Flying, i.sn < c.sn, Unresolved(i)
         PROVE  i \in Flying' /\ Unresolved(i)'
    <2>1. i.sn <= to
      BY <1>2, <1>4, <1>9, <1>16
    <2>2. ~(iewNow.sn <= i.sn)
      BY <1>2, <1>4, <1>9, <1>16
    <2>3. Unresolved(i)'
      BY <1>1, <1>16, <2>2 DEF Unresolved
    <2> HIDE DEF to
    <2>4. QED
      BY <1>8, <2>1, <2>3
  <1>17. WrongPathEnds'
    <2>1. \A i \in Flying' : i \in Flying /\ i.sn <= c.sn
      <3>1. \A i \in Flying : i.sn <= to => i.sn <= c.sn
        BY <1>2, <1>4, FlyingFacts
      <3> HIDE DEF to
      <3>2. QED
        BY <1>8, <3>1
    <2>2. ASSUME NEW i \in Flying', i.pos = 0
          PROVE  \E j \in Flying' : j.sn < i.sn /\ Unresolved(j)'
      <3>1. PICK j \in Flying : j.sn < i.sn /\ Unresolved(j)
        BY <2>1, <2>2 DEF ProgressInv, WrongPathEnds
      <3>2. j.sn < c.sn
        BY <1>5, <1>9, <2>1, <3>1
      <3>3. QED
        BY <1>16, <3>1, <3>2
    <2>3. ASSUME Target' = 0
          PROVE  \E j \in Flying' : Unresolved(j)'
      <3>1. PICK j \in Flying : j.sn < c.sn /\ Unresolved(j)
        BY <1>5, <1>7, <1>14, <2>3 DEF ProgressInv, WrongPathEnds
      <3>2. QED
        BY <1>16, <3>1
    <2>4. QED
      BY <2>2, <2>3 DEF WrongPathEnds
  <1>18. InstsTrue'
    <2>1. ASSUME NEW i \in Flying'
          PROVE  TrueToProgram(i)' /\ Redirects(iewNext', i)
      <3>1. i \in Flying
        <4> HIDE DEF to
        <4>1. QED
          BY <1>8
      <3>2. TrueToProgram(i) /\ Redirects(iewNext, i)
        BY <3>1 DEF ProgressInv, InstsTrue
      <3>3. QED
        BY <1>1, <3>2 DEF TrueToProgram, FaultKnown
    <2>2. QED
      BY <1>1, <2>1 DEF InstsTrue, Unread
  <1>19. QED
    BY <1>15, <1>17, <1>18 DEF ProgressInv

\* A squash of commit itself leaves nothing and starts over at the PC.
LEMMA StartsOver ==
  ASSUME Flying' = {}, Target' = pc', pc' \in 1..EndOfProgram'
  PROVE  ProgressInv'
  <1>1. Path' = {}
    BY DEF Path
  <1>2. pc' # 0
    OBVIOUS
  <1>3. InProgramOrder'
    <2>1. Connected(Path, pc, Target)'
      BY <1>1 DEF Connected
    <2>2. 1..EndOfProgram' \subseteq 0..EndOfProgram'
      OBVIOUS
    <2>3. QED
      BY <2>1, <2>2 DEF InProgramOrder
  <1>4. WrongPathEnds' /\ InstsTrue'
    BY <1>2 DEF WrongPathEnds, InstsTrue
  <1>5. QED
    BY <1>3, <1>4 DEF ProgressInv

LEMMA CommitSquashProgress ==
  ASSUME TypeOK, CycleOrder, TypeOK', CommittedIsOldest', CauseIsOldest', WalkReaches',
         ProgramSane', ~inRunahead',
         SquashFromTrap \/ SquashFromSquashAfter \/ SquashFromRunaheadExit
  PROVE  ProgressInv'
  <1>1. CASE SquashFromSquashAfter /\ SquashAfterIsStale
    BY <1>1 DEF SquashFromSquashAfter, SquashAfterIsStale, CycleOrder
  <1>2. CASE \/ SquashFromTrap \/ (SquashFromSquashAfter /\ ~SquashAfterIsStale)
             \/ SquashFromRunaheadExit
    <2>1. /\ status' = "ROBSquashing" /\ sig'.squash /\ sig'.pc = pc'
          /\ phase' = "iewsquash"
          /\ \/ youngestSeqNum' = lastCommitedSeqNum'
             \/ youngestSeqNum' = exitCause'.sn - 1
      BY <1>2 DEF SquashFromTrap, SquashFromSquashAfter, SquashFromRunaheadExit, SquashAll,
         SignalSquash
    <2>2. /\ \A k \in DOMAIN rob' : rob'[k].sn \in Nat
          /\ lastCommitedSeqNum' \in Nat /\ exitCause'.sn \in Nat /\ runaheadCause'.sn \in Nat
      BY SeqTypes, InstFields DEF TypeOK, RobType, CommitType, ExitType, ModeType, Cause
    <2>3. \A k \in DOMAIN rob' : rob'[k].sn > youngestSeqNum'
      BY <2>1, <2>2 DEF CommittedIsOldest, CauseIsOldest, NotOlder
    <2>4. \A k \in DOMAIN rob' : RobDead(k)'
      BY <2>1, <2>3 DEF WalkReaches, RobDead
    <2>5. RobLive' = {} /\ FrontDead'
      BY <2>1, <2>4 DEF RobLive, FrontDead
    <2>6. Flying' = {} /\ Target' = pc'
      BY <2>1, <2>5 DEF Flying, Target
    <2>7. pc' \in 1..EndOfProgram'
      BY DEF ProgramSane, ArchPc
    <2>8. QED
      BY <2>6, <2>7, StartsOver
  <1>3. QED
    BY <1>1, <1>2

-----------------------------------------------------------------------------
(* The in-order machine.                                                   *)

LEMMA ProgramKept ==
  ASSUME Next
  PROVE  prog' = prog
  <1>1. CASE Event
    BY <1>1 DEF Event, LLLReturn, MemResponse, ForgedResponse, InFlightTooLong,
       DeadlineEvent, ProcessTrapEvent
  <1>2. CASE \/ StartTick \/ FrontEndSquash \/ FrontEndAdvance \/ FrontEndDiscard
             \/ IewExecute \/ IewDone \/ RobWalk \/ UpdateRunaheadState
    BY <1>2 DEF StartTick, FrontEndSquash, FrontEndAdvance, FrontEndDiscard, IewExecute,
       IewDone, RobWalk, UpdateRunaheadState
  <1>3. CASE \/ SquashFromTrap \/ SquashFromSquashAfter \/ SquashFromRunaheadExit
             \/ SelectNothing \/ AcceptIewSquash \/ IgnoreIewSquash \/ GetInsts
    BY <1>3 DEF SquashFromTrap, SquashFromSquashAfter, SquashFromRunaheadExit,
       SelectNothing, AcceptIewSquash, IgnoreIewSquash, GetInsts
  <1>4. CASE \/ RetireSquashed \/ CommitHead \/ TrapHead \/ IgnoreRunaheadFault
             \/ EnterRunahead \/ PoisonRunaheadLLL \/ StopCommit
    BY <1>4 DEF RetireSquashed, CommitHead, TrapHead, IgnoreRunaheadFault, EnterRunahead,
       PoisonRunaheadLLL, StopCommit
  <1>5. QED
    BY <1>1, <1>2, <1>3, <1>4 DEF Next, Tick

LEMMA PcKept ==
  ASSUME Next, ~CommitHead, ~TrapHead, ~IgnoreRunaheadFault, ~EnterRunahead,
         ~SquashFromRunaheadExit
  PROVE  UNCHANGED <<pc, faults, inRunahead, storedPc>>
  <1>1. CASE Event
    BY <1>1 DEF Event, LLLReturn, MemResponse, ForgedResponse, InFlightTooLong,
       DeadlineEvent, ProcessTrapEvent, commitVars, trapVars, modeVars
  <1>2. CASE \/ StartTick \/ FrontEndSquash \/ FrontEndAdvance \/ FrontEndDiscard
             \/ IewExecute \/ IewDone \/ RobWalk \/ UpdateRunaheadState
    BY <1>2 DEF StartTick, FrontEndSquash, FrontEndAdvance, FrontEndDiscard, IewExecute,
       IewDone, RobWalk, UpdateRunaheadState, commitVars, trapVars, modeVars
  <1>3. CASE \/ SquashFromTrap \/ SquashFromSquashAfter
             \/ SelectNothing \/ AcceptIewSquash \/ IgnoreIewSquash \/ GetInsts
    BY <1>3 DEF SquashFromTrap, SquashFromSquashAfter,
       SelectNothing, AcceptIewSquash, IgnoreIewSquash, GetInsts, commitVars, trapVars,
       modeVars
  <1>4. CASE RetireSquashed \/ PoisonRunaheadLLL \/ StopCommit
    BY <1>4 DEF RetireSquashed, PoisonRunaheadLLL, StopCommit, commitVars, trapVars, modeVars
  <1>5. QED
    BY <1>1, <1>2, <1>3, <1>4 DEF Next, Tick

\* The commit of an instruction, a trap, or nothing software would notice.
Visible == [Machine!Next]_(Machine!vars)

LEMMA MachineStep ==
  ASSUME TypeOK, AgeOrder, AllInRunahead, StaleInRob, ExitInRunahead, PoisonIsRunahead,
         ProgressInv, ProgramSane, Next
  PROVE  Visible /\ ProgramSane'
  <1>1. prog' = prog
    BY ProgramKept
  <1>2. Len(prog) \in Nat /\ pc \in Nat /\ storedPc \in Nat /\ DOMAIN prog = 1..Len(prog)
    BY LenProperties DEF TypeOK, CommitType, ModeType
  <1>3. CASE UNCHANGED <<ArchPc, faults>>
    <2>1. Visible
      BY <1>1, <1>3 DEF Visible, Machine!vars, ArchPc
    <2>2. ProgramSane'
      BY <1>1, <1>3 DEF ProgramSane, Faulting, EndOfProgram
    <2>3. QED
      BY <2>1, <2>2
  <1>4. CASE CommitHead
    <2>1. UNCHANGED <<inRunahead, storedPc, faults>> /\ ReadyHead /\ ~Head0.fault
          /\ pc' = Advance(Head0)
      BY <1>4 DEF CommitHead, modeVars
    <2>2. CASE inRunahead
      BY <1>3, <2>1, <2>2 DEF ArchPc
    <2>3. CASE ~inRunahead
      <3>1. /\ TrueToProgram(Head0) /\ ~Head0.poisoned /\ Head0.pos = pc
            /\ Head0.pos \in 1..Len(prog) /\ Finished(Head0)
        BY <2>1, <2>3, ReadyIsNext
      <3>2. pc' = pc + 1 /\ pc \in 1..Len(prog)
        BY <2>1, <3>1 DEF Advance
      <3>3. pc \notin faults
        BY <1>2, <2>1, <3>1 DEF TrueToProgram, FaultKnown
      <3>4. Machine!Commit
        BY <1>1, <1>2, <2>1, <2>3, <3>2, <3>3 DEF Machine!Commit
      <3>5. ProgramSane'
        BY <1>1, <1>2, <2>1, <2>3, <3>2 DEF ProgramSane, ArchPc, Faulting, EndOfProgram
      <3>6. QED
        BY <3>4, <3>5 DEF Visible, Machine!Next
    <2>4. QED
      BY <2>2, <2>3
  <1>5. CASE TrapHead
    <2>1. /\ UNCHANGED <<inRunahead, storedPc>> /\ ReadyHead /\ Head0.fault
          /\ ~Head0.runahead /\ AtHead /\ ~Head0.squashed
          /\ pc' = Head0.pos /\ faults' = faults \ {Head0.pos}
      BY <1>5 DEF TrapHead, modeVars, IgnoresFault, ReadyHead
    <2>2. ~inRunahead
      BY <2>1, HeadMode
    <2>3. TrueToProgram(Head0) /\ Head0.pos = pc /\ Head0.pos \in 1..Len(prog)
      BY <2>1, <2>2, ReadyIsNext
    <2>4. pc \in faults /\ pc' = pc /\ faults' = faults \ {pc}
      BY <1>2, <2>1, <2>3 DEF TrueToProgram
    <2>5. Machine!Trap
      BY <1>1, <2>1, <2>2, <2>4 DEF Machine!Trap
    <2>6. ProgramSane'
      BY <1>1, <2>1, <2>2, <2>4 DEF ProgramSane, ArchPc, Faulting, EndOfProgram
    <2>7. QED
      BY <2>5, <2>6 DEF Visible, Machine!Next
  <1>6. CASE IgnoreRunaheadFault
    <2>1. AtHead /\ ~Head0.squashed /\ Head0.runahead
      BY <1>6 DEF IgnoreRunaheadFault, ReadyHead, IgnoresFault
    <2>2. inRunahead
      BY <2>1, HeadMode
    <2>3. UNCHANGED <<inRunahead, storedPc, faults>>
      BY <1>6 DEF IgnoreRunaheadFault, modeVars, trapVars
    <2>4. QED
      BY <1>3, <2>2, <2>3 DEF ArchPc
  <1>7. CASE EnterRunahead
    <2>1. ~inRunahead /\ inRunahead' /\ storedPc' = pc /\ faults' = faults
      BY <1>7 DEF EnterRunahead, trapVars
    <2>2. QED
      BY <1>3, <2>1 DEF ArchPc
  <1>8. CASE SquashFromRunaheadExit
    <2>1. exitRunahead /\ ~inRunahead' /\ pc' = storedPc /\ faults' = faults
      BY <1>8 DEF SquashFromRunaheadExit, ResumePc
    <2>2. inRunahead
      BY <2>1 DEF ExitInRunahead
    <2>3. QED
      BY <1>3, <2>1, <2>2 DEF ArchPc
  <1>9. QED
    BY <1>3, <1>4, <1>5, <1>6, <1>7, <1>8, PcKept DEF ArchPc

-----------------------------------------------------------------------------
(* The parts of the invariant that hold in either mode.                    *)

LEMMA CutInsts ==
  ASSUME NEW s \in Seq(Inst)
  PROVE  /\ Insts(<<>>) = {}
         /\ s # <<>> => Insts(Tail(s)) \subseteq Insts(s)
  <1>1. Insts(<<>>) = {}
    BY DEF Insts
  <1>2. ASSUME s # <<>>, NEW k \in DOMAIN Tail(s)
        PROVE  Tail(s)[k] \in Insts(s)
    <2>1. k + 1 \in DOMAIN s /\ Tail(s)[k] = s[k + 1]
      BY <1>2, EmptySeq
    <2>2. QED
      BY <2>1 DEF Insts
  <1>3. QED
    BY <1>1, <1>2 DEF Insts

\* What is new in front of the ROB is what fetch has just built.
LEMMA FrontGrows ==
  ASSUME TypeOK, CycleOrder, Next
  PROVE  /\ \A i \in Front' :
              \/ i \in Front
              \/ EnterRunahead /\ \E j \in Front : i = [j EXCEPT !.runahead = TRUE]
              \/ /\ FrontEndAdvance /\ i.sn = nextSn /\ i.state = "waiting"
                 /\ ~i.squashed /\ ~i.poisoned
         /\ nextSn' \in {nextSn, nextSn + 1}
  <1>1. /\ fetchQueue \in Seq(Inst) /\ renameNext \in Seq(Inst) /\ renameNow \in Seq(Inst)
    BY DEF TypeOK, FrontType, RenameType
  <1>2. CASE BehindRename
    BY <1>2, FrontUnchanged, SameFront
  <1>3. CASE FrontEndSquash
    <2>1. /\ renameNow' = <<>> /\ fetchQueue' = <<>> /\ renameNext' = <<>>
          /\ nextSn' = nextSn
      BY <1>3 DEF FrontEndSquash, CycleOrder
    <2>2. QED
      BY <2>1, CutInsts DEF Front, Insts
  <1>4. CASE FrontEndAdvance
    <2>1. nextSn' \in {nextSn, nextSn + 1}
      BY <1>4 DEF FrontEndAdvance, FetchInst
    <2>2. \A i \in Front' : i \in Front \/ \E k, mispred : i = NewInst(k, mispred)
      BY <1>4, AdvanceFront
    <2>3. QED
      BY <1>4, <2>1, <2>2 DEF NewInst
  <1>5. CASE FrontEndDiscard
    <2>1. /\ UNCHANGED <<renameNow, renameNext, nextSn>>
          /\ fetchQueue # <<>> /\ fetchQueue' = Tail(fetchQueue)
      BY <1>5 DEF FrontEndDiscard, renameVars
    <2>2. Insts(fetchQueue') \subseteq Insts(fetchQueue)
      BY <1>1, <2>1, CutInsts
    <2>3. Insts(renameNow') = Insts(renameNow) /\ Insts(renameNext') = Insts(renameNext)
      BY <2>1 DEF Insts
    <2>4. QED
      BY <2>1, <2>2, <2>3 DEF Front
  <1>6. CASE GetInsts
    <2>1. UNCHANGED <<renameNext, fetchQueue, nextSn>> /\ renameNow' = <<>>
      BY <1>6 DEF GetInsts, frontVars
    <2>2. QED
      BY <2>1 DEF Front, Insts
  <1>7. CASE EnterRunahead
    <2>1. /\ UNCHANGED <<renameNow, nextSn>>
          /\ fetchQueue' = SetRunahead(fetchQueue) /\ renameNext' = SetRunahead(renameNext)
      BY <1>7 DEF EnterRunahead
    <2>2. \A s : \A i \in Insts(SetRunahead(s)) :
            \E j \in Insts(s) : i = [j EXCEPT !.runahead = TRUE]
      BY DEF SetRunahead, Insts
    <2>3. Insts(renameNow') = Insts(renameNow)
      BY <2>1 DEF Insts
    <2>4. QED
      BY <1>7, <2>1, <2>2, <2>3 DEF Front
  <1>8. CASE UpdateRunaheadState
    <2>1. /\ UNCHANGED <<fetchQueue, nextSn>> /\ renameNow' = renameNext
          /\ renameNext' = <<>>
      BY <1>8 DEF UpdateRunaheadState, frontVars
    <2>2. QED
      BY <2>1 DEF Front, Insts
  <1>9. QED
    BY <1>2, <1>3, <1>4, <1>5, <1>6, <1>7, <1>8 DEF Next, Tick, BehindRename

LEMMA FrontFreshStep ==
  ASSUME TypeOK, AgeOrder, CycleOrder, FrontFresh, Next
  PROVE  FrontFresh'
  <1>1. ASSUME NEW j \in Front
        PROVE  /\ j.state = "waiting" /\ ~j.squashed /\ ~j.poisoned
               /\ [j EXCEPT !.runahead = TRUE].state = "waiting"
               /\ ~[j EXCEPT !.runahead = TRUE].squashed
               /\ ~[j EXCEPT !.runahead = TRUE].poisoned
    <2>1. j \in Inst
      BY FrontFacts
    <2>2. QED
      BY <2>1 DEF FrontFresh, Inst
  <1>2. QED
    BY <1>1, FrontGrows DEF FrontFresh

CommitSquash == SquashFromTrap \/ SquashFromSquashAfter \/ SquashFromRunaheadExit

\* Commit goes on after the step only if it did before, squashes apart.
LEMMA ProceedingBefore ==
  ASSUME Next, ~CommitSquash, Proceeding'
  PROVE  Proceeding /\ ~EnterRunahead /\ ~TrapHead
<1>1. ~EnterRunahead /\ ~TrapHead
  BY DEF EnterRunahead, TrapHead, Proceeding
<1>2. inRunahead' = inRunahead
  BY <1>1, ModeChange DEF CommitSquash
<1>3. ~CommitHead /\ ~RobWalk /\ ~AcceptIewSquash => status' = status
  BY <1>1 DEF CommitSquash, Next, Event, Tick, LLLReturn, MemResponse, ForgedResponse,
     InFlightTooLong, DeadlineEvent, ProcessTrapEvent, StartTick, FrontEndSquash,
     FrontEndAdvance, FrontEndDiscard, IewExecute, IewDone, SelectNothing,
     IgnoreIewSquash, GetInsts, RetireSquashed, IgnoreRunaheadFault, PoisonRunaheadLLL,
     StopCommit, UpdateRunaheadState, commitVars
<1>4. (CommitHead \/ RobWalk \/ AcceptIewSquash) /\ status = "TrapPending" => status' = status
  BY DEF CommitHead, ReadyHead, AtHead, RobWalk, AcceptIewSquash, IewSquashCounts
<1>5. QED  BY <1>1, <1>2, <1>3, <1>4 DEF Proceeding

LEMMA ProgressStep ==
  ASSUME TypeOK, TypeOK', PipelineInv, OrderInv, CommittedIsOldest', CauseIsOldest',
         WalkReaches', ProgramSane', Next
  PROVE  ProgressInv'
<1> USE DEF PipelineInv, ModeInv, SquashInv, OrderInv
<1>0. ProgressInv  BY DEF ProgressInv
<1>1. CASE ~Proceeding'
  BY <1>1 DEF ProgressInv, InProgramOrder, WrongPathEnds, InstsTrue
<1>2. CASE Proceeding' /\ CommitSquash
  <2>1. ~inRunahead'  BY <1>2 DEF Proceeding
  <2>2. QED  BY <1>2, <2>1, CommitSquashProgress DEF CommitSquash
<1>3. CASE Proceeding' /\ ~CommitSquash
  <2>1. Proceeding /\ ~EnterRunahead /\ ~TrapHead
    BY <1>3, ProceedingBefore
  <2>2. ~inRunahead  BY <2>1 DEF Proceeding
  <2>3. ~PoisonRunaheadLLL /\ ~FrontEndDiscard
    BY <2>2 DEF PoisonRunaheadLLL, FrontEndDiscard
  <2>4. ~IgnoreRunaheadFault
    BY <2>2, HeadMode DEF IgnoreRunaheadFault, IgnoresFault, ReadyHead
  <2>5. CASE Quiet
    BY <1>0, <2>1, <2>5, QuietProgress
  <2>6. CASE \/ \E sn \in mem : MemResponse(sn)
             \/ \E k \in DOMAIN rob : ForgedResponse(k)
    BY <1>0, <2>1, <2>6, MemoryProgress
  <2>7. CASE InFlightTooLong
    BY <1>0, <2>1, <2>7, TooLongProgress
  <2>8. CASE UpdateRunaheadState
    BY <1>0, <2>1, <2>8, UpdateProgress
  <2>9. CASE FrontEndSquash
    BY <1>0, <2>1, <2>9, FrontSquashProgress
  <2>10. CASE FrontEndAdvance
    BY <1>0, <2>1, <2>10, AdvanceProgress
  <2>11. CASE RobWalk
    BY <1>0, <2>1, <2>11, WalkProgress
  <2>12. CASE IgnoreIewSquash
    BY <1>0, <2>1, <2>12, IgnoreProgress
  <2>13. CASE AcceptIewSquash
    BY <1>0, <2>1, <2>13, AcceptProgress
  <2>14. CASE GetInsts
    BY <1>0, <2>1, <2>14, GetProgress
  <2>15. CASE RetireSquashed
    BY <1>0, <2>1, <2>15, RetireProgress
  <2>16. CASE CommitHead
    BY <1>0, <2>2, <2>16, CommitProgress
  <2>17. CASE IewExecute
    <3>1. PICK k \in DOMAIN rob : IewStep(k)
      BY <2>17 DEF IewExecute, IewStep
    <3>2. /\ phase = "iew"
          /\ UNCHANGED <<squashIt, squashTo, status, youngestSeqNum, renameNow, renameNext,
                         fetchQueue, fetchPc, pc, phase, sig, prog, faults, iewNow>>
      BY <2>17 DEF IewExecute, frontVars, renameVars, commitVars, trapVars
    <3>3. Continues
      BY <1>0, <2>1, <3>1, <3>2, IewContinues
    <3>4. Target' = Target
      BY <3>2 DEF Target, FrontDead
    <3>5. QED  BY <1>0, <2>1, <3>2, <3>3, <3>4, Continued
  <2>18. QED
    BY <1>3, <2>1, <2>3, <2>4, <2>5, <2>6, <2>7, <2>8, <2>9, <2>10, <2>11, <2>12, <2>13,
       <2>14, <2>15, <2>16, <2>17 DEF Next, Event, Tick, Quiet, CommitSquash
<1>4. QED  BY <1>1, <1>2, <1>3

LEMMA RenameStopsStep ==
  ASSUME TypeOK, CycleOrder, RenameStops, Next
  PROVE  RenameStops'
<1> SUFFICES ASSUME status' = "ROBSquashing", ~FrontDead'
             PROVE  renameNow' = <<>> /\ renameNext' = <<>>
  BY DEF RenameStops
<1>1. CASE SquashStep
  <2>1. sig'.squash
    BY <1>1 DEF SquashStep, SquashFromTrap, SquashFromSquashAfter, SquashFromRunaheadExit,
       AcceptIewSquash, SquashAll, SignalSquash
  <2>2. phase' # "iew"
    BY <1>1 DEF SquashStep, SquashFromTrap, SquashFromSquashAfter, SquashFromRunaheadExit,
       AcceptIewSquash
  <2>3. QED  BY <2>1, <2>2 DEF FrontDead
<1>2. CASE RobWalk
  <2>1. status = "ROBSquashing" /\ ~FrontDead
    BY <1>2 DEF RobWalk, CycleOrder, FrontDead
  <2>2. QED  BY <2>1, <1>2 DEF RenameStops, RobWalk, renameVars
<1>3. CASE ~SquashStep /\ ~RobWalk
  <2>1. status = "ROBSquashing" /\ ~Retires /\ ~EnterRunahead
    BY <1>3, SquashingStays
  <2>2. CASE FrontEndSquash
    BY <2>2 DEF FrontEndSquash, CycleOrder
  <2>3. CASE FrontEndAdvance
    <3>1. renameNow = <<>>
      BY <2>1, <2>3 DEF FrontEndAdvance, FrontDead, RenameStops
    <3>2. renameNow' = renameNow
      BY <2>3 DEF FrontEndAdvance
    <3>3. renameNext' = SubSeq(fetchQueue, 1, 0)
      BY <2>1, <2>3 DEF FrontEndAdvance
    <3>4. fetchQueue \in Seq(Inst)
      BY DEF TypeOK, FrontType
    <3>5. SubSeq(fetchQueue, 1, 0) = <<>>
      BY <3>4
    <3>6. QED  BY <3>1, <3>2, <3>3, <3>5
  <2>4. CASE FrontEndDiscard \/ IewDone \/ IewExecute
    <3>1. ~FrontDead
      BY <2>4 DEF FrontEndDiscard, IewDone, IewExecute, FrontDead
    <3>2. UNCHANGED renameVars
      BY <2>4 DEF FrontEndDiscard, IewDone, IewExecute
    <3>3. QED  BY <2>1, <3>1, <3>2 DEF RenameStops, renameVars
  <2>5. CASE GetInsts
    <3>1. ~FrontDead
      BY <2>5 DEF GetInsts, FrontDead
    <3>2. QED  BY <2>1, <2>5, <3>1 DEF RenameStops, GetInsts
  <2>6. CASE UpdateRunaheadState
    <3>1. ~FrontDead
      BY <2>6 DEF UpdateRunaheadState, FrontDead
    <3>2. QED  BY <2>1, <2>6, <3>1 DEF RenameStops, UpdateRunaheadState
  <2>7. CASE Event \/ StartTick \/ SelectNothing \/ IgnoreIewSquash \/ TrapHead
             \/ IgnoreRunaheadFault \/ PoisonRunaheadLLL \/ StopCommit
             \/ SquashFromSquashAfter
    <3>1. phase # "iew" /\ sig' = sig
      BY <1>3, <2>7 DEF Event, LLLReturn, MemResponse, ForgedResponse, InFlightTooLong,
         DeadlineEvent, ProcessTrapEvent, StartTick, SelectNothing, IgnoreIewSquash,
         TrapHead, IgnoreRunaheadFault, PoisonRunaheadLLL, StopCommit, ReadyHead, LLLAtHead,
         AtHead, SquashFromSquashAfter, SquashStep
    <3>2. UNCHANGED renameVars
      BY <2>7 DEF Event, LLLReturn, MemResponse, ForgedResponse, InFlightTooLong,
         DeadlineEvent, ProcessTrapEvent, StartTick, SelectNothing, IgnoreIewSquash,
         TrapHead, IgnoreRunaheadFault, PoisonRunaheadLLL, StopCommit, SquashFromSquashAfter
    <3>3. phase' # "iew"
      BY <3>1, <2>7 DEF Event, LLLReturn, MemResponse, ForgedResponse, InFlightTooLong,
         DeadlineEvent, ProcessTrapEvent, StartTick, SelectNothing, IgnoreIewSquash,
         TrapHead, IgnoreRunaheadFault, PoisonRunaheadLLL, StopCommit, SquashFromSquashAfter
    <3>4. ~FrontDead
      BY <3>1, <3>3 DEF FrontDead
    <3>5. QED  BY <2>1, <3>2, <3>4 DEF RenameStops, renameVars
  <2>8. QED
    BY <1>3, <2>1, <2>2, <2>3, <2>4, <2>5, <2>6, <2>7 DEF Next, Tick, Retires, SquashStep
<1>4. QED  BY <1>1, <1>2, <1>3

\* Only commit reading what rename sent brings instructions into the ROB.
LEMMA RobOrigin ==
  ASSUME TypeOK, Next, ~GetInsts
  PROVE  \A k \in DOMAIN rob' : \E j \in DOMAIN rob :
           rob'[k].sn = rob[j].sn /\ (rob[j].squashed => rob'[k].squashed)
<1>1. CASE Retires
  <2>1. rob # <<>> /\ rob' = Tail(rob)
    BY <1>1 DEF Retires, RetireSquashed, CommitHead, ReadyHead, AtHead
  <2>2. /\ rob \in Seq(Inst) /\ DOMAIN rob = 1..Len(rob) /\ Len(rob) \in Nat \ {0}
        /\ DOMAIN rob' = 1..(Len(rob) - 1)
        /\ \A k \in DOMAIN rob' : rob'[k] = rob[k + 1]
    BY <2>1, SeqTypes, EmptySeq DEF TypeOK, RobType
  <2>3. \A k \in DOMAIN rob' : k + 1 \in DOMAIN rob
    BY <2>2
  <2>4. QED  BY <2>2, <2>3
<1>2. CASE EnterRunahead
  <2>1. /\ DOMAIN rob' = DOMAIN rob
        /\ \A k \in DOMAIN rob : rob'[k].sn = rob[k].sn
    BY <1>2, EnterChange
  <2>2. \A k \in DOMAIN rob : rob'[k].squashed = rob[k].squashed
    <3>1. /\ rob' = [SetRunahead(rob) EXCEPT ![1].poisoned = TRUE]
          /\ rob \in Seq(Inst) /\ \A k \in DOMAIN rob : rob[k] \in Inst
      BY <1>2, SeqTypes DEF EnterRunahead, TypeOK, RobType
    <3>2. /\ DOMAIN SetRunahead(rob) = DOMAIN rob
          /\ \A k \in DOMAIN rob : SetRunahead(rob)[k] = [rob[k] EXCEPT !.runahead = TRUE]
      BY DEF SetRunahead
    <3>3. \A k \in DOMAIN rob :
            rob'[k] = IF k = 1 THEN [[rob[1] EXCEPT !.runahead = TRUE] EXCEPT !.poisoned = TRUE]
                      ELSE [rob[k] EXCEPT !.runahead = TRUE]
      BY <3>1, <3>2
    <3>4. \A i \in Inst :
            /\ [i EXCEPT !.runahead = TRUE].squashed = i.squashed
            /\ [[i EXCEPT !.runahead = TRUE] EXCEPT !.poisoned = TRUE].squashed = i.squashed
      BY DEF Inst
    <3>5. ASSUME NEW k \in DOMAIN rob
          PROVE  rob'[k].squashed = rob[k].squashed
      <4>1. CASE k = 1  BY <3>1, <3>3, <3>4, <4>1
      <4>2. CASE k # 1  BY <3>1, <3>3, <3>4, <4>2
      <4>3. QED  BY <4>1, <4>2
    <3>6. QED  BY <3>5
  <2>3. QED  BY <2>1, <2>2
<1>3. CASE ~Retires /\ ~EnterRunahead
  BY <1>3, RobChange DEF Updated
<1>4. QED  BY <1>1, <1>2, <1>3

LEMMA GetRob ==
  ASSUME TypeOK, GetInsts
  PROVE  /\ UNCHANGED <<rob, youngestSeqNum>>
            \/ /\ status # "ROBSquashing" /\ renameNow # <<>>
               /\ rob' = rob \o renameNow
               /\ youngestSeqNum' = renameNow[Len(renameNow)].sn
         /\ UNCHANGED <<squashIt, squashTo, status>>
         /\ \A k \in DOMAIN rob' :
              \/ k \in DOMAIN rob /\ rob'[k] = rob[k]
              \/ /\ status # "ROBSquashing"
                 /\ \E j \in DOMAIN renameNow : rob'[k] = renameNow[j]
         /\ DOMAIN rob \subseteq DOMAIN rob'
<1>1. rob \in Seq(Inst) /\ renameNow \in Seq(Inst)
  BY DEF TypeOK, RobType, RenameType
<1>2. UNCHANGED <<squashIt, squashTo, status>>
  BY DEF GetInsts
<1>3. CASE UNCHANGED <<rob, youngestSeqNum>>
  BY <1>2, <1>3
<1>4. CASE ~UNCHANGED <<rob, youngestSeqNum>>
  <2>1. /\ status # "ROBSquashing" /\ renameNow # <<>>
        /\ rob' = rob \o renameNow
        /\ youngestSeqNum' = renameNow[Len(renameNow)].sn
    BY <1>4 DEF GetInsts
  <2>2. /\ DOMAIN rob = 1..Len(rob) /\ Len(rob) \in Nat
        /\ DOMAIN renameNow = 1..Len(renameNow) /\ Len(renameNow) \in Nat
        /\ DOMAIN rob' = 1..(Len(rob) + Len(renameNow))
        /\ \A k \in DOMAIN rob' : rob'[k] = IF k <= Len(rob) THEN rob[k]
                                            ELSE renameNow[k - Len(rob)]
    BY <1>1, <2>1
  <2>3. \A k \in DOMAIN rob' : k <= Len(rob) => k \in DOMAIN rob
    BY <2>2
  <2>4. \A k \in DOMAIN rob' : ~(k <= Len(rob)) => k - Len(rob) \in DOMAIN renameNow
    BY <2>2
  <2>5. DOMAIN rob \subseteq DOMAIN rob'
    BY <2>2
  <2>6. QED  BY <1>2, <2>1, <2>2, <2>3, <2>4, <2>5
<1>5. QED  BY <1>3, <1>4

LEMMA YoungestKnownStep ==
  ASSUME TypeOK, AgeOrder, WalkReaches, YoungestKnown, Next
  PROVE  YoungestKnown'
<1> SUFFICES ASSUME status' # "ROBSquashing", NEW k \in DOMAIN rob', ~rob'[k].squashed
             PROVE  rob'[k].sn <= youngestSeqNum'
  BY DEF YoungestKnown
<1>1. ~SquashStep
  BY DEF SquashStep, SquashFromTrap, SquashFromSquashAfter, SquashFromRunaheadExit,
     AcceptIewSquash, SquashAll
<1>2. /\ rob \in Seq(Inst) /\ youngestSeqNum \in Int
      /\ \A j \in DOMAIN rob : rob[j].sn \in Nat
  BY SeqTypes, InstFields DEF TypeOK, RobType, CommitType
<1>3. CASE RobWalk
  <2>1. /\ UNCHANGED <<rob, youngestSeqNum>>
        /\ status = "ROBSquashing" => squashIt = 0
    BY <1>3 DEF RobWalk
  <2>2. 0 \notin DOMAIN rob
    BY <1>2, SeqTypes
  <2>3. CASE status = "ROBSquashing"
    <3>1. ~(rob[k].sn > youngestSeqNum)
      BY <2>1, <2>2, <2>3 DEF WalkReaches, ToBeMarked
    <3>2. QED  BY <1>2, <2>1, <3>1
  <2>4. CASE status # "ROBSquashing"
    BY <2>1, <2>4 DEF YoungestKnown
  <2>5. QED  BY <2>3, <2>4
<1>4. CASE GetInsts
  <2>1. status # "ROBSquashing"
    BY <1>4, GetRob
  <2>2. CASE UNCHANGED <<rob, youngestSeqNum>>
    BY <2>1, <2>2 DEF YoungestKnown
  <2>3. CASE /\ renameNow # <<>>
             /\ youngestSeqNum' = renameNow[Len(renameNow)].sn
    <3>1. /\ renameNow \in Seq(Inst) /\ DOMAIN renameNow = 1..Len(renameNow)
          /\ Len(renameNow) \in Nat
          /\ \A j \in DOMAIN renameNow : renameNow[j].sn \in Nat
      BY SeqTypes, InstFields DEF TypeOK, RenameType
    <3>2. Len(renameNow) \in DOMAIN renameNow
      BY <2>3, <3>1, EmptySeq
    <3>3. CASE k \in DOMAIN rob /\ rob'[k] = rob[k]
      BY <1>2, <2>3, <3>1, <3>2, <3>3 DEF AgeOrder, Before
    <3>4. CASE \E j \in DOMAIN renameNow : rob'[k] = renameNow[j]
      <4>1. PICK j \in DOMAIN renameNow : rob'[k] = renameNow[j]
        BY <3>4
      <4>2. j < Len(renameNow) => renameNow[j].sn < renameNow[Len(renameNow)].sn
        BY <3>2 DEF AgeOrder, Sorted
      <4>3. QED  BY <2>3, <3>1, <3>2, <4>1, <4>2
    <3>5. QED  BY <1>4, <3>3, <3>4, GetRob
  <2>4. QED  BY <1>4, <2>1, <2>2, <2>3, GetRob
<1>5. CASE ~RobWalk /\ ~GetInsts
  <2>1. youngestSeqNum' = youngestSeqNum /\ status # "ROBSquashing"
    <3>1. CASE SquashFromSquashAfter
      BY <1>1, <3>1 DEF SquashFromSquashAfter, SquashStep
    <3>2. CASE ~SquashFromSquashAfter
      BY <1>1, <1>5, <3>2, WalkUnchanged DEF SquashStep
    <3>3. QED  BY <3>1, <3>2
  <2>2. PICK j \in DOMAIN rob :
          rob'[k].sn = rob[j].sn /\ (rob[j].squashed => rob'[k].squashed)
    BY <1>5, RobOrigin
  <2>3. QED  BY <2>1, <2>2 DEF YoungestKnown
<1>6. QED  BY <1>3, <1>4, <1>5

\* What is poisoned by a step was poisoned or is runahead.
PoisonFresh ==
  \A k \in DOMAIN rob : rob'[k].poisoned => rob[k].poisoned \/ rob[k].runahead

LEMMA ReplacePoison ==
  ASSUME TypeOK, NEW k \in DOMAIN rob, NEW inst, rob' = [rob EXCEPT ![k] = inst],
         inst.poisoned => rob[k].poisoned \/ rob[k].runahead
  PROVE  PoisonFresh
BY SeqTypes DEF PoisonFresh, TypeOK, RobType

LEMMA MarkPoison ==
  ASSUME TypeOK, NEW K, rob' = MarkSquashed(rob, K)
  PROVE  PoisonFresh
<1>1. \A k \in DOMAIN rob : rob[k] \in Inst
  BY SeqTypes DEF TypeOK, RobType
<1>2. \A i \in Inst : [i EXCEPT !.squashed = TRUE].poisoned = i.poisoned
  BY DEF Inst
<1>3. ASSUME NEW k \in DOMAIN rob
      PROVE  rob'[k].poisoned = rob[k].poisoned
  <2>1. CASE k \in K
    BY <1>1, <1>2, <2>1 DEF MarkSquashed
  <2>2. CASE k \notin K
    BY <2>2 DEF MarkSquashed
  <2>3. QED  BY <2>1, <2>2
<1>4. QED  BY <1>3 DEF PoisonFresh

LEMMA IewPoison ==
  ASSUME TypeOK, NEW k \in DOMAIN rob, IewStep(k)
  PROVE  PoisonFresh
<1>1. rob \in Seq(Inst) /\ rob[k] \in Inst
  BY SeqTypes DEF TypeOK, RobType
<1>2. \A i \in Inst : [i EXCEPT !.squashed = TRUE].poisoned = i.poisoned
  BY DEF Inst
<1>3. CASE SkipSquashed(k)
  <2>1. PICK inst : /\ inst.poisoned = rob[k].poisoned
                    /\ rob' = [rob EXCEPT ![k] = inst]
    BY <1>1, <1>2, <1>3 DEF SkipSquashed
  <2>2. QED  BY <2>1, ReplacePoison
<1>4. CASE ExecutePoisoned(k)
  <2>1. PICK inst : rob[k].runahead /\ rob' = [rob EXCEPT ![k] = inst]
    BY <1>4 DEF ExecutePoisoned, Complete
  <2>2. QED  BY <2>1, ReplacePoison
<1>5. CASE ExecuteShort(k)
  <2>1. \A i \in Inst, b \in BOOLEAN :
          [[i EXCEPT !.fault = b] EXCEPT !.state = "executed"].poisoned = i.poisoned
    BY DEF Inst
  <2>2. (rob[k].fault \/ FaultsAtExecute(rob[k])) \in BOOLEAN
    OBVIOUS
  <2>3. PICK inst : /\ inst.poisoned = rob[k].poisoned
                    /\ rob' = [rob EXCEPT ![k] = inst]
    BY <1>1, <1>5, <2>1, <2>2 DEF ExecuteShort, Complete
  <2>4. QED  BY <2>3, ReplacePoison
<1>6. CASE SendLoad(k)
  <2>1. \A i \in Inst, s \in States : [i EXCEPT !.state = s].poisoned = i.poisoned
    BY DEF Inst
  <2>2. (IF InFlightThreshold = 0 THEN "old" ELSE "sent") \in States
    BY DEF States
  <2>3. PICK inst : /\ inst.poisoned = rob[k].poisoned
                    /\ rob' = [rob EXCEPT ![k] = inst]
    BY <1>1, <1>6, <2>1, <2>2 DEF SendLoad
  <2>4. QED  BY <2>3, ReplacePoison
<1>7. CASE ExecuteBranch(k) \/ ExecuteStore(k)
  <2>1. [rob[k] EXCEPT !.state = "executed"].poisoned = rob[k].poisoned
    BY <1>1 DEF Inst
  <2>2. rob' = [rob EXCEPT ![k] = [rob[k] EXCEPT !.state = "executed"]]
    BY <1>7 DEF ExecuteBranch, ExecuteStore, Complete
  <2>3. QED  BY <2>1, <2>2, ReplacePoison
<1>8. QED  BY <1>3, <1>4, <1>5, <1>6, <1>7 DEF IewStep

LEMMA SamePoison ==
  ASSUME rob' = rob
  PROVE  PoisonFresh
BY DEF PoisonFresh

LEMMA WriteBackPoison ==
  ASSUME TypeOK, NEW K, WriteBackLoads(K)
  PROVE  PoisonFresh
<1>1. \A k \in DOMAIN rob : rob[k] \in Inst
  BY SeqTypes DEF TypeOK, RobType
<1>2. \A i \in Inst : [i EXCEPT !.state = "executed"].poisoned = i.poisoned
  BY DEF Inst
<1>3. QED  BY <1>1, <1>2 DEF WriteBackLoads, PoisonFresh

LEMMA RobSquashPoison ==
  ASSUME TypeOK, NEW to, RobSquash(to)
  PROVE  PoisonFresh
BY MarkPoison, SamePoison DEF RobSquash, robVars

LEMMA PoisonIsRunaheadStep ==
  ASSUME TypeOK, AllInRunahead, FrontFresh, PoisonIsRunahead, Next
  PROVE  PoisonIsRunahead'
<1>1. CASE EnterRunahead
  BY <1>1, EnterChange DEF PoisonIsRunahead, AllRunahead
<1>2. CASE GetInsts
  <2>1. \A j \in DOMAIN renameNow : ~renameNow[j].poisoned
    BY DEF FrontFresh, Front, Insts
  <2>2. QED  BY <1>2, <2>1, GetRob DEF PoisonIsRunahead
<1>3. CASE Retires
  <2>1. rob # <<>> /\ rob' = Tail(rob)
    BY <1>3 DEF Retires, RetireSquashed, CommitHead, ReadyHead, AtHead
  <2>2. /\ rob \in Seq(Inst) /\ DOMAIN rob = 1..Len(rob) /\ Len(rob) \in Nat \ {0}
        /\ DOMAIN rob' = 1..(Len(rob) - 1)
        /\ \A k \in DOMAIN rob' : rob'[k] = rob[k + 1]
    BY <2>1, SeqTypes, EmptySeq DEF TypeOK, RobType
  <2>3. \A k \in DOMAIN rob' : k + 1 \in DOMAIN rob
    BY <2>2
  <2>4. QED  BY <2>2, <2>3 DEF PoisonIsRunahead
<1>4. CASE ~EnterRunahead /\ ~GetInsts /\ ~Retires
  <2>1. Updated(rob, rob')
    BY <1>4, RobChange
  <2>2. PoisonFresh
    <3>1. CASE Event
      <4>1. CASE InFlightTooLong
        <5>1. 1 \in DOMAIN rob /\ rob[1] \in Inst
          BY <4>1, HeadType DEF Head0, InFlightTooLong
        <5>2. [rob[1] EXCEPT !.state = "old"].poisoned = rob[1].poisoned
          BY <5>1 DEF Inst
        <5>3. rob' = [rob EXCEPT ![1] = [rob[1] EXCEPT !.state = "old"]]
          BY <4>1 DEF InFlightTooLong
        <5>4. QED  BY <5>1, <5>2, <5>3, ReplacePoison
      <4>2. QED
        BY <3>1, <4>1, WriteBackPoison, SamePoison DEF Event, LLLReturn,
           MemResponse, ForgedResponse, DeadlineEvent, ProcessTrapEvent, robVars
    <3>2. CASE IewExecute
      BY <3>2, IewPoison DEF IewExecute, IewStep
    <3>3. CASE RobWalk
      BY <3>3, MarkPoison, SamePoison DEF RobWalk
    <3>4. CASE SquashFromTrap \/ SquashFromSquashAfter
      BY <3>4, RobSquashPoison, SamePoison
         DEF SquashFromTrap, SquashFromSquashAfter, SquashAll, robVars
    <3>5. CASE SquashFromRunaheadExit \/ AcceptIewSquash
      BY <3>5, RobSquashPoison DEF SquashFromRunaheadExit, AcceptIewSquash
    <3>6. CASE IgnoreRunaheadFault \/ PoisonRunaheadLLL
      <4>1. rob # <<>>
        BY <3>6 DEF IgnoreRunaheadFault, PoisonRunaheadLLL, ReadyHead, LLLAtHead, AtHead
      <4>2. 1 \in DOMAIN rob
        BY <4>1, HeadType
      <4>3. rob[1].runahead
        BY <3>6, <4>2 DEF IgnoreRunaheadFault, PoisonRunaheadLLL, IgnoresFault, Head0,
           AllInRunahead, AllRunahead
      <4>4. rob' = [rob EXCEPT ![1] = [rob[1] EXCEPT !.poisoned = TRUE]]
        BY <3>6 DEF IgnoreRunaheadFault, PoisonRunaheadLLL
      <4>5. QED  BY <4>2, <4>3, <4>4, ReplacePoison
    <3>7. CASE UpdateRunaheadState
      <4>1. \A k \in DOMAIN rob : rob[k] \in Inst
        BY SeqTypes DEF TypeOK, RobType
      <4>2. \A i \in Inst : [i EXCEPT !.state = "done"].poisoned = i.poisoned
        BY DEF Inst
      <4>3. rob' = MarkCompleted
        BY <3>7 DEF UpdateRunaheadState
      <4>4. QED  BY <4>1, <4>2, <4>3 DEF MarkCompleted, PoisonFresh
    <3>8. CASE \/ StartTick \/ FrontEndSquash \/ FrontEndAdvance \/ FrontEndDiscard
               \/ IewDone \/ SelectNothing \/ IgnoreIewSquash \/ TrapHead \/ StopCommit
      BY <3>8, SamePoison DEF StartTick, FrontEndSquash, FrontEndAdvance,
         FrontEndDiscard, IewDone, SelectNothing, IgnoreIewSquash, TrapHead,
         StopCommit, robVars
    <3>9. QED
      BY <1>4, <3>1, <3>2, <3>3, <3>4, <3>5, <3>6, <3>7, <3>8 DEF Next, Tick, Retires
  <2>3. QED  BY <2>1, <2>2 DEF Updated, PoisonFresh, PoisonIsRunahead
<1>5. QED  BY <1>1, <1>2, <1>3, <1>4

LEMMA SquashSignal ==
  ASSUME TypeOK, AgeOrder, CommittedIsOldest, CauseIsOldest, NumbersHandedOut, SquashStep
  PROVE  \E to \in Int :
           /\ to < nextSn /\ RobSquash(to) /\ status' = "ROBSquashing"
           /\ \E newPc : SignalSquash(to, newPc)
           /\ youngestSeqNum' \in Int /\ (rob # <<>> => youngestSeqNum' <= to)
<1>1. /\ nextSn \in Nat /\ lastCommitedSeqNum \in Nat /\ lastCommitedSeqNum < nextSn
      /\ iewNow.sn \in Nat /\ exitCause.sn \in Nat /\ runaheadCause.sn \in Nat
      /\ exitCause.sn < nextSn
  BY DEF TypeOK, FrontType, CommitType, IewType, IewMsg, ExitType, ModeType, Cause,
     CommittedIsOldest, CauseIsOldest
<1>2. CASE SquashAll
  <2> DEFINE to == IF rob = <<>> THEN lastCommitedSeqNum ELSE Head0.sn - 1
  <2>1. /\ RobSquash(to) /\ SignalSquash(to, pc) /\ status' = "ROBSquashing"
        /\ youngestSeqNum' = lastCommitedSeqNum
    BY <1>2 DEF SquashAll
  <2>2. /\ to \in Int /\ to < nextSn
        /\ rob # <<>> => lastCommitedSeqNum <= to
    <3>1. CASE rob = <<>>
      BY <1>1, <3>1
    <3>2. CASE rob # <<>>
      <4>1. 1 \in DOMAIN rob /\ rob[1].sn \in Nat
        BY <3>2, HeadType, InstFields DEF Head0
      <4>2. lastCommitedSeqNum + 1 <= rob[1].sn /\ rob[1].sn < nextSn
        BY <4>1 DEF CommittedIsOldest, NotOlder, AgeOrder, NumberedBelow
      <4>3. QED  BY <1>1, <3>2, <4>1, <4>2 DEF Head0
    <3>3. QED  BY <3>1, <3>2
  <2> HIDE DEF to
  <2>3. QED  BY <1>1, <2>1, <2>2
<1>3. CASE SquashFromRunaheadExit
  <2>1. /\ RobSquash(exitCause.sn - 1) /\ SignalSquash(exitCause.sn - 1, ResumePc)
        /\ status' = "ROBSquashing" /\ youngestSeqNum' = exitCause.sn - 1
    BY <1>3 DEF SquashFromRunaheadExit
  <2>2. exitCause.sn - 1 \in Int /\ exitCause.sn - 1 < nextSn
    BY <1>1
  <2>3. QED  BY <2>1, <2>2
<1>4. CASE AcceptIewSquash
  <2> DEFINE to == IF iewNow.include THEN iewNow.sn - 1 ELSE iewNow.sn
  <2>1. /\ RobSquash(to) /\ SignalSquash(to, iewNow.pc)
        /\ status' = "ROBSquashing" /\ youngestSeqNum' = to
    BY <1>4 DEF AcceptIewSquash
  <2>2. iewNow.sn < nextSn
    BY <1>4 DEF AcceptIewSquash, IewSquashCounts, NumbersHandedOut
  <2>3. to \in Int /\ to < nextSn
    BY <1>1, <2>2
  <2> HIDE DEF to
  <2>4. QED  BY <2>1, <2>3
<1>5. QED
  BY <1>2, <1>3, <1>4 DEF SquashStep, SquashFromTrap, SquashFromSquashAfter

\* The range IEW goes by changes with a squash of commit only.
LEMMA RangeKept ==
  ASSUME Next, ~SquashStep
  PROVE  /\ RangeAfterSignal' = RangeAfterSignal
         /\ ~IewDone => sig' = sig
<1>1. CASE IewDone
  BY <1>1 DEF IewDone, RangeAfterSignal, NoSig
<1>2. CASE ~IewDone
  <2>1. UNCHANGED <<sig, iewRange>>
    BY <1>2 DEF Next, Event, Tick, SquashStep, LLLReturn, MemResponse, ForgedResponse,
       InFlightTooLong, DeadlineEvent, ProcessTrapEvent, StartTick, FrontEndSquash,
       FrontEndAdvance, FrontEndDiscard, IewExecute, RobWalk, SquashFromSquashAfter,
       SelectNothing, IgnoreIewSquash, GetInsts, RetireSquashed, CommitHead, TrapHead,
       IgnoreRunaheadFault, EnterRunahead, PoisonRunaheadLLL, StopCommit,
       UpdateRunaheadState, iewVars
  <2>2. QED  BY <2>1 DEF RangeAfterSignal
<1>3. QED  BY <1>1, <1>2

\* In front of the ROB all is live again once fetch has taken the squash.
LEMMA FrontRevives ==
  ASSUME CycleOrder, Next, ~SquashStep, ~FrontEndSquash, ~FrontDead'
  PROVE  ~FrontDead
<1> SUFFICES ASSUME FrontDead PROVE FALSE  OBVIOUS
<1>1. ~IewDone /\ ~FrontEndAdvance /\ ~FrontEndDiscard /\ ~IewExecute
  BY DEF FrontDead, IewDone, FrontEndAdvance, FrontEndDiscard, IewExecute
<1>2. sig' = sig
  BY <1>1, RangeKept
<1>3. phase' # "iew"
  BY <1>1 DEF Next, Event, Tick, FrontDead, SquashStep, LLLReturn, MemResponse,
     ForgedResponse, InFlightTooLong, DeadlineEvent, ProcessTrapEvent, StartTick, RobWalk,
     SquashFromSquashAfter, SelectNothing, IgnoreIewSquash, GetInsts, RetireSquashed,
     CommitHead, TrapHead, IgnoreRunaheadFault, EnterRunahead, PoisonRunaheadLLL,
     StopCommit, UpdateRunaheadState, ReadyHead, LLLAtHead, AtHead
<1>4. QED  BY <1>2, <1>3 DEF FrontDead

\* The dead stay dead, and what joins the ROB was live in front of it.
LEMMA DeadStays ==
  ASSUME TypeOK, AgeOrder, CycleOrder, WalkReaches, Next, ~SquashStep, NEW k \in DOMAIN rob'
  PROVE  \/ \E j \in DOMAIN rob : /\ rob'[k].sn = rob[j].sn
                                  /\ RobDead(j) => RobDead(k)'
         \/ ~FrontDead /\ rob'[k] \in Front
<1>1. CASE RobWalk
  <2>1. rob \in Seq(Inst)
    BY DEF TypeOK, RobType
  <2>2. Updated(rob, rob')
    BY <1>1, RobChange DEF RobWalk, GetInsts, Retires, RetireSquashed, CommitHead, ReadyHead,
       AtHead, EnterRunahead, LLLAtHead
  <2>3. k \in DOMAIN rob /\ rob'[k].sn = rob[k].sn
    BY <2>2 DEF Updated
  <2>4. RobDead(k)' <=> RobDead(k)
    BY <1>1, <2>3, WalkDead
  <2>5. QED  BY <2>3, <2>4
<1>2. CASE GetInsts
  <2>1. CASE UNCHANGED <<rob, youngestSeqNum>>
    <3>1. UNCHANGED <<squashIt, squashTo, status>>
      BY <1>2, GetRob
    <3>2. RobDead(k)' <=> RobDead(k)
      BY <2>1, <3>1, SameRob
    <3>3. QED  BY <2>1, <3>2
  <2>2. CASE ~UNCHANGED <<rob, youngestSeqNum>>
    <3>1. status # "ROBSquashing"
      BY <1>2, <2>2, GetRob
    <3>2. ~FrontDead
      BY <3>1 DEF FrontDead, CycleOrder
    <3>3. CASE k \in DOMAIN rob /\ rob'[k] = rob[k]
      BY <3>1, <3>3, DeadIsMarked DEF RobDead
    <3>4. CASE \E j \in DOMAIN renameNow : rob'[k] = renameNow[j]
      BY <3>2, <3>4 DEF Front, Insts
    <3>5. QED  BY <1>2, <3>3, <3>4, GetRob
  <2>3. QED  BY <2>1, <2>2
<1>3. CASE ~RobWalk /\ ~GetInsts
  <2>1. CASE status # "ROBSquashing"
    <3>1. PICK j \in DOMAIN rob :
            rob'[k].sn = rob[j].sn /\ (rob[j].squashed => rob'[k].squashed)
      BY <1>3, RobOrigin
    <3>2. RobDead(j) => RobDead(k)'
      BY <2>1, <3>1, DeadIsMarked DEF RobDead
    <3>3. QED  BY <3>1, <3>2
  <2>2. CASE status = "ROBSquashing"
    <3>1. ~Retires /\ ~EnterRunahead /\ ~SquashFromSquashAfter
      BY <2>2 DEF Retires, RetireSquashed, CommitHead, ReadyHead, EnterRunahead, LLLAtHead,
         AtHead, SquashFromSquashAfter
    <3>2. Updated(rob, rob')
      BY <1>3, <3>1, RobChange
    <3>3. /\ UNCHANGED <<squashIt, squashTo, youngestSeqNum>> /\ status' = "ROBSquashing"
      BY <1>3, <2>2, <3>1, WalkUnchanged DEF SquashStep
    <3>4. k \in DOMAIN rob /\ DOMAIN rob' = DOMAIN rob /\ rob'[k].sn = rob[k].sn
          /\ (rob[k].squashed => rob'[k].squashed)
      BY <3>2 DEF Updated
    <3>5. ToBeMarked(k) => ToBeMarked(k)'
      BY <3>3, <3>4 DEF ToBeMarked
    <3>6. QED  BY <3>4, <3>5 DEF RobDead
  <2>3. QED  BY <2>1, <2>2
<1>4. QED  BY <1>1, <1>2, <1>3

LEMMA RangeDeadStep ==
  ASSUME TypeOK, TypeOK', AgeOrder, CycleOrder, CommittedIsOldest, CauseIsOldest,
         WalkReaches, NumbersHandedOut, RangeDead, Next
  PROVE  RangeDead'
<1>0. /\ rob \in Seq(Inst) /\ nextSn \in Nat /\ nextSn' \in Nat
      /\ \A j \in DOMAIN rob : rob[j].sn \in Nat
      /\ RangeAfterSignal.lo \in Int /\ RangeAfterSignal.hi \in Int
  BY SeqTypes, InstFields
     DEF TypeOK, RobType, FrontType, SigType, IewType, RangeAfterSignal
<1>1. CASE SquashStep
  <2>1. PICK to \in Int :
          /\ to < nextSn /\ RobSquash(to) /\ status' = "ROBSquashing"
          /\ \E newPc : SignalSquash(to, newPc)
          /\ youngestSeqNum' \in Int /\ (rob # <<>> => youngestSeqNum' <= to)
    BY <1>1, SquashSignal
  <2>2. /\ sig'.squash /\ sig'.done = to /\ sig'.tail = RobTail(to)
    BY <2>1 DEF SignalSquash
  <2>3. RangeAfterSignal' = [lo |-> to, hi |-> RobTail(to)]
    BY <2>2 DEF RangeAfterSignal
  <2>4. nextSn' = nextSn
    BY <1>1 DEF SquashStep, SquashFromTrap, SquashFromSquashAfter, SquashFromRunaheadExit,
       AcceptIewSquash, frontVars
  <2>5. RobTail(to) < nextSn
    <3>1. CASE rob = <<>>
      BY <2>1, <3>1 DEF RobTail
    <3>2. CASE rob # <<>>
      <4>1. Len(rob) \in DOMAIN rob
        BY <1>0, <3>2, SeqTypes, EmptySeq
      <4>2. QED  BY <3>2, <4>1 DEF RobTail, AgeOrder, NumberedBelow
    <3>3. QED  BY <3>1, <3>2
  <2>6. ASSUME NEW k \in DOMAIN rob', rob'[k].sn > to
        PROVE  RobDead(k)'
    <3>1. Updated(rob, rob')
      BY <1>0, <2>1, RobSquashUpdated
    <3>2. k \in DOMAIN rob /\ rob[k].sn > to
      BY <2>6, <3>1 DEF Updated
    <3>3. rob # <<>>
      BY <3>2, EmptySeq
    <3>4. QED  BY <2>1, <3>2, <3>3, SquashCoversFrom DEF RobDead
  <2>7. FrontDead'
    <3>1. phase' # "iew"
      BY <1>1 DEF SquashStep, SquashFromTrap, SquashFromSquashAfter, SquashFromRunaheadExit,
         AcceptIewSquash
    <3>2. QED  BY <2>2, <3>1 DEF FrontDead
  <2>8. QED  BY <2>3, <2>4, <2>5, <2>6, <2>7 DEF RangeDead
<1>2. CASE ~SquashStep
  <2>1. RangeAfterSignal' = RangeAfterSignal
    BY <1>2, RangeKept
  <2>2. RangeAfterSignal.hi < nextSn /\ nextSn' \in {nextSn, nextSn + 1}
    BY FrontGrows DEF RangeDead
  <2>3. RangeAfterSignal'.hi < nextSn'
    BY <1>0, <2>1, <2>2
  <2>4. ASSUME NEW k \in DOMAIN rob',
               rob'[k].sn > RangeAfterSignal.lo, rob'[k].sn <= RangeAfterSignal.hi
        PROVE  RobDead(k)'
    <3>1. CASE \E j \in DOMAIN rob : /\ rob'[k].sn = rob[j].sn
                                     /\ RobDead(j) => RobDead(k)'
      BY <2>4, <3>1 DEF RangeDead
    <3>2. CASE ~FrontDead /\ rob'[k] \in Front
      <4>1. rob'[k].sn > RangeAfterSignal.hi
        BY <3>2 DEF RangeDead
      <4>2. rob'[k].sn \in Nat
        BY <3>2, FrontFacts
      <4>3. QED  BY <1>0, <2>4, <4>1, <4>2
    <3>3. QED  BY <1>2, <3>1, <3>2, DeadStays
  <2>5. ASSUME ~FrontDead', NEW i \in Front'
        PROVE  i.sn > RangeAfterSignal.hi
    <3>1. ~FrontEndSquash
      <4>1. ASSUME FrontEndSquash PROVE FALSE
        <5>1. renameNow' = <<>> /\ fetchQueue' = <<>> /\ renameNext' = <<>>
          BY <4>1 DEF FrontEndSquash, CycleOrder
        <5>2. QED  BY <2>5, <5>1, CutInsts DEF Front, Insts
      <4>2. QED  BY <4>1
    <3>2. ~FrontDead
      BY <1>2, <2>5, <3>1, FrontRevives
    <3>3. \A j \in Front : j \in Inst /\ j.sn > RangeAfterSignal.hi
      BY <3>2, FrontFacts DEF RangeDead
    <3>4. \A j \in Inst : [j EXCEPT !.runahead = TRUE].sn = j.sn
      BY DEF Inst
    <3>5. i \in Front \/ (\E j \in Front : i = [j EXCEPT !.runahead = TRUE]) \/ i.sn = nextSn
      BY <2>5, FrontGrows
    <3>6. QED  BY <1>0, <2>2, <3>3, <3>4, <3>5
  <2>6. QED  BY <2>1, <2>3, <2>4, <2>5 DEF RangeDead
<1>3. QED  BY <1>1, <1>2

\* Numbers in messages and requests are those of instructions in the ROB.
LEMMA IewNumbers ==
  ASSUME TypeOK, NEW k \in DOMAIN rob, IewStep(k)
  PROVE  /\ iewNext'.insts \subseteq iewNext.insts \cup {rob[k].sn}
         /\ mem' \subseteq mem \cup {rob[k].sn}
<1>1. rob[k] \in Inst /\ iewNext \in IewMsg
  BY SeqTypes DEF TypeOK, RobType, IewType
<1>2. \A i \in Inst, b \in BOOLEAN : /\ [i EXCEPT !.poisoned = TRUE].sn = i.sn
                                     /\ [i EXCEPT !.fault = b].sn = i.sn
  BY DEF Inst
<1>3. (rob[k].fault \/ FaultsAtExecute(rob[k])) \in BOOLEAN
  OBVIOUS
<1>5. CASE SkipSquashed(k)
  BY <1>5 DEF SkipSquashed
<1>6. CASE ExecutePoisoned(k)
  <2>1. [rob[k] EXCEPT !.poisoned = TRUE].sn = rob[k].sn
    BY <1>1, <1>2
  <2>2. iewNext' = [iewNext EXCEPT !.insts = @ \cup {[rob[k] EXCEPT !.poisoned = TRUE].sn}]
        /\ mem' = mem
    BY <1>6 DEF ExecutePoisoned, Complete
  <2>3. QED  BY <1>1, <2>1, <2>2 DEF IewMsg
<1>7. CASE ExecuteShort(k)
  <2>1. PICK inst : inst = [rob[k] EXCEPT !.fault = @ \/ FaultsAtExecute(rob[k])]
    OBVIOUS
  <2>2. inst.sn = rob[k].sn
    BY <1>1, <1>2, <1>3, <2>1
  <2>3. iewNext' = [iewNext EXCEPT !.insts = @ \cup {inst.sn}] /\ mem' = mem
    BY <1>7, <2>1 DEF ExecuteShort, Complete
  <2>4. QED  BY <1>1, <2>2, <2>3 DEF IewMsg
<1>8. CASE SendLoad(k)
  BY <1>8 DEF SendLoad
<1>9. CASE ExecuteBranch(k) \/ ExecuteStore(k)
  <2>1. PICK msg : /\ iewNext' = [msg EXCEPT !.insts = @ \cup {rob[k].sn}] /\ mem' = mem
                   /\ \/ msg = iewNext
                      \/ \E sn, include, newPc : msg = WithSquash(sn, include, newPc)
    <3>1. CASE ExecuteBranch(k)
      <4>1. Complete(k, rob[k], IF rob[k].mispred
                         THEN WithSquash(rob[k].sn, FALSE, BranchTarget(rob[k]))
                         ELSE iewNext) /\ mem' = mem
        BY <3>1 DEF ExecuteBranch
      <4>2. CASE rob[k].mispred
        BY ZenonT(60), <4>1, <4>2 DEF Complete
      <4>3. CASE ~rob[k].mispred
        BY <4>1, <4>3 DEF Complete
      <4>4. QED  BY <4>2, <4>3
    <3>2. CASE ExecuteStore(k)
      <4>1. mem' = mem
        BY <3>2 DEF ExecuteStore
      <4>2. CASE Complete(k, rob[k], iewNext)
        BY <4>1, <4>2 DEF Complete
      <4>3. ASSUME NEW j \in Violators(k),
                   Complete(k, rob[k], WithSquash(rob[j].sn, TRUE, rob[j].pos))
            PROVE  \E msg : /\ iewNext' = [msg EXCEPT !.insts = @ \cup {rob[k].sn}]
                            /\ mem' = mem
                            /\ \/ msg = iewNext
                               \/ \E sn, include, newPc : msg = WithSquash(sn, include, newPc)
        BY ZenonT(60), <4>1, <4>3 DEF Complete
      <4>4. QED  BY <3>2, <4>2, <4>3 DEF ExecuteStore
    <3>3. QED  BY <1>9, <3>1, <3>2
  <2>2. \A sn, include, newPc :
          LET m == WithSquash(sn, include, newPc)
          IN  [m EXCEPT !.insts = @ \cup {rob[k].sn}].insts = iewNext.insts \cup {rob[k].sn}
    BY <1>1 DEF WithSquash, IewMsg
  <2>3. [iewNext EXCEPT !.insts = @ \cup {rob[k].sn}].insts = iewNext.insts \cup {rob[k].sn}
    BY <1>1 DEF IewMsg
  <2>4. QED  BY <2>1, <2>2, <2>3
<1>10. QED  BY <1>5, <1>6, <1>7, <1>8, <1>9 DEF IewStep

LEMMA NumbersHandedOutStep ==
  ASSUME TypeOK, AgeOrder, CycleOrder, NumbersHandedOut, Next
  PROVE  NumbersHandedOut'
<1>1. /\ nextSn \in Nat /\ nextSn' \in {nextSn, nextSn + 1}
      /\ \A k \in DOMAIN rob : rob[k].sn \in Nat /\ rob[k].sn < nextSn
      /\ iewNow \in IewMsg /\ iewNext \in IewMsg /\ mem \in SUBSET Nat
  BY FrontGrows, SeqTypes, InstFields
     DEF TypeOK, FrontType, RobType, IewType, AgeOrder, NumberedBelow
<1>2. /\ iewNow.insts \subseteq Nat /\ iewNext.insts \subseteq Nat
      /\ iewNow.sn \in Nat /\ iewNext.sn \in Nat
  BY <1>1 DEF IewMsg
<1>3. \A sn \in Nat : sn < nextSn => sn < nextSn'
  BY <1>1
<1>4. CASE IewExecute
  <2>1. PICK k \in DOMAIN rob : IewStep(k)
    BY <1>4 DEF IewExecute, IewStep
  <2>2. /\ iewNext'.insts \subseteq iewNext.insts \cup {rob[k].sn}
        /\ mem' \subseteq mem \cup {rob[k].sn}
    BY <2>1, IewNumbers
  <2>3. iewNow' = iewNow
    BY <1>4 DEF IewExecute
  <2>4. iewNext'.squash => \/ iewNext.squash /\ iewNext'.sn = iewNext.sn
                           \/ \E j \in DOMAIN rob : iewNext'.sn = rob[j].sn
    BY <2>1, IewMessage
  <2>5. QED  BY <1>1, <1>2, <1>3, <2>2, <2>3, <2>4 DEF NumbersHandedOut
<1>5. ASSUME NEW K \in SUBSET DOMAIN rob, WriteBackLoads(K), iewNow' = iewNow,
             mem' \subseteq mem
      PROVE  NumbersHandedOut'
  <2>1. /\ iewNext'.insts = iewNext.insts \cup {rob[k].sn : k \in K}
        /\ iewNext'.squash = iewNext.squash /\ iewNext'.sn = iewNext.sn
    BY <1>1, <1>5 DEF WriteBackLoads, IewMsg
  <2>2. QED  BY <1>1, <1>2, <1>3, <1>5, <2>1 DEF NumbersHandedOut
<1>6. CASE UpdateRunaheadState
  <2>1. iewNow' = iewNext /\ iewNext' = NoIewMsg /\ mem' = mem
    BY <1>6 DEF UpdateRunaheadState
  <2>2. QED  BY <1>1, <1>2, <1>3, <2>1 DEF NumbersHandedOut, NoIewMsg
<1>7. ASSUME UNCHANGED <<iewNow, iewNext>>, mem' \subseteq mem
      PROVE  NumbersHandedOut'
  BY <1>1, <1>2, <1>3, <1>7 DEF NumbersHandedOut
<1>8. CASE \E sn \in mem : MemResponse(sn)
  BY <1>5, <1>8 DEF MemResponse
<1>9. CASE \E k \in DOMAIN rob : ForgedResponse(k)
  BY <1>5, <1>9 DEF ForgedResponse
<1>10. CASE \E sn \in mem : LLLReturn(sn)
  BY <1>7, <1>10 DEF LLLReturn, iewVars
<1>11. CASE \/ InFlightTooLong \/ \E sn \in deadlines : DeadlineEvent(sn)
            \/ ProcessTrapEvent
            \/ Tick /\ ~IewExecute /\ ~UpdateRunaheadState
  <2>1. UNCHANGED <<iewNow, iewNext, mem>>
    BY <1>11 DEF Tick, InFlightTooLong, DeadlineEvent, ProcessTrapEvent, StartTick,
       FrontEndSquash, FrontEndAdvance, FrontEndDiscard, IewDone, RobWalk, SquashFromTrap,
       SquashFromSquashAfter, SquashFromRunaheadExit, SelectNothing, AcceptIewSquash,
       IgnoreIewSquash, GetInsts, RetireSquashed, CommitHead, TrapHead,
       IgnoreRunaheadFault, EnterRunahead, PoisonRunaheadLLL, StopCommit, iewVars
  <2>2. QED  BY <1>7, <2>1
<1>12. QED  BY <1>4, <1>6, <1>8, <1>9, <1>10, <1>11 DEF Next, Event

LEMMA InitOrderInv == Init => OrderInv
<1> SUFFICES ASSUME Init PROVE OrderInv
  OBVIOUS
<1>1. /\ rob = <<>> /\ renameNow = <<>> /\ renameNext = <<>> /\ fetchQueue = <<>>
      /\ ~sig.squash /\ fetchPc = 1 /\ pc = 1 /\ ~inRunahead /\ status = "Running"
      /\ ~iewNow.squash /\ ~iewNext.squash /\ iewNow.insts = {} /\ iewNext.insts = {}
      /\ mem = {} /\ nextSn = 1 /\ iewRange = [lo |-> 0, hi |-> 0] /\ faults = Faulting
  BY DEF Init, NoSig, NoIewMsg, Faulting
<1>2. prog \in Seq(Kinds) /\ Len(prog) \in Nat
  BY ProgramAssumption DEF Init
<1>3. RobLive = {} /\ Front = {}
  BY <1>1 DEF RobLive, Front, Insts
<1>4. Flying = {} /\ Target = pc
  BY <1>1, <1>3 DEF Flying, Target, FrontDead
<1>5. Path = {}
  BY <1>4 DEF Path
<1>6. pc \in 1..EndOfProgram /\ pc \in 0..EndOfProgram /\ pc # 0
  BY <1>1, <1>2 DEF EndOfProgram
<1>7. InProgramOrder
  BY <1>4, <1>5, <1>6 DEF InProgramOrder, Connected
<1>8. WrongPathEnds /\ InstsTrue
  BY <1>4, <1>6 DEF WrongPathEnds, InstsTrue
<1>9. ProgramSane
  BY <1>1, <1>6 DEF ProgramSane, ArchPc
<1>10. FrontFresh /\ RenameStops /\ YoungestKnown /\ PoisonIsRunahead
  BY <1>1, <1>3 DEF FrontFresh, RenameStops, YoungestKnown, PoisonIsRunahead
<1>11. RangeDead
  BY <1>1, <1>3 DEF RangeDead, RangeAfterSignal
<1>12. NumbersHandedOut
  BY <1>1 DEF NumbersHandedOut
<1>13. QED
  BY <1>7, <1>8, <1>9, <1>10, <1>11, <1>12 DEF OrderInv

LEMMA OrderInvStutters ==
  ASSUME OrderInv, UNCHANGED vars
  PROVE  OrderInv'
<1>1. UNCHANGED <<phase, prog, fetchPc, nextSn, fetchQueue, renameNext, renameNow, rob,
                  squashIt, squashTo, mem, iewNext, iewNow, iewRange, sig, status, pc,
                  youngestSeqNum, faults, inRunahead, storedPc>>
  BY DEF vars, frontVars, renameVars, robVars, iewVars, commitVars, trapVars, modeVars
<1>2. /\ Front' = Front /\ FrontDead' = FrontDead /\ RobLive' = RobLive
      /\ RangeAfterSignal' = RangeAfterSignal
      /\ \A k \in DOMAIN rob : RobDead(k)' <=> RobDead(k)
  BY <1>1, SameRob, SameFront DEF FrontDead, RangeAfterSignal
<1>3. Flying' = Flying /\ Target' = Target
  BY <1>1, <1>2 DEF Flying, Target
<1>4. Path' = Path
  BY <1>3 DEF Path
<1>5. (Proceeding' <=> Proceeding) /\ EndOfProgram' = EndOfProgram
  BY <1>1 DEF Proceeding, EndOfProgram
<1>7. InProgramOrder'
  BY <1>1, <1>3, <1>4, <1>5 DEF OrderInv, InProgramOrder, Connected, Leads
<1>8. WrongPathEnds'
  BY <1>1, <1>3, <1>5 DEF OrderInv, WrongPathEnds, Unresolved
<1>9. InstsTrue'
  BY <1>1, <1>3, <1>5 DEF OrderInv, InstsTrue, TrueToProgram, Redirects
<1>10. ProgramSane'
  BY <1>1, <1>5 DEF OrderInv, ProgramSane, ArchPc, Faulting
<1>11. FrontFresh' /\ RenameStops' /\ YoungestKnown' /\ PoisonIsRunahead'
  BY <1>1, <1>2 DEF OrderInv, FrontFresh, RenameStops, YoungestKnown, PoisonIsRunahead
<1>12. RangeDead' /\ NumbersHandedOut'
  BY <1>1, <1>2 DEF OrderInv, RangeDead, NumbersHandedOut
<1>13. QED
  BY <1>7, <1>8, <1>9, <1>10, <1>11, <1>12 DEF OrderInv

LEMMA OrderInvStep ==
  TypeOK /\ PipelineInv /\ OrderInv /\ [Next]_vars => OrderInv'
<1> SUFFICES ASSUME TypeOK, PipelineInv, OrderInv, [Next]_vars PROVE OrderInv'
  OBVIOUS
<1>1. CASE Next
  <2>1. TypeOK'
    BY StepType
  <2>2. /\ AgeOrder /\ CauseIsOldest /\ CycleOrder /\ AllInRunahead /\ StaleInRob
        /\ ExitInRunahead /\ CommittedIsOldest /\ WalkReaches
    BY DEF PipelineInv, ModeInv, SquashInv
  <2>3. /\ ProgressInv /\ ProgramSane /\ FrontFresh /\ RenameStops /\ YoungestKnown
        /\ PoisonIsRunahead /\ RangeDead /\ NumbersHandedOut
    BY DEF OrderInv, ProgressInv
  <2>4. CommittedIsOldest' /\ CauseIsOldest' /\ WalkReaches'
    BY <1>1, <2>1, <2>2, CommittedIsOldestStep, CauseIsOldestStep, WalkReachesStep
  <2>5. ProgramSane'
    BY <1>1, <2>2, <2>3, MachineStep
  <2>6. ProgressInv'
    BY <1>1, <2>1, <2>4, <2>5, ProgressStep
  <2>7. FrontFresh' /\ RenameStops'
    BY <1>1, <2>2, <2>3, FrontFreshStep, RenameStopsStep
  <2>8. YoungestKnown' /\ PoisonIsRunahead'
    BY <1>1, <2>2, <2>3, YoungestKnownStep, PoisonIsRunaheadStep
  <2>9. RangeDead' /\ NumbersHandedOut'
    BY <1>1, <2>1, <2>2, <2>3, RangeDeadStep, NumbersHandedOutStep
  <2>10. QED
    BY <2>5, <2>6, <2>7, <2>8, <2>9 DEF OrderInv, ProgressInv
<1>2. CASE UNCHANGED vars
  BY <1>2, OrderInvStutters
<1>3. QED
  BY <1>1, <1>2

\* Whatever is in flight and not yet given up for dead is the program from the PC of
\* commit on, up to a misprediction that IEW has found or will find before commit
\* gets that far (iew.cc:430-470, commit.cc:1070-1149).
THEOREM OrderInvariance == Spec => []OrderInv
<1>1. TypeOK /\ PipelineInv /\ OrderInv /\ [Next]_vars => OrderInv'
  BY OrderInvStep
<1>2. Init => OrderInv
  BY InitOrderInv
<1>3. QED
  BY <1>1, <1>2, TypeInvariant, PipelineInvariance, PTL DEF Spec

\* Runahead is invisible to software (cpu.cc:1710-1858): with the PC saved at entry
\* standing for the PC while in runahead, the CPU implements the in-order machine.
THEOREM RunaheadInvisible == Spec => ArchitecturallyInOrder
<1>1. Init => Machine!Init
  BY DEF Init, Machine!Init
<1>2. TypeOK /\ PipelineInv /\ OrderInv /\ [Next]_vars => [Machine!Next]_(Machine!vars)
  <2> SUFFICES ASSUME TypeOK, PipelineInv, OrderInv, [Next]_vars
               PROVE  [Machine!Next]_(Machine!vars)
    OBVIOUS
  <2>1. CASE Next
    BY <2>1, MachineStep DEF Visible, PipelineInv, ModeInv, OrderInv, ProgressInv
  <2>2. CASE UNCHANGED vars
    BY <2>2 DEF vars, commitVars, trapVars, modeVars, Machine!vars
  <2>3. QED
    BY <2>1, <2>2
<1>3. QED
  BY <1>1, <1>2, TypeInvariant, PipelineInvariance, OrderInvariance, PTL
     DEF Spec, ArchitecturallyInOrder, Machine!Spec

-----------------------------------------------------------------------------
(* An instruction in the ROB only gets on: j is i, possibly later.         *)

Later(i, j) ==
  /\ j.sn = i.sn /\ j.kind = i.kind
  /\ i.fault => j.fault
  /\ i.poisoned => j.poisoned
  /\ i.state # "waiting" => j.state # "waiting"

GetsOn == DOMAIN rob' = DOMAIN rob /\ \A k \in DOMAIN rob : Later(rob[k], rob'[k])

LEMMA LaterFlags ==
  ASSUME NEW i \in Inst
  PROVE  /\ Later(i, i)
         /\ \A s \in States \ {"waiting"} : Later(i, [i EXCEPT !.state = s])
         /\ Later(i, [i EXCEPT !.squashed = TRUE])
         /\ Later(i, [i EXCEPT !.poisoned = TRUE])
         /\ Later(i, [i EXCEPT !.runahead = TRUE])
         /\ \A f \in BOOLEAN : (i.fault => f) => Later(i, [i EXCEPT !.fault = f])
  BY DEF Later, Inst

LEMMA LaterTwice ==
  ASSUME NEW i, NEW j, NEW m, Later(i, j), Later(j, m)
  PROVE  Later(i, m)
  BY DEF Later

LEMMA SameGetsOn ==
  ASSUME rob' = rob
  PROVE  GetsOn
  BY DEF GetsOn, Later

LEMMA ReplaceGetsOn ==
  ASSUME TypeOK, NEW k \in DOMAIN rob, NEW inst, rob' = [rob EXCEPT ![k] = inst],
         Later(rob[k], inst)
  PROVE  GetsOn
  BY SeqTypes DEF GetsOn, Later, TypeOK, RobType

LEMMA MarkGetsOn ==
  ASSUME TypeOK, NEW K, rob' = MarkSquashed(rob, K)
  PROVE  GetsOn
  <1>1. \A k \in DOMAIN rob : /\ Later(rob[k], rob[k])
                              /\ Later(rob[k], [rob[k] EXCEPT !.squashed = TRUE])
    BY SeqTypes, LaterFlags DEF TypeOK, RobType
  <1>2. QED
    BY <1>1 DEF MarkSquashed, GetsOn

LEMMA RobSquashGetsOn ==
  ASSUME TypeOK, NEW to, RobSquash(to)
  PROVE  GetsOn
  BY MarkGetsOn, SameGetsOn DEF RobSquash, robVars

LEMMA WriteBackGetsOn ==
  ASSUME TypeOK, NEW K, WriteBackLoads(K)
  PROVE  GetsOn
  <1>1. "executed" \in States \ {"waiting"}
    BY DEF States
  <1>2. \A k \in DOMAIN rob : /\ Later(rob[k], rob[k])
                              /\ Later(rob[k], [rob[k] EXCEPT !.state = "executed"])
    BY <1>1, SeqTypes, LaterFlags DEF TypeOK, RobType
  <1>3. QED
    BY <1>2 DEF WriteBackLoads, GetsOn

LEMMA CompleteGetsOn ==
  ASSUME TypeOK, NEW k \in DOMAIN rob, NEW inst \in Inst, NEW msg, Complete(k, inst, msg),
         Later(rob[k], inst)
  PROVE  GetsOn
  <1>1. "executed" \in States \ {"waiting"}
    BY DEF States
  <1>2. Later(inst, [inst EXCEPT !.state = "executed"])
    BY <1>1, LaterFlags
  <1>3. Later(rob[k], [inst EXCEPT !.state = "executed"])
    BY <1>2, LaterTwice
  <1>4. QED
    BY <1>3, ReplaceGetsOn DEF Complete

LEMMA IewGetsOn ==
  ASSUME TypeOK, NEW k \in DOMAIN rob, IewStep(k)
  PROVE  GetsOn
  <1>1. rob[k] \in Inst
    BY SeqTypes DEF TypeOK, RobType
  <1>2. CASE SkipSquashed(k)
    <2>1. rob' = [rob EXCEPT ![k] = [rob[k] EXCEPT !.squashed = TRUE]]
      BY <1>2 DEF SkipSquashed
    <2>2. QED
      BY <1>1, <2>1, LaterFlags, ReplaceGetsOn
  <1>3. CASE ExecutePoisoned(k)
    <2>1. PICK inst \in Inst : inst = [rob[k] EXCEPT !.poisoned = TRUE]
      BY <1>1, InstUpdates
    <2>2. Complete(k, inst, iewNext)
      BY <1>3, <2>1 DEF ExecutePoisoned
    <2>3. Later(rob[k], inst)
      BY <1>1, <2>1, LaterFlags
    <2>4. QED
      BY <2>2, <2>3, CompleteGetsOn
  <1>4. CASE ExecuteShort(k)
    <2>1. PICK f \in BOOLEAN : f = (rob[k].fault \/ FaultsAtExecute(rob[k]))
      OBVIOUS
    <2>2. Complete(k, [rob[k] EXCEPT !.fault = f], iewNext)
      BY <1>4, <2>1 DEF ExecuteShort
    <2>3. [rob[k] EXCEPT !.fault = f] \in Inst /\ Later(rob[k], [rob[k] EXCEPT !.fault = f])
      BY <1>1, <2>1, InstUpdates, LaterFlags
    <2>4. QED
      BY <2>2, <2>3, CompleteGetsOn
  <1>5. CASE SendLoad(k)
    <2>1. PICK s \in States \ {"waiting"} : s = IF InFlightThreshold = 0 THEN "old" ELSE "sent"
      BY DEF States
    <2>2. rob' = [rob EXCEPT ![k] = [rob[k] EXCEPT !.state = s]]
      BY <1>5, <2>1 DEF SendLoad
    <2>3. Later(rob[k], [rob[k] EXCEPT !.state = s])
      BY <1>1, LaterFlags
    <2>4. QED
      BY <2>2, <2>3, ReplaceGetsOn
  <1>6. CASE ExecuteBranch(k) \/ ExecuteStore(k)
    <2>1. \E msg : Complete(k, rob[k], msg)
      BY <1>6 DEF ExecuteBranch, ExecuteStore
    <2>2. QED
      BY <1>1, <2>1, LaterFlags, CompleteGetsOn
  <1>7. QED
    BY <1>2, <1>3, <1>4, <1>5, <1>6 DEF IewStep

LEMMA PoisonHeadGetsOn ==
  ASSUME TypeOK, rob # <<>>, rob' = [rob EXCEPT ![1].poisoned = TRUE]
  PROVE  GetsOn
  <1>1. 1 \in DOMAIN rob /\ rob[1] \in Inst
    BY HeadType DEF Head0
  <1>2. QED
    BY <1>1, LaterFlags, ReplaceGetsOn

LEMMA EnterGetsOn ==
  ASSUME TypeOK, EnterRunahead
  PROVE  GetsOn
  <1>1. rob # <<>> /\ rob \in Seq(Inst) /\ 1 \in DOMAIN rob
    BY HeadType DEF EnterRunahead, LLLAtHead, AtHead
  <1>2. \A k \in DOMAIN rob : rob[k] \in Inst
    BY <1>1, SeqTypes
  <1>3. SetRunahead(rob) \in Seq(Inst) /\ DOMAIN SetRunahead(rob) = DOMAIN rob
    BY <1>1, SetRunaheadType
  <1>4. \A k \in DOMAIN rob : SetRunahead(rob)[k] = [rob[k] EXCEPT !.runahead = TRUE]
    BY DEF SetRunahead
  <1>5. \A k \in DOMAIN rob :
          /\ [rob[k] EXCEPT !.runahead = TRUE] \in Inst
          /\ Later(rob[k], [rob[k] EXCEPT !.runahead = TRUE])
    BY <1>2, InstUpdates, LaterFlags
  <1>6. rob' = [SetRunahead(rob) EXCEPT ![1].poisoned = TRUE]
    BY DEF EnterRunahead
  <1>7. DOMAIN rob' = DOMAIN rob /\ \A k \in DOMAIN rob : k # 1 => rob'[k] = SetRunahead(rob)[k]
    BY <1>1, <1>3, <1>6
  <1>8. rob'[1] = [[rob[1] EXCEPT !.runahead = TRUE] EXCEPT !.poisoned = TRUE]
    BY <1>1, <1>3, <1>4, <1>6
  <1>9. Later(rob[1], rob'[1])
    <2>1. PICK inst \in Inst :
            inst = [rob[1] EXCEPT !.runahead = TRUE] /\ Later(rob[1], inst)
      BY <1>1, <1>5
    <2>2. rob'[1] = [inst EXCEPT !.poisoned = TRUE]
      BY <1>8, <2>1
    <2>3. Later(inst, rob'[1])
      BY <2>2, LaterFlags
    <2>4. QED
      BY <2>1, <2>3, LaterTwice
  <1>10. \A k \in DOMAIN rob : k # 1 => Later(rob[k], rob'[k])
    BY <1>4, <1>5, <1>7
  <1>11. QED
    BY <1>7, <1>9, <1>10 DEF GetsOn

LEMMA StepGetsOn ==
  ASSUME TypeOK, Next, ~GetInsts, ~Retires
  PROVE  GetsOn
  <1>1. CASE Event
    <2>1. CASE InFlightTooLong
      <3>1. 1 \in DOMAIN rob /\ rob[1] \in Inst /\ "old" \in States \ {"waiting"}
        BY <2>1, HeadType DEF Head0, InFlightTooLong, States
      <3>2. rob' = [rob EXCEPT ![1] = [rob[1] EXCEPT !.state = "old"]]
        BY <2>1 DEF InFlightTooLong
      <3>3. QED
        BY <3>1, <3>2, LaterFlags, ReplaceGetsOn
    <2>2. QED
      BY <1>1, <2>1, SameGetsOn, WriteBackGetsOn DEF Event, LLLReturn, MemResponse,
         ForgedResponse, DeadlineEvent, ProcessTrapEvent, robVars
  <1>2. CASE IewExecute
    BY <1>2, IewGetsOn DEF IewExecute, IewStep
  <1>3. CASE RobWalk
    BY <1>3, MarkGetsOn, SameGetsOn DEF RobWalk
  <1>4. CASE SquashFromTrap \/ SquashFromSquashAfter
    BY <1>4, RobSquashGetsOn, SameGetsOn
       DEF SquashFromTrap, SquashFromSquashAfter, SquashAll, robVars
  <1>5. CASE SquashFromRunaheadExit \/ AcceptIewSquash
    BY <1>5, RobSquashGetsOn DEF SquashFromRunaheadExit, AcceptIewSquash
  <1>6. CASE IgnoreRunaheadFault \/ PoisonRunaheadLLL
    BY <1>6, PoisonHeadGetsOn
       DEF IgnoreRunaheadFault, PoisonRunaheadLLL, ReadyHead, LLLAtHead, AtHead
  <1>7. CASE UpdateRunaheadState
    <2>1. "done" \in States \ {"waiting"}
      BY DEF States
    <2>2. \A k \in DOMAIN rob : /\ Later(rob[k], rob[k])
                                /\ Later(rob[k], [rob[k] EXCEPT !.state = "done"])
      BY <2>1, SeqTypes, LaterFlags DEF TypeOK, RobType
    <2>3. QED
      BY <1>7, <2>2 DEF UpdateRunaheadState, MarkCompleted, GetsOn
  <1>8. CASE EnterRunahead
    BY <1>8, EnterGetsOn
  <1>9. CASE \/ StartTick \/ FrontEndSquash \/ FrontEndAdvance \/ FrontEndDiscard
             \/ IewDone \/ SelectNothing \/ IgnoreIewSquash \/ TrapHead \/ StopCommit
    BY <1>9, SameGetsOn DEF StartTick, FrontEndSquash, FrontEndAdvance,
       FrontEndDiscard, IewDone, SelectNothing, IgnoreIewSquash, TrapHead,
       StopCommit, robVars
  <1>10. QED
    BY <1>1, <1>2, <1>3, <1>4, <1>5, <1>6, <1>7, <1>8, <1>9 DEF Next, Tick, Retires

-----------------------------------------------------------------------------
(* The load that caused the last period.                                   *)

LEMMA ModeKept ==
  ASSUME Next, ~EnterRunahead, ~SquashFromRunaheadExit
  PROVE  UNCHANGED <<inRunahead, runaheadCause, storedPc>>
  <1>1. CASE Event
    BY <1>1 DEF Event, LLLReturn, MemResponse, ForgedResponse, InFlightTooLong,
       DeadlineEvent, ProcessTrapEvent, modeVars
  <1>2. CASE \/ StartTick \/ FrontEndSquash \/ FrontEndAdvance \/ FrontEndDiscard
             \/ IewExecute \/ IewDone \/ RobWalk \/ UpdateRunaheadState
    BY <1>2 DEF StartTick, FrontEndSquash, FrontEndAdvance, FrontEndDiscard, IewExecute,
       IewDone, RobWalk, UpdateRunaheadState, modeVars
  <1>3. CASE \/ SquashFromTrap \/ SquashFromSquashAfter
             \/ SelectNothing \/ AcceptIewSquash \/ IgnoreIewSquash \/ GetInsts
    BY <1>3 DEF SquashFromTrap, SquashFromSquashAfter,
       SelectNothing, AcceptIewSquash, IgnoreIewSquash, GetInsts, modeVars
  <1>4. CASE \/ RetireSquashed \/ CommitHead \/ TrapHead \/ IgnoreRunaheadFault
             \/ PoisonRunaheadLLL \/ StopCommit
    BY <1>4 DEF RetireSquashed, CommitHead, TrapHead, IgnoreRunaheadFault,
       PoisonRunaheadLLL, StopCommit, modeVars
  <1>5. QED
    BY <1>1, <1>2, <1>3, <1>4 DEF Next, Tick

LEMMA CauseKept ==
  ASSUME Next, ~EnterRunahead
  PROVE  runaheadCause' = runaheadCause
  BY ModeKept DEF SquashFromRunaheadExit

\* The load at which runahead begins: the oldest instruction there is, in flight.
LEMMA EnterCause ==
  ASSUME TypeOK, AgeOrder, EnterRunahead
  PROVE  /\ rob # <<>> /\ runaheadCause'.sn = Head0.sn /\ runaheadCause'.pos = Head0.pos
         /\ Head0.sn \in Nat /\ Head0.state # "waiting" /\ ~Head0.squashed
         /\ \A i \in Front : i.sn > Head0.sn
         /\ \A k \in DOMAIN rob : rob[k].sn = Head0.sn => k = 1
         /\ rob'[1].poisoned
  <1>1. /\ rob # <<>> /\ InFlight(Head0) /\ ~IsReady(Head0)
        /\ runaheadCause' = [sn |-> Head0.sn, pos |-> Head0.pos]
    BY DEF EnterRunahead, LLLAtHead, AtHead, IsLLL
  <1>2. /\ rob \in Seq(Inst) /\ 1 \in DOMAIN rob /\ Head0 = rob[1] /\ Head0 \in Inst
        /\ Head0.sn \in Nat
    BY <1>1, HeadType, InstFields DEF Head0
  <1>3. \A i \in Front : i.sn > Head0.sn
    BY <1>2, FrontFacts
  <1>4. \A k \in DOMAIN rob : k \in Nat /\ k >= 1 /\ rob[k].sn \in Nat
    BY <1>2, SeqTypes, InstFields
  <1>5. \A k \in DOMAIN rob : rob[k].sn = Head0.sn => k = 1
    BY <1>2, <1>4 DEF AgeOrder, Sorted
  <1>6. rob'[1].poisoned
    <2>1. /\ rob' = [SetRunahead(rob) EXCEPT ![1].poisoned = TRUE]
          /\ SetRunahead(rob) \in Seq(Inst) /\ DOMAIN SetRunahead(rob) = DOMAIN rob
      BY <1>2, SetRunaheadType DEF EnterRunahead
    <2>2. \A i \in Inst : [i EXCEPT !.poisoned = TRUE].poisoned
      BY DEF Inst
    <2>3. SetRunahead(rob)[1] \in Inst
      BY <1>2, <2>1, SeqTypes
    <2>4. rob'[1] = [SetRunahead(rob)[1] EXCEPT !.poisoned = TRUE]
      BY <1>2, <2>1
    <2>5. QED
      BY <2>2, <2>3, <2>4
  <1>7. QED
    BY <1>1, <1>2, <1>3, <1>5, <1>6 DEF InFlight, IsReady

LEMMA CauseStaysPoisonedStep ==
  ASSUME TypeOK, AgeOrder, CycleOrder, CauseIsOldest, CauseStaysPoisoned, Next
  PROVE  CauseStaysPoisoned'
  <1>1. /\ rob \in Seq(Inst) /\ nextSn \in Nat /\ runaheadCause.sn \in Nat
        /\ runaheadCause.sn < nextSn
    BY DEF TypeOK, RobType, FrontType, ModeType, Cause, CauseIsOldest
  <1>2. ASSUME NEW i \in Front'
        PROVE  i.sn > runaheadCause'.sn
    <2>1. CASE EnterRunahead
      <3>1. PICK j \in Front : i.sn = j.sn
        <4>1. \A j \in Front : [j EXCEPT !.runahead = TRUE].sn = j.sn
          BY FrontFacts DEF Inst
        <4>2. ~FrontEndAdvance
          BY <2>1 DEF EnterRunahead, LLLAtHead, AtHead, FrontEndAdvance
        <4>3. QED
          BY <4>1, <4>2, FrontGrows
      <3>2. QED
        BY <2>1, <3>1, EnterCause
    <2>2. CASE ~EnterRunahead
      <3>1. i \in Front \/ i.sn = nextSn
        BY <2>2, FrontGrows
      <3>2. QED
        BY <1>1, <2>2, <3>1, CauseKept DEF CauseStaysPoisoned
    <2>3. QED
      BY <2>1, <2>2
  <1>3. ASSUME NEW k \in DOMAIN rob', rob'[k].sn = runaheadCause'.sn
        PROVE  rob'[k].poisoned /\ rob'[k].state # "waiting"
    <2>1. CASE EnterRunahead
      <3>1. GetsOn
        BY <2>1, EnterGetsOn
      <3>2. k \in DOMAIN rob /\ rob[k].sn = Head0.sn
        BY <1>3, <2>1, <3>1, EnterCause DEF GetsOn, Later
      <3>3. k = 1
        BY <2>1, <3>2, EnterCause
      <3>4. QED
        BY <2>1, <3>1, <3>2, <3>3, EnterCause DEF GetsOn, Later, Head0
    <2>2. CASE GetsOn /\ ~EnterRunahead
      BY <1>3, <2>2, CauseKept DEF GetsOn, Later, CauseStaysPoisoned
    <2>3. CASE Retires
      <3>1. rob # <<>> /\ rob' = Tail(rob) /\ ~EnterRunahead
        BY <2>3 DEF Retires, RetireSquashed, CommitHead, ReadyHead, AtHead, EnterRunahead,
           LLLAtHead
      <3>2. k + 1 \in DOMAIN rob /\ rob'[k] = rob[k + 1]
        BY <1>1, <1>3, <3>1
      <3>3. QED
        BY <1>3, <3>1, <3>2, CauseKept DEF CauseStaysPoisoned
    <2>4. CASE GetInsts
      <3>1. ~EnterRunahead
        BY <2>4 DEF GetInsts, EnterRunahead, LLLAtHead, AtHead
      <3>2. \A j \in DOMAIN renameNow : renameNow[j] \in Front
        BY DEF Front, Insts
      <3>3. k \in DOMAIN rob /\ rob'[k] = rob[k]
        BY <1>1, <1>3, <2>4, <3>1, <3>2, CauseKept, GetRob, FrontFacts DEF CauseStaysPoisoned
      <3>4. QED
        BY <1>3, <3>1, <3>3, CauseKept DEF CauseStaysPoisoned
    <2>5. QED
      BY <2>1, <2>2, <2>3, <2>4, StepGetsOn
  <1>4. QED
    BY <1>2, <1>3 DEF CauseStaysPoisoned

LEMMA MemGrows ==
  ASSUME TypeOK, Next, NEW sn \in mem'
  PROVE  sn \in mem \/ \E k \in DOMAIN rob : rob[k].sn = sn /\ rob[k].state = "waiting"
  <1>1. CASE Event
    BY <1>1 DEF Event, LLLReturn, MemResponse, ForgedResponse, InFlightTooLong,
       DeadlineEvent, ProcessTrapEvent
  <1>2. CASE IewExecute
    BY <1>2 DEF IewExecute, SkipSquashed, ExecutePoisoned, ExecuteShort, SendLoad,
       ExecuteBranch, ExecuteStore, Issued
  <1>3. CASE \/ StartTick \/ FrontEndSquash \/ FrontEndAdvance \/ FrontEndDiscard
             \/ IewDone \/ RobWalk \/ UpdateRunaheadState
    BY <1>3 DEF StartTick, FrontEndSquash, FrontEndAdvance, FrontEndDiscard, IewDone,
       RobWalk, UpdateRunaheadState
  <1>4. CASE \/ SquashFromTrap \/ SquashFromSquashAfter \/ SquashFromRunaheadExit
             \/ SelectNothing \/ AcceptIewSquash \/ IgnoreIewSquash \/ GetInsts
    BY <1>4 DEF SquashFromTrap, SquashFromSquashAfter, SquashFromRunaheadExit,
       SelectNothing, AcceptIewSquash, IgnoreIewSquash, GetInsts
  <1>5. CASE \/ RetireSquashed \/ CommitHead \/ TrapHead \/ IgnoreRunaheadFault
             \/ EnterRunahead \/ PoisonRunaheadLLL \/ StopCommit
    BY <1>5 DEF RetireSquashed, CommitHead, TrapHead, IgnoreRunaheadFault, EnterRunahead,
       PoisonRunaheadLLL, StopCommit
  <1>6. QED
    BY <1>1, <1>2, <1>3, <1>4, <1>5 DEF Next, Tick

\* In memory it is only until it returns.
LEMMA CauseReturnsOnce ==
  ASSUME TypeOK, CauseStaysPoisoned, Next, ~EnterRunahead, runaheadCause'.sn \in mem'
  PROVE  runaheadCause.sn \in mem
  BY MemGrows, CauseKept DEF CauseStaysPoisoned

-----------------------------------------------------------------------------
(* The exit protocol.                                                      *)

LEMMA ExitKept ==
  ASSUME Next, \A sn : ~LLLReturn(sn) /\ ~DeadlineEvent(sn), ~SquashFromRunaheadExit,
         ~IgnoreRunaheadFault
  PROVE  /\ UNCHANGED <<exitable, exitCause, exitSeqNum, deadlines>>
         /\ exitRunahead => exitRunahead'
         /\ exitRunahead' => exitRunahead \/ exitable
  <1>1. CASE Event
    <2>1. UNCHANGED exitVars
      BY <1>1 DEF Event, MemResponse, ForgedResponse, InFlightTooLong, ProcessTrapEvent
    <2>2. QED
      BY <2>1 DEF exitVars
  <1>2. CASE \/ StartTick \/ FrontEndSquash \/ FrontEndAdvance \/ FrontEndDiscard
             \/ IewExecute \/ IewDone \/ RobWalk
    BY <1>2 DEF StartTick, FrontEndSquash, FrontEndAdvance, FrontEndDiscard, IewExecute,
       IewDone, RobWalk, exitVars
  <1>3. CASE \/ SquashFromTrap \/ SquashFromSquashAfter
             \/ SelectNothing \/ AcceptIewSquash \/ IgnoreIewSquash \/ GetInsts
    BY <1>3 DEF SquashFromTrap, SquashFromSquashAfter,
       SelectNothing, AcceptIewSquash, IgnoreIewSquash, GetInsts, exitVars
  <1>4. CASE \/ RetireSquashed \/ CommitHead \/ TrapHead \/ EnterRunahead
             \/ PoisonRunaheadLLL \/ StopCommit
    BY <1>4 DEF RetireSquashed, CommitHead, TrapHead, EnterRunahead,
       PoisonRunaheadLLL, StopCommit, exitVars
  <1>5. CASE UpdateRunaheadState
    BY <1>5 DEF UpdateRunaheadState
  <1>6. QED
    BY <1>1, <1>2, <1>3, <1>4, <1>5 DEF Next, Tick

\* The head of the ROB and the state of commit as the cycle goes on from update to
\* select.
LEMMA HeadStays ==
  ASSUME TypeOK, TrapPaired, Next,
         phase \in {"update", "events", "fetch", "iew", "walk", "select"},
         status = "Running", exitRunahead, ~SquashFromRunaheadExit
  PROVE  /\ phase' \in {"update", "events", "fetch", "iew", "walk", "select"}
         /\ status' = "Running" /\ GetsOn
  <1>1. ~trapSquash
    BY DEF TrapPaired
  <1>2. /\ ~GetInsts /\ ~Retires /\ ~SquashFromTrap /\ ~SquashFromSquashAfter
        /\ ~SelectNothing /\ ~AcceptIewSquash /\ ~IgnoreIewSquash /\ ~TrapHead
        /\ ~IgnoreRunaheadFault /\ ~EnterRunahead /\ ~PoisonRunaheadLLL /\ ~StopCommit
    BY <1>1 DEF GetInsts, Retires, RetireSquashed, CommitHead, SquashFromTrap,
       SquashFromSquashAfter, SelectNothing, AcceptIewSquash, IgnoreIewSquash, TrapHead,
       IgnoreRunaheadFault, EnterRunahead, PoisonRunaheadLLL, StopCommit, ReadyHead,
       LLLAtHead, AtHead
  <1>3. CASE Event
    BY <1>2, <1>3, StepGetsOn DEF Event, LLLReturn, MemResponse, ForgedResponse,
       InFlightTooLong, DeadlineEvent, ProcessTrapEvent, commitVars
  <1>4. CASE \/ StartTick \/ FrontEndSquash \/ FrontEndAdvance \/ FrontEndDiscard
             \/ IewExecute \/ IewDone \/ RobWalk \/ UpdateRunaheadState
    BY <1>2, <1>4, StepGetsOn DEF StartTick, FrontEndSquash, FrontEndAdvance,
       FrontEndDiscard, IewExecute, IewDone, RobWalk, UpdateRunaheadState, commitVars
  <1>5. QED
    BY <1>2, <1>3, <1>4 DEF Next, Tick, Retires

LEMMA HeadGetsOn ==
  ASSUME TypeOK, rob # <<>>, GetsOn
  PROVE  rob' # <<>> /\ Later(Head0, Head0')
  BY HeadType DEF GetsOn, Head0

LEMMA FaultAtHeadStays ==
  ASSUME TypeOK, TrapPaired, Next, exitRunahead, FaultAtHead, ~SquashFromRunaheadExit
  PROVE  FaultAtHead'
  <1>1. /\ phase' \in {"update", "events", "fetch", "iew", "walk", "select"}
        /\ status' = "Running" /\ GetsOn
    BY HeadStays DEF FaultAtHead
  <1>2. rob' # <<>> /\ Later(Head0, Head0')
    BY <1>1, HeadGetsOn DEF FaultAtHead
  <1>3. QED
    BY <1>1, <1>2 DEF FaultAtHead, Later

LEMMA EagerDecidesStep ==
  ASSUME TypeOK, TrapPaired, ExitInRunahead, CauseStaysPoisoned, EagerDecides, Next
  PROVE  EagerDecides'
  <1> SUFFICES ASSUME Policy[prog] = "Eager"
               PROVE  EagerDecides'
    BY ProgramKept DEF EagerDecides
  <1>1. /\ deadlines = {} /\ (exitable => exitRunahead)
        /\ (exitRunahead => exitCause = runaheadCause)
        /\ (exitRunahead /\ runaheadCause.sn \in mem => FaultAtHead)
    BY DEF EagerDecides, ExitCauseOfPeriod
  <1> SUFFICES /\ deadlines' = {} /\ (exitable' => exitRunahead')
               /\ (exitRunahead' => exitCause' = runaheadCause')
               /\ (exitRunahead' /\ runaheadCause'.sn \in mem' => FaultAtHead')
    BY DEF EagerDecides, ExitCauseOfPeriod
  <1>2. CASE \E sn : LLLReturn(sn)
    <2>1. PICK hasChain : SignalExitRunahead(hasChain)
      BY <1>2 DEF LLLReturn
    <2>2. runaheadCause' = runaheadCause /\ runaheadCause.sn \notin mem'
      BY <1>2 DEF LLLReturn, CausedRunahead, modeVars
    <2>3. CASE exitable
      BY <1>1, <2>1, <2>2, <2>3 DEF SignalExitRunahead, exitVars
    <2>4. CASE ~exitable
      <3>1. ExitsAtOnce(hasChain)
        BY DEF ExitsAtOnce
      <3>2. /\ exitCause' = runaheadCause /\ exitRunahead' = (exitRunahead \/ TRUE)
            /\ deadlines' = ArmedDeadlines(exitRunahead')
        BY <2>1, <2>4, <3>1 DEF SignalExitRunahead
      <3>3. QED
        BY <1>1, <2>2, <3>2 DEF ArmedDeadlines
    <2>5. QED
      BY <2>3, <2>4
  <1>3. CASE \E sn : DeadlineEvent(sn)
    BY <1>1, <1>3 DEF DeadlineEvent
  <1>4. CASE SquashFromRunaheadExit
    BY <1>1, <1>4 DEF SquashFromRunaheadExit
  <1>5. CASE EnterRunahead
    <2>1. ~exitRunahead /\ ~exitable
      BY <1>5 DEF EnterRunahead, ExitInRunahead
    <2>2. QED
      BY <1>1, <1>5, <2>1 DEF EnterRunahead, exitVars
  <1>6. CASE IgnoreRunaheadFault
    <2>1. /\ UNCHANGED <<exitable, deadlines, status, mem, runaheadCause>>
          /\ rob # <<>> /\ phase = "insts" /\ phase' = "update" /\ status = "Running"
          /\ Head0.fault /\ rob' = [rob EXCEPT ![1].poisoned = TRUE]
      BY <1>6 DEF IgnoreRunaheadFault, ReadyHead, AtHead, modeVars
    <2>2. GetsOn
      BY <2>1, PoisonHeadGetsOn
    <2>3. rob' # <<>> /\ Later(Head0, Head0')
      BY <2>1, <2>2, HeadGetsOn
    <2>4. CASE Head0.kind = "pagefault"
      <3>1. exitCause' = runaheadCause /\ exitRunahead'
        BY <1>6, <2>4 DEF IgnoreRunaheadFault, FaultExitCause
      <3>2. FaultAtHead'
        BY <2>1, <2>3, <2>4 DEF FaultAtHead, Later
      <3>3. QED
        BY <1>1, <2>1, <3>1, <3>2
    <2>5. CASE Head0.kind # "pagefault"
      <3>1. UNCHANGED <<exitCause, exitRunahead>>
        BY <1>6, <2>5 DEF IgnoreRunaheadFault
      <3>2. QED
        BY <1>1, <2>1, <3>1 DEF FaultAtHead
    <2>6. QED
      BY <2>4, <2>5
  <1>7. CASE /\ \A sn : ~LLLReturn(sn) /\ ~DeadlineEvent(sn)
             /\ ~SquashFromRunaheadExit /\ ~EnterRunahead /\ ~IgnoreRunaheadFault
    <2>1. /\ UNCHANGED <<exitable, exitCause, deadlines, runaheadCause>>
          /\ exitRunahead' <=> exitRunahead
      BY <1>1, <1>7, ExitKept, CauseKept
    <2>2. exitRunahead' /\ runaheadCause'.sn \in mem' => FaultAtHead'
      BY <1>1, <1>7, <2>1, CauseReturnsOnce, FaultAtHeadStays
    <2>3. QED
      BY <1>1, <2>1, <2>2
  <1>8. QED
    BY <1>2, <1>3, <1>4, <1>5, <1>6, <1>7

LEMMA NextLoadFound ==
  ASSUME TypeOK, NextLoad # 0
  PROVE  \E k \in DOMAIN rob : rob[k].sn = NextLoad /\ ~rob[k].poisoned
  <1> DEFINE valid  == {k \in DOMAIN rob : rob[k].kind = "load" /\ ~rob[k].poisoned}
             older(k) == {j \in valid : j < k}
             looked == {k \in valid : older(k) = {} \/ Cardinality(older(k)) < Len(rob)}
             unsent == {k \in looked : ~IsExecuted(rob[k])}
             last   == CHOOSE k \in unsent : \A j \in unsent : j <= k
  <1>1. NextLoad = IF \E k \in unsent : \A j \in unsent : j <= k THEN rob[last].sn ELSE 0
    BY DEF NextLoad, UnsentValidLoad
  <1>2. CASE \E k \in unsent : \A j \in unsent : j <= k
    <2>1. last \in unsent
      BY <1>2, Zenon
    <2>2. last \in DOMAIN rob /\ ~rob[last].poisoned
      BY <2>1
    <2> HIDE DEF last, unsent
    <2>3. QED
      BY <1>1, <1>2, <2>2
  <1>3. CASE ~ \E k \in unsent : \A j \in unsent : j <= k
    <2> HIDE DEF last, unsent
    <2>1. QED
      BY <1>1, <1>3
  <1>4. QED
    BY <1>2, <1>3

LEMMA NextLoadOfPeriodStep ==
  ASSUME TypeOK, CauseIsOldest, ExitInRunahead, CauseStaysPoisoned, NextLoadOfPeriod, Next
  PROVE  NextLoadOfPeriod'
  <1> SUFFICES ASSUME Policy[prog] = "NLLB", exitable', ~exitRunahead'
               PROVE  exitSeqNum' > runaheadCause'.sn
    BY ProgramKept DEF NextLoadOfPeriod
  <1>1. CASE \E sn : LLLReturn(sn)
    <2>1. PICK hasChain : SignalExitRunahead(hasChain)
      BY <1>1 DEF LLLReturn
    <2>2. runaheadCause' = runaheadCause
      BY <1>1 DEF LLLReturn, modeVars
    <2>3. CASE exitable
      BY <2>1, <2>2, <2>3 DEF SignalExitRunahead, exitVars, NextLoadOfPeriod
    <2>4. CASE ~exitable
      <3>1. ExitsAtOnce(hasChain) <=> NextLoad = 0
        BY DEF ExitsAtOnce
      <3>2. NextLoad # 0 /\ exitSeqNum' = NextLoad
        BY <2>1, <2>4, <3>1 DEF SignalExitRunahead
      <3>3. PICK k \in DOMAIN rob : rob[k].sn = NextLoad /\ ~rob[k].poisoned
        BY <3>2, NextLoadFound
      <3>4. rob[k].sn # runaheadCause.sn /\ runaheadCause.sn <= rob[k].sn
        BY <3>3 DEF CauseStaysPoisoned, CauseIsOldest, NotOlder
      <3>5. rob[k].sn \in Nat /\ runaheadCause.sn \in Nat
        BY SeqTypes, InstFields DEF TypeOK, RobType, ModeType, Cause
      <3>6. QED
        BY <2>2, <3>2, <3>3, <3>4, <3>5
    <2>5. QED
      BY <2>3, <2>4
  <1>2. CASE \E sn : DeadlineEvent(sn)
    BY <1>2 DEF DeadlineEvent, modeVars, NextLoadOfPeriod
  <1>3. CASE SquashFromRunaheadExit
    BY <1>3 DEF SquashFromRunaheadExit
  <1>4. CASE EnterRunahead
    BY <1>4 DEF EnterRunahead, ExitInRunahead, exitVars
  <1>5. CASE IgnoreRunaheadFault
    BY <1>5 DEF IgnoreRunaheadFault, modeVars, NextLoadOfPeriod
  <1>6. CASE /\ \A sn : ~LLLReturn(sn) /\ ~DeadlineEvent(sn)
             /\ ~SquashFromRunaheadExit /\ ~EnterRunahead /\ ~IgnoreRunaheadFault
    BY <1>6, ExitKept, CauseKept DEF NextLoadOfPeriod
  <1>7. QED
    BY <1>1, <1>2, <1>3, <1>4, <1>5, <1>6

-----------------------------------------------------------------------------
(* What is retired between two periods.                                    *)

LEMMA RetiredKept ==
  ASSUME Next, ~CommitHead, ~SquashFromRunaheadExit
  PROVE  instsBetweenRunahead' = instsBetweenRunahead
  <1>1. CASE Event
    BY <1>1 DEF Event, LLLReturn, MemResponse, ForgedResponse, InFlightTooLong,
       DeadlineEvent, ProcessTrapEvent, countVars
  <1>2. CASE \/ StartTick \/ FrontEndSquash \/ FrontEndAdvance \/ FrontEndDiscard
             \/ IewExecute \/ IewDone \/ RobWalk \/ UpdateRunaheadState
    BY <1>2 DEF StartTick, FrontEndSquash, FrontEndAdvance, FrontEndDiscard, IewExecute,
       IewDone, RobWalk, UpdateRunaheadState, countVars
  <1>3. CASE \/ SquashFromTrap \/ SquashFromSquashAfter
             \/ SelectNothing \/ AcceptIewSquash \/ IgnoreIewSquash \/ GetInsts
    BY <1>3 DEF SquashFromTrap, SquashFromSquashAfter,
       SelectNothing, AcceptIewSquash, IgnoreIewSquash, GetInsts, countVars
  <1>4. CASE \/ RetireSquashed \/ TrapHead \/ IgnoreRunaheadFault \/ EnterRunahead
             \/ PoisonRunaheadLLL \/ StopCommit
    BY <1>4 DEF RetireSquashed, TrapHead, IgnoreRunaheadFault, EnterRunahead,
       PoisonRunaheadLLL, StopCommit, countVars
  <1>5. QED
    BY <1>1, <1>2, <1>3, <1>4 DEF Next, Tick

\* Runahead begins at the next instruction of the program.
LEMMA EnterIsNext ==
  ASSUME TypeOK, AgeOrder, StaleInRob, PoisonIsRunahead, ProgressInv, EnterRunahead
  PROVE  /\ ~inRunahead /\ inRunahead' /\ CanEnterRunahead
         /\ runaheadCause'.pos = pc /\ storedPc' = pc
  <1>1. /\ AtHead /\ ~Head0.squashed /\ ~inRunahead /\ inRunahead' /\ CanEnterRunahead
        /\ runaheadCause' = [sn |-> Head0.sn, pos |-> Head0.pos] /\ storedPc' = pc
    BY DEF EnterRunahead, LLLAtHead, IsReady
  <1>2. QED
    BY <1>1, HeadIsNext

LEMMA RetiredSinceStep ==
  ASSUME TypeOK, AgeOrder, AllInRunahead, StaleInRob, ExitInRunahead, PoisonIsRunahead,
         ProgressInv, RetiredSince, Next
  PROVE  RetiredSince'
  <1>1. /\ pc \in Nat /\ storedPc \in Nat /\ runaheadCause.pos \in Nat
        /\ instsBetweenRunahead \in Nat
    BY DEF TypeOK, CommitType, ModeType, Cause, CountType
  <1>2. CASE EnterRunahead
    BY <1>1, <1>2, EnterIsNext DEF RetiredSince, ArchPc
  <1>3. CASE SquashFromRunaheadExit
    <2>1. exitRunahead /\ ~inRunahead' /\ pc' = storedPc /\ instsBetweenRunahead' = 0
          /\ runaheadCause' = runaheadCause
      BY <1>3 DEF SquashFromRunaheadExit, ResumePc, RetiredSinceExit
    <2>2. inRunahead
      BY <2>1 DEF ExitInRunahead
    <2>3. QED
      BY <1>1, <2>1, <2>2 DEF RetiredSince, ArchPc
  <1>4. CASE CommitHead
    <2>1. /\ UNCHANGED <<inRunahead, runaheadCause, storedPc>> /\ ReadyHead
          /\ pc' = Advance(Head0)
          /\ instsBetweenRunahead' = instsBetweenRunahead + (IF inRunahead THEN 0 ELSE 1)
      BY <1>4 DEF CommitHead, modeVars
    <2>2. CASE inRunahead
      BY <1>1, <2>1, <2>2 DEF RetiredSince, ArchPc
    <2>3. CASE ~inRunahead
      <3>1. ~Head0.poisoned /\ Head0.pos = pc /\ Head0.pos \in 1..Len(prog)
        BY <2>1, <2>3, ReadyIsNext
      <3>2. Len(prog) \in Nat
        BY LenProperties DEF TypeOK
      <3>3. pc' = pc + 1
        BY <2>1, <3>1, <3>2 DEF Advance
      <3>4. QED
        BY <1>1, <2>1, <2>3, <3>3 DEF RetiredSince, ArchPc
    <2>4. QED
      BY <2>2, <2>3
  <1>5. CASE TrapHead
    <2>1. /\ UNCHANGED <<inRunahead, runaheadCause, storedPc, instsBetweenRunahead>>
          /\ ReadyHead /\ AtHead /\ ~Head0.squashed /\ ~Head0.runahead /\ pc' = Head0.pos
      BY <1>5 DEF TrapHead, modeVars, countVars, IgnoresFault, ReadyHead
    <2>2. ~inRunahead
      BY <2>1, HeadMode
    <2>3. Head0.pos = pc
      BY <2>1, <2>2, ReadyIsNext
    <2>4. QED
      BY <1>1, <2>1, <2>2, <2>3 DEF RetiredSince, ArchPc
  <1>6. CASE IgnoreRunaheadFault
    <2>1. /\ UNCHANGED <<inRunahead, runaheadCause, storedPc, instsBetweenRunahead>>
          /\ AtHead /\ ~Head0.squashed /\ Head0.runahead
      BY <1>6 DEF IgnoreRunaheadFault, modeVars, countVars, ReadyHead, IgnoresFault
    <2>2. inRunahead
      BY <2>1, HeadMode
    <2>3. QED
      BY <1>1, <2>1, <2>2 DEF RetiredSince, ArchPc
  <1>7. CASE /\ ~EnterRunahead /\ ~SquashFromRunaheadExit /\ ~CommitHead /\ ~TrapHead
             /\ ~IgnoreRunaheadFault
    BY <1>7, PcKept, ModeKept, RetiredKept DEF RetiredSince, ArchPc
  <1>8. QED
    BY <1>2, <1>3, <1>4, <1>5, <1>6, <1>7

-----------------------------------------------------------------------------
(* The theorems.                                                           *)

LEMMA InitExitInv == Init => ExitInv
  <1> SUFFICES ASSUME Init PROVE ExitInv
    OBVIOUS
  <1>1. Front = {} /\ DOMAIN rob = {}
    BY EmptySeq DEF Init, Front, Insts
  <1>2. CauseStaysPoisoned
    BY <1>1 DEF CauseStaysPoisoned
  <1>3. EagerDecides /\ NextLoadOfPeriod
    BY DEF Init, EagerDecides, ExitCauseOfPeriod, NextLoadOfPeriod
  <1>4. RetiredSince
    BY DEF Init, RetiredSince, ArchPc, NoCause
  <1>5. QED
    BY <1>2, <1>3, <1>4 DEF ExitInv

LEMMA ExitInvStep ==
  TypeOK /\ PipelineInv /\ OrderInv /\ ExitInv /\ [Next]_vars => ExitInv'
  <1> SUFFICES ASSUME TypeOK, PipelineInv, OrderInv, ExitInv, [Next]_vars
               PROVE  ExitInv'
    OBVIOUS
  <1>1. CASE Next
    <2>1. /\ AgeOrder /\ CauseIsOldest /\ CycleOrder /\ AllInRunahead /\ StaleInRob
          /\ ExitInRunahead /\ TrapPaired /\ ProgressInv /\ PoisonIsRunahead
      BY DEF PipelineInv, ModeInv, OrderInv, ProgressInv
    <2>2. CauseStaysPoisoned'
      BY <1>1, <2>1, CauseStaysPoisonedStep DEF ExitInv
    <2>3. EagerDecides'
      BY <1>1, <2>1, EagerDecidesStep DEF ExitInv
    <2>4. NextLoadOfPeriod'
      BY <1>1, <2>1, NextLoadOfPeriodStep DEF ExitInv
    <2>5. RetiredSince'
      BY <1>1, <2>1, RetiredSinceStep DEF ExitInv
    <2>6. QED
      BY <2>2, <2>3, <2>4, <2>5 DEF ExitInv
  <1>2. CASE UNCHANGED vars
    <2>1. UNCHANGED <<phase, prog, renameNow, renameNext, fetchQueue, rob, mem, status, pc,
                      inRunahead, runaheadCause, storedPc, exitRunahead, exitable,
                      exitCause, exitSeqNum, deadlines, instsBetweenRunahead>>
      BY <1>2 DEF vars, frontVars, renameVars, robVars, commitVars, modeVars, exitVars,
         countVars
    <2>2. CauseStaysPoisoned'
      BY <2>1, SameFront DEF ExitInv, CauseStaysPoisoned
    <2>3. EagerDecides' /\ NextLoadOfPeriod' /\ RetiredSince'
      BY <2>1 DEF ExitInv, EagerDecides, ExitCauseOfPeriod, FaultAtHead, Head0,
         NextLoadOfPeriod, RetiredSince, ArchPc
    <2>4. QED
      BY <2>2, <2>3 DEF ExitInv
  <1>3. QED
    BY <1>1, <1>2

LEMMA ExitInvariance == Spec => []ExitInv
  <1>1. TypeOK /\ PipelineInv /\ OrderInv /\ ExitInv /\ [Next]_vars => ExitInv'
    BY ExitInvStep
  <1>2. Init => ExitInv
    BY InitExitInv
  <1>3. QED
    BY <1>1, <1>2, TypeInvariant, PipelineInvariance, OrderInvariance, PTL DEF Spec

\* Under the Eager policy runahead is left for the load that caused the period, which
\* then has its data, or for the page fault at the head of the ROB, and the squash of
\* the exit starts at the load of this period (commit.cc:627-704, 833-880).
THEOREM EagerExitSound == Spec => []ExitSound
  <1>1. PipelineInv /\ ExitInv => ExitSound
    BY DEF PipelineInv, ModeInv, ExitInRunahead, ExitInv, EagerDecides, FaultAtHead,
       ExitSound, ExitJustified, ExitCauseOfPeriod
  <1>2. QED
    BY <1>1, PipelineInvariance, ExitInvariance, PTL

\* Under the NLLB policy, the load whose execution ends the period is younger than the
\* load that caused it: never one of an earlier period (commit.cc:655-661, rob.cc:386-408).
THEOREM NextLoadInvariant == Spec => []NextLoadOfPeriod
  <1>1. ExitInv => NextLoadOfPeriod
    BY DEF ExitInv
  <1>2. QED
    BY <1>1, ExitInvariance, PTL

\* Without overlapping periods, a period begins beyond what the last one has run ahead
\* of (cpu.cc:1646-1682).
THEOREM PeriodsApart == Spec => NoOverlap
  <1> DEFINE Apart == inRunahead' /\ ~inRunahead /\ ~AllowOverlap =>
                        runaheadCause'.pos >= runaheadCause.pos + instsPseudoretired
  <1>1. TypeOK /\ PipelineInv /\ OrderInv /\ ExitInv /\ [Next]_vars => [Apart]_vars
    <2> SUFFICES ASSUME TypeOK, PipelineInv, OrderInv, ExitInv, Next,
                        inRunahead', ~inRunahead, ~AllowOverlap
                 PROVE  runaheadCause'.pos >= runaheadCause.pos + instsPseudoretired
      OBVIOUS
    <2>1. EnterRunahead
      BY ModeKept DEF SquashFromRunaheadExit
    <2>2. CanEnterRunahead /\ runaheadCause'.pos = pc
      BY <2>1, EnterIsNext DEF PipelineInv, ModeInv, OrderInv, ProgressInv
    <2>3. instsBetweenRunahead >= instsPseudoretired
      BY <2>2 DEF CanEnterRunahead, OverlapOk
    <2>4. runaheadCause.pos + instsBetweenRunahead <= pc
      BY DEF ExitInv, RetiredSince, ArchPc
    <2>5. /\ pc \in Nat /\ runaheadCause.pos \in Nat
          /\ instsBetweenRunahead \in Nat /\ instsPseudoretired \in Nat
      BY DEF TypeOK, CommitType, ModeType, Cause, CountType
    <2>6. QED
      BY <2>2, <2>3, <2>4, <2>5
  <1>2. QED
    BY <1>1, TypeInvariant, PipelineInvariance, OrderInvariance, ExitInvariance, PTL
       DEF Spec, NoOverlap
=============================================================================
