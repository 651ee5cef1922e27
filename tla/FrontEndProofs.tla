--------------------------- MODULE FrontEndProofs ---------------------------
(***************************************************************************)
(* HandshakeInv is an invariant of FrontEnd, and with it HandshakeSound.   *)
(* Every tick is followed through its operators, in the order they are     *)
(* applied: what the stage hears, what it does with its queue, what it     *)
(* tells the stage before it.                                              *)
(***************************************************************************)
EXTENDS FrontInvariant, SequenceTheorems, WellFoundedInduction, TLAPS

-----------------------------------------------------------------------------
(* The rounds of renameInsts *)

\* Induction over numbers, stated without an operator: a set of numbers that
\* is not empty has a smallest.
LEMMA SmallestOf ==
  ASSUME NEW W \in SUBSET Nat, W # {}
  PROVE  \E n \in W : \A m \in W : n <= m
<1> DEFINE R == OpToRel(<, Nat)
<1>1. \E n \in W : \A m \in W : ~(<<m, n>> \in R)
  <2>1. IsWellFoundedOn(R, Nat)
    BY NatLessThanWellFounded
  <2> HIDE DEF R
  <2> QED BY <2>1, WFMin
<1>2. PICK n \in W : \A m \in W : ~(<<m, n>> \in R)
  BY <1>1
<1> HIDE DEF R
<1>3. \A m \in W : n <= m
  <2> TAKE m \in W
  <2>1. n \in Nat /\ m \in Nat /\ ~(<<m, n>> \in R)
    BY <1>2
  <2>2. ~(m < n)
    BY <2>1 DEF R, OpToRel
  <2> QED BY <2>1, <2>2
<1> QED BY <1>3

\* The function RenameRounds takes its value from is there.
LEMMA RoundsExist ==
  ASSUME NEW b, NEW n \in Nat
  PROVE  \E g : g = [k \in 0..n |-> IF k = 0 THEN b ELSE RenameNext(g[k - 1])]
<1> DEFINE Rounds(m, g) == g = [k \in 0..m |-> IF k = 0 THEN b ELSE RenameNext(g[k - 1])]
           W == {m \in Nat : ~ \E g : Rounds(m, g)}
<1>1. W = {}
  <2> SUFFICES ASSUME W # {} PROVE FALSE
    OBVIOUS
  <2>1. PICK m \in W : \A j \in W : m <= j
    <3>1. W \in SUBSET Nat
      OBVIOUS
    <3> HIDE DEF W
    <3> QED BY <3>1, SmallestOf
  <2>2. m \in Nat /\ ~ \E g : Rounds(m, g)
    BY <2>1
  <2>3. CASE m = 0
    <3> DEFINE g == [k \in 0..0 |-> b]
    <3>1. Rounds(0, g)
      OBVIOUS
    <3> QED BY <2>2, <2>3, <3>1
  <2>4. CASE m # 0
    <3>1. m - 1 \in Nat /\ ~(m <= m - 1)
      BY <2>2, <2>4
    <3>2. PICK g : Rounds(m - 1, g)
      <4>1. m - 1 \notin W
        BY <2>1, <3>1
      <4> QED BY <3>1, <4>1
    <3> DEFINE h == [k \in 0..m |-> IF k = m THEN RenameNext(g[m - 1]) ELSE g[k]]
    <3>3. ASSUME NEW k \in 0..m PROVE h[k] = IF k = 0 THEN b ELSE RenameNext(h[k - 1])
      <4>1. CASE k = m
        <5>1. h[m - 1] = g[m - 1] /\ h[m] = RenameNext(g[m - 1])
          BY <2>2, <3>1
        <5> QED BY <2>4, <4>1, <5>1
      <4>2. CASE k # m
        <5>1. k \in 0..(m - 1) /\ h[k] = g[k]
          BY <2>2, <4>2
        <5>2. g[k] = IF k = 0 THEN b ELSE RenameNext(g[k - 1])
          BY <3>2, <5>1
        <5>3. k # 0 => h[k - 1] = g[k - 1]
          BY <2>2, <4>2
        <5> QED BY <5>1, <5>2, <5>3
      <4> QED BY <4>1, <4>2
    <3>4. Rounds(m, h)
      <4> HIDE DEF h
      <4>1. h = [k \in 0..m |-> h[k]]
        BY DEF h
      <4> QED BY <3>3, <4>1
    <3> QED BY <2>2, <3>4
  <2> QED BY <2>3, <2>4
<1>2. n \notin W
  BY <1>1
<1> QED BY <1>2

\* RenameRounds, round by round.
LEMMA RenameRound ==
  ASSUME NEW b, NEW n \in Nat
  PROVE  \E g : /\ g[0] = b
                /\ \A k \in 1..n : g[k] = RenameNext(g[k - 1])
                /\ RenameRounds(b, n) = g[n]
<1> DEFINE Round(u) == CHOOSE t \in {RenameNext(v) : v \in {u}} : TRUE
           g == CHOOSE h : h = [k \in 0..n |-> IF k = 0 THEN b ELSE Round(h[k - 1])]
<1>1. \A u : Round(u) = RenameNext(u)
  <2> TAKE u
  <2>1. {RenameNext(v) : v \in {u}} = {RenameNext(u)}
    OBVIOUS
  <2> QED BY <2>1
<1>2. RenameRounds(b, n) = g[n]
  BY DEF RenameRounds
<1> HIDE DEF Round
<1>3. \E h : h = [k \in 0..n |-> IF k = 0 THEN b ELSE Round(h[k - 1])]
  <2>1. PICK h : h = [k \in 0..n |-> IF k = 0 THEN b ELSE RenameNext(h[k - 1])]
    BY RoundsExist
  <2>2. h = [k \in 0..n |-> IF k = 0 THEN b ELSE Round(h[k - 1])]
    BY <1>1, <2>1
  <2> QED BY <2>2
<1>4. g = [k \in 0..n |-> IF k = 0 THEN b ELSE Round(g[k - 1])]
  BY <1>3
<1> HIDE DEF g
<1>5. g[0] = b /\ \A k \in 1..n : g[k] = RenameNext(g[k - 1])
  BY <1>1, <1>4
<1> QED BY <1>2, <1>5

\* What a round keeps: the status the stage had, or SerializeStall and with it
\* blockThisCycle.
Waits(t, status) ==
  /\ {"status", "full"} \subseteq DOMAIN t
  /\ t.status = status \/ (t.status = "SerializeStall" /\ t.full)

LEMMA RoundWaits ==
  ASSUME NEW t, NEW status, Waits(t, status)
  PROVE  Waits(RenameNext(t), status)
<1> DEFINE x == Head(t.q)
           u == [t EXCEPT !.q = Tail(@)]
<1>1. Waits(u, status) /\ Waits([t EXCEPT !.stop = TRUE], status)
  BY DEF Waits
<1>2. Waits([t EXCEPT !.stop = TRUE, !.full = TRUE], status)
  BY DEF Waits
<1>3. Waits([u EXCEPT !.n = @ - 1], status)
  BY <1>1 DEF Waits
<1>4. Waits([u EXCEPT !.stop = TRUE, !.full = TRUE, !.status = "SerializeStall",
                      !.serializeInst = <<x>>,
                      !.handled = IF x.sn \in t.temp THEN @ ELSE @ \cup {x.sn}], status)
  <2> HIDE DEF x
  <2> QED BY <1>1 DEF Waits
<1>5. ASSUME NEW v, Waits(v, status) PROVE Waits(RenameInst(v, x), status)
  <2> HIDE DEF x
  <2> QED BY <1>5 DEF Waits, RenameInst
<1>6. Waits([SerializeAfter(t, u.q) EXCEPT !.q = u.q], status)
  <2> HIDE DEF u
  <2> QED BY DEF Waits, SerializeAfter
<1> HIDE DEF x, u
<1>7. CASE t.stop \/ t.n = 0 \/ Len(t.sent) = RenameWidth
  <2>1. RenameNext(t) = t
    BY <1>7 DEF RenameNext
  <2> QED BY <2>1
<1>8. CASE ~(t.stop \/ t.n = 0 \/ Len(t.sent) = RenameWidth)
  <2>1. RenameNext(t) \in
          {[t EXCEPT !.stop = TRUE], [u EXCEPT !.n = @ - 1],
           [t EXCEPT !.stop = TRUE, !.full = TRUE],
           [u EXCEPT !.stop = TRUE, !.full = TRUE, !.status = "SerializeStall",
                     !.serializeInst = <<x>>,
                     !.handled = IF x.sn \in t.temp THEN @ ELSE @ \cup {x.sn}],
           RenameInst([SerializeAfter(t, u.q) EXCEPT !.q = u.q], x), RenameInst(u, x)}
    BY <1>8, Zenon DEF RenameNext, x, u
  <2> QED BY <1>1, <1>2, <1>3, <1>4, <1>5, <1>6, <2>1
<1> QED BY <1>7, <1>8

\* and what the loop leaves of it.
LEMMA LoopWaits ==
  ASSUME NEW s, "status" \in DOMAIN s
  PROVE  Waits(RenameLoop(s), s.status)
<1> DEFINE q     == Source(s)
           free  == Min({FreeROB(s), FreeIQ(s)})
           alone == s.emptyROB /\ s.inProgress = 0
           own   == [q |-> q, n |-> Min({free, Len(q)}), sent |-> <<>>, stop |-> FALSE,
                     full |-> free < Len(q)]
           rounds == NumROB
           begin == Extend(s, own)
           mark  == [begin EXCEPT !.serializeOnNext = @ /\ ~alone,
                                  !.temp = IF s.serializeOnNext /\ ~alone
                                           THEN @ \cup FrontSn(q) ELSE @]
<1>1. Waits(begin, s.status)
  <2>1. begin = Extend(s, own)
    OBVIOUS
  <2>2. DOMAIN own = {"q", "n", "sent", "stop", "full"}
    <3> HIDE DEF q, free
    <3> QED OBVIOUS
  <2> HIDE DEF own, begin
  <2>3. DOMAIN begin = DOMAIN own \cup DOMAIN s /\ begin["status"] = s["status"]
    BY <2>1, <2>2 DEF Extend
  <2> QED BY <2>2, <2>3 DEF Waits
<1>2. Waits(mark, s.status)
  <2> HIDE DEF q, begin, alone
  <2> QED BY <1>1 DEF Waits
<1>3. RenameLoop(s) = RenameRounds(mark, rounds)
  BY DEF RenameLoop
<1>4. rounds \in Nat
  BY FrontEndAssumption
<1> HIDE DEF mark, rounds
<1>5. PICK g : /\ g[0] = mark
               /\ \A k \in 1..rounds : g[k] = RenameNext(g[k - 1])
               /\ RenameRounds(mark, rounds) = g[rounds]
  BY <1>4, RenameRound
<1> DEFINE W == {k \in 0..rounds : ~Waits(g[k], s.status)}
<1>6. W = {}
  <2> SUFFICES ASSUME W # {} PROVE FALSE
    OBVIOUS
  <2>1. PICK k \in W : \A j \in W : k <= j
    <3>1. W \in SUBSET Nat
      BY <1>4
    <3> HIDE DEF W
    <3> QED BY <3>1, SmallestOf
  <2>2. k # 0
    BY <1>2, <1>5, <2>1
  <2>3. k \in 1..rounds /\ k - 1 \in 0..rounds /\ ~(k <= k - 1)
    BY <1>4, <2>1, <2>2
  <2>4. Waits(g[k - 1], s.status)
    BY <2>1, <2>3
  <2>5. Waits(g[k], s.status)
    BY <1>5, <2>3, <2>4, RoundWaits
  <2> QED BY <2>1, <2>5
<1>7. rounds \notin W
  BY <1>6
<1> QED BY <1>3, <1>4, <1>5, <1>7

-----------------------------------------------------------------------------
(* Queues *)

\* A queue is a sequence over some set, and the other way round.
LEMMA QueueIsSeq ==
  ASSUME NEW q
  PROVE  /\ Queue(q) => \E S : q \in Seq(S)
         /\ \A S : q \in Seq(S) => Queue(q)
<1>1. ASSUME Queue(q) PROVE \E S : q \in Seq(S)
  <2> DEFINE S == {q[k] : k \in 1..Len(q)}
  <2>1. q \in [1..Len(q) -> S] /\ Len(q) \in Nat
    BY <1>1 DEF Queue
  <2> HIDE DEF S
  <2>2. q \in Seq(S)
    BY <2>1
  <2> QED BY <2>2
<1>2. ASSUME NEW S, q \in Seq(S) PROVE Queue(q)
  BY <1>2 DEF Queue
<1> QED BY <1>1, <1>2

\* Putting queues together and cutting them gives queues.
LEMMA QueueOps ==
  ASSUME NEW p, NEW q, Queue(p), Queue(q)
  PROVE  /\ Queue(<<>>) /\ Queue(p \o q)
         /\ Len(p) > 0 => Len(p \o q) > 0
<1>1. PICK S : p \in Seq(S)
  BY QueueIsSeq
<1>2. PICK T : q \in Seq(T)
  BY QueueIsSeq
<1>3. p \in Seq(S \cup T) /\ q \in Seq(S \cup T) /\ <<>> \in Seq(S)
  BY <1>1, <1>2
<1>4. p \o q \in Seq(S \cup T) /\ Len(p \o q) = Len(p) + Len(q)
  BY <1>3
<1>5. Len(p) > 0 => Len(p \o q) > 0
  BY <1>3, <1>4, LenProperties
<1> QED BY <1>3, <1>4, <1>5, QueueIsSeq

\* The queue that holds nothing.
LEMMA EmptyQueue ==
  Queue(<<>>) /\ Len(<<>>) = 0
BY DEF Queue

\* The front of a queue and the rest of it.
LEMMA QueueCut ==
  ASSUME NEW q, Queue(q), NEW n \in Nat, n <= Len(q)
  PROVE  /\ Queue(SubSeq(q, 1, n)) /\ Queue(From(q, n + 1))
         /\ Len(From(q, n + 1)) = Len(q) - n
<1>1. PICK S : q \in Seq(S)
  BY QueueIsSeq
<1>2. SubSeq(q, 1, n) \in Seq(S)
  BY <1>1, SubSeqProperties
<1>3. From(q, n + 1) \in Seq(S) /\ Len(From(q, n + 1)) = Len(q) - n
  BY <1>1 DEF From
<1> QED BY <1>2, <1>3, QueueIsSeq

\* A set of numbers below n has the largest that Max picks.
LEMMA LargestOf ==
  ASSUME NEW n \in Nat, NEW W \in SUBSET (0..n), W # {}
  PROVE  Max(W) \in W
<1> DEFINE T == {n - k : k \in W}
<1>1. \E x \in T : \A y \in T : x <= y
  <2>1. T \in SUBSET Nat
    OBVIOUS
  <2>2. PICK k \in W : TRUE
    OBVIOUS
  <2>3. n - k \in T
    OBVIOUS
  <2> HIDE DEF T
  <2> QED BY <2>1, <2>3, SmallestOf
<1>2. PICK k \in W : \A y \in T : n - k <= y
  BY <1>1
<1>3. \A j \in W : n - k <= n - j
  BY <1>2
<1> HIDE DEF T
<1>4. \A j \in W : k >= j
  BY <1>3
<1> QED BY <1>4 DEF Max

\* decodeInsts takes no more than the queue holds.
LEMMA TakesSome ==
  ASSUME NEW q, Queue(q)
  PROVE  DecodeTakes(q) \in 0..Len(q)
<1> DEFINE W == {0} \cup {k \in DOMAIN q : Count(SubSeq(q, 1, k - 1), Live) < DecodeWidth}
<1>1. Len(q) \in Nat /\ DOMAIN q = 1..Len(q)
  BY DEF Queue
<1>2. W \in SUBSET (0..Len(q)) /\ W # {}
  BY <1>1
<1>3. DecodeTakes(q) = Max(W)
  BY DEF DecodeTakes
<1> HIDE DEF W
<1> QED BY <1>1, <1>2, <1>3, LargestOf

-----------------------------------------------------------------------------
(* Decode *)

\* A record with what decode, rename or IEW waits with and signals.
Stage(s) ==
  /\ {"status", "insts", "skid", "block", "unblock"} \subseteq DOMAIN s
  /\ s.block \in BOOLEAN /\ s.unblock \in BOOLEAN

Queues(s) == Queue(s.insts) /\ Queue(s.skid)

\* What t has of s, when it has only been given other instructions.
SameSignals(s, t) ==
  /\ DOMAIN t = DOMAIN s /\ Stage(t)
  /\ t.status = s.status /\ t.block = s.block /\ t.unblock = s.unblock /\ t.stall = s.stall

\* Moving instructions about leaves the signals alone,
LEMMA StageBasics ==
  ASSUME NEW s, Stage(s)
  PROVE  /\ SameSignals(s, SkidInsert(s))
         /\ \A q : SameSignals(s, SetSource(s, q))
<1>1. SameSignals(s, SkidInsert(s))
  BY DEF Stage, SkidInsert, SameSignals
<1>2. ASSUME NEW q PROVE SameSignals(s, SetSource(s, q))
  BY DEF Stage, SetSource, SameSignals
<1> QED BY <1>1, <1>2

\* and leaves queues; a skid buffer with something in it keeps it.
LEMMA QueueBasics ==
  ASSUME NEW s, Stage(s), Queues(s)
  PROVE  /\ Queues(SkidInsert(s)) /\ SkidInsert(s).insts = <<>>
         /\ Len(s.skid) > 0 => Len(SkidInsert(s).skid) > 0
         /\ Queue(Source(s))
         /\ \A q : Queue(q) => Queues(SetSource(s, q))
<1>1. /\ Queue(s.skid \o s.insts) /\ Queue(<<>>)
      /\ Len(s.skid) > 0 => Len(s.skid \o s.insts) > 0
  BY QueueOps DEF Queues
<1>2. SkidInsert(s).skid = s.skid \o s.insts /\ SkidInsert(s).insts = <<>>
  BY DEF Stage, SkidInsert
<1>3. ASSUME NEW q, Queue(q) PROVE Queues(SetSource(s, q))
  BY <1>3 DEF Stage, Queues, SetSource
<1>4. Queue(Source(s))
  BY DEF Queues, Source
<1> QED BY <1>1, <1>2, <1>3, <1>4 DEF Queues

\* What decode leaves behind on its way through tick: it agrees with fetch,
\* whose flag is stall, and has blocked fetch only to wait.
Ticking(s, stall) ==
  /\ Stage(s) /\ stall \in BOOLEAN /\ Agree(stall, s, Held)
  /\ s.status \in {"Running", "Unblocking"} => ~s.block

\* block of decode agrees with fetch, whatever the cycle has said so far.
LEMMA DecodeBlocks ==
  ASSUME NEW s, NEW stall \in BOOLEAN, Stage(s),
         s.unblock => stall,
         s.status = "Blocked" => stall /\ ~s.block /\ ~s.unblock
  PROVE  /\ Ticking(DecodeBlock(s), stall) /\ DOMAIN DecodeBlock(s) = DOMAIN s
         /\ DecodeBlock(s).status = "Blocked" /\ DecodeBlock(s).stall = s.stall
         /\ DecodeBlock(s).skid = SkidInsert(s).skid /\ DecodeBlock(s).insts = SkidInsert(s).insts
<1> DEFINE t == SkidInsert(s)
<1>1. SameSignals(s, t)
  BY StageBasics
<1> HIDE DEF t
<1>2. CASE s.status = "Blocked"
  <2>1. DecodeBlock(s) = t
    BY <1>2 DEF DecodeBlock, t
  <2> QED BY <1>1, <1>2, <2>1 DEF Ticking, Agree, Stalled, Held, Stage, SameSignals, t
<1>3. CASE s.status # "Blocked"
  <2>1. DecodeBlock(s) = [t EXCEPT !.status = "Blocked", !.unblock = FALSE,
                                   !.block = ~s.unblock]
    BY <1>3 DEF DecodeBlock, t
  <2>2. /\ Stage(DecodeBlock(s)) /\ DecodeBlock(s).status = "Blocked"
        /\ DecodeBlock(s).block = ~s.unblock /\ DecodeBlock(s).unblock = FALSE
        /\ DecodeBlock(s).skid = t.skid /\ DecodeBlock(s).insts = t.insts
        /\ DecodeBlock(s).stall = s.stall /\ DOMAIN DecodeBlock(s) = DOMAIN s
    BY <1>1, <2>1 DEF Stage, SameSignals
  <2> QED BY <1>1, <2>2 DEF Ticking, Agree, Stalled, Held, Stage, SameSignals, t
<1> QED BY <1>2, <1>3

\* So does squash.
LEMMA DecodeSquashes ==
  ASSUME NEW s, NEW stall, Ticking(s, stall), ~s.block
  PROVE  /\ Ticking(DecodeSquash(s), stall) /\ DOMAIN DecodeSquash(s) = DOMAIN s
         /\ Queues(DecodeSquash(s)) /\ DecodeSquash(s).stall = s.stall
         /\ DecodeSquash(s).status = "Squashing" /\ ~DecodeSquash(s).block
<1> DEFINE t == DecodeSquash(s)
<1>1. /\ DOMAIN t = DOMAIN s /\ Stage(t) /\ t.stall = s.stall /\ t.block = s.block
      /\ t.status = "Squashing" /\ t.insts = <<>> /\ t.skid = <<>>
      /\ t.unblock = (s.unblock \/ s.status \in Held)
  BY DEF Ticking, Stage, DecodeSquash, Held
<1>2. Queues(t)
  BY <1>1, EmptyQueue DEF Queues
<1> HIDE DEF t
<1>3. Ticking(t, stall)
  BY <1>1 DEF Ticking, Agree, Stalled, Held, Stage
<1> QED BY <1>1, <1>2, <1>3 DEF t

\* unblock comes last, with the skid buffer as the tick leaves it.
LEMMA Unblocks ==
  ASSUME NEW s, NEW stall, Ticking(s, stall), s.skid = <<>> => stall /\ ~s.block
  PROVE  /\ Ticking(Unblock(s), stall) /\ DOMAIN Unblock(s) = DOMAIN s
         /\ Unblock(s).insts = s.insts /\ Unblock(s).skid = s.skid
         /\ Unblock(s).stall = s.stall
<1> DEFINE t == Unblock(s)
<1>1. CASE s.skid = <<>>
  <2>1. /\ DOMAIN t = DOMAIN s /\ Stage(t) /\ t.stall = s.stall /\ t.block = s.block
        /\ t.status = "Running" /\ t.insts = s.insts /\ t.skid = s.skid /\ t.unblock = TRUE
    BY <1>1 DEF Ticking, Stage, Unblock
  <2> HIDE DEF t
  <2>2. Ticking(t, stall)
    BY <1>1, <2>1 DEF Ticking, Agree, Stalled, Held, Stage
  <2> QED BY <2>1, <2>2 DEF t
<1>2. CASE s.skid # <<>>
  BY <1>2 DEF Unblock
<1> QED BY <1>1, <1>2

\* decodeInsts: what blocks it while unblocking is still in the skid buffer, so that
\* unblock does not follow.
LEMMA DecodesInsts ==
  ASSUME NEW s, NEW stall, Ticking(s, stall), Queues(s), s.status \in {"Running", "Unblocking"},
         NEW wrong \in Nat, wrong <= DecodeTakes(Source(s))
  PROVE  LET v == DecodeInsts(s, wrong)
         IN  /\ Ticking(v, stall) /\ Queues(v) /\ DOMAIN v = DOMAIN s /\ v.stall = s.stall
             /\ s.status = "Unblocking" => stall /\ (v.block => Len(v.skid) > 0)
<1> DEFINE q == Source(s)
           n == IF wrong > 0 THEN wrong ELSE DecodeTakes(q)
           t == SetSource(s, From(q, n + 1))
           v == DecodeInsts(s, wrong)
<1>1. Queue(q) /\ n \in Nat /\ n <= Len(q) /\ Len(q) \in Nat
  <2>1. Queue(q)
    BY QueueBasics DEF Ticking
  <2>2. DecodeTakes(q) \in 0..Len(q) /\ Len(q) \in Nat
    BY <2>1, TakesSome DEF Queue
  <2> QED BY <2>1, <2>2
<1>2. Queue(From(q, n + 1)) /\ Len(From(q, n + 1)) = Len(q) - n
  <2> HIDE DEF q, n
  <2> QED BY <1>1, QueueCut
<1>3. SameSignals(s, t) /\ Queues(t)
  <2> HIDE DEF q, n
  <2> QED BY <1>2, StageBasics, QueueBasics DEF Ticking
<1>4. s.status = "Unblocking" => t.skid = From(q, n + 1)
  <2> HIDE DEF q, n
  <2> QED BY DEF SetSource, Ticking, Stage
<1>5. Ticking(t, stall) /\ ~t.block
  <2> HIDE DEF t
  <2> QED BY <1>3 DEF SameSignals, Ticking, Agree, Stalled
<1>6. s.status = "Unblocking" => stall
  BY DEF Ticking, Agree, Stalled, Held
<1>7. v = IF wrong > 0 THEN [DecodeSquash(t) EXCEPT !.squash = <<q[wrong]>>]
          ELSE IF n < Len(q) THEN DecodeBlock(t) ELSE t
  BY DEF DecodeInsts
<1> HIDE DEF q, n, t, v
<1>8. CASE wrong > 0
  <2> DEFINE u == DecodeSquash(t)
  <2>1. /\ Ticking(u, stall) /\ DOMAIN u = DOMAIN t /\ Queues(u) /\ u.stall = t.stall
        /\ u.status = "Squashing" /\ ~u.block
    BY <1>5, DecodeSquashes
  <2>2. v = [u EXCEPT !.squash = <<q[wrong]>>]
    BY <1>7, <1>8
  <2> HIDE DEF u
  <2>3. /\ DOMAIN v = DOMAIN u
        /\ \A x \in {"status", "insts", "skid", "block", "unblock", "stall"} : v[x] = u[x]
    BY <2>2
  <2>4. Ticking(v, stall) /\ Queues(v)
    BY <2>1, <2>3 DEF Ticking, Queues, Stage, Agree, Stalled, Held
  <2> QED BY <1>3, <1>6, <2>1, <2>3, <2>4 DEF SameSignals, v
<1>9. CASE wrong <= 0 /\ n < Len(q)
  <2>1. v = DecodeBlock(t)
    BY <1>7, <1>9
  <2>2. t.unblock => stall
    BY <1>5 DEF Ticking, Agree
  <2>3. t.status # "Blocked"
    BY <1>3 DEF SameSignals
  <2>4. /\ Ticking(v, stall) /\ DOMAIN v = DOMAIN t /\ v.stall = t.stall
        /\ v.skid = SkidInsert(t).skid /\ v.insts = SkidInsert(t).insts
    BY <1>5, <2>1, <2>2, <2>3, DecodeBlocks DEF Ticking
  <2>5. Queues(SkidInsert(t)) /\ (Len(t.skid) > 0 => Len(SkidInsert(t).skid) > 0)
    <3>1. Stage(t) /\ Queues(t)
      BY <1>3 DEF SameSignals
    <3> QED BY <3>1, QueueBasics
  <2>6. s.status = "Unblocking" => Len(v.skid) > 0
    <3>1. Len(From(q, n + 1)) > 0
      BY <1>1, <1>2, <1>9
    <3>2. s.status = "Unblocking" => Len(t.skid) > 0
      BY <1>4, <3>1
    <3> QED BY <2>4, <2>5, <3>2
  <2> QED BY <1>3, <1>6, <2>4, <2>5, <2>6 DEF SameSignals, Queues, v
<1>10. CASE wrong <= 0 /\ ~(n < Len(q))
  BY <1>3, <1>5, <1>6, <1>7, <1>10 DEF SameSignals, v
<1> QED BY <1>8, <1>9, <1>10

\* decode.
LEMMA DecodeStages ==
  ASSUME NEW s, NEW stall, Ticking(s, stall), Queues(s),
         NEW wrong \in Nat, wrong <= DecodeTakes(IF Active(s) THEN Source(s) ELSE <<>>)
  PROVE  LET v == DecodeStage(s, wrong)
         IN  /\ Ticking(v, stall) /\ Queues(v) /\ DOMAIN v = DOMAIN s /\ v.stall = s.stall
<1> DEFINE u == DecodeInsts(s, wrong)
<1>1. CASE s.status = "Running"
  <2>1. DecodeStage(s, wrong) = u /\ wrong <= DecodeTakes(Source(s))
    BY <1>1 DEF DecodeStage, Active
  <2> QED BY <1>1, <2>1, DecodesInsts
<1>2. CASE s.status = "Unblocking"
  <2> DEFINE w == SkidInsert(u)
  <2>1. wrong <= DecodeTakes(Source(s))
    BY <1>2 DEF Active
  <2>2. /\ Ticking(u, stall) /\ Queues(u) /\ DOMAIN u = DOMAIN s /\ u.stall = s.stall
        /\ stall /\ (u.block => Len(u.skid) > 0)
    BY <1>2, <2>1, DecodesInsts
  <2>3. DecodeStage(s, wrong) = Unblock(w)
    BY <1>2 DEF DecodeStage
  <2> HIDE DEF u
  <2>4. SameSignals(u, w)
    BY <2>2, StageBasics DEF Ticking
  <2>5. Queues(w) /\ (Len(u.skid) > 0 => Len(w.skid) > 0)
    <3>1. Stage(u)
      BY <2>2 DEF Ticking
    <3> QED BY <2>2, <3>1, QueueBasics
  <2> HIDE DEF w
  <2>6. Ticking(w, stall)
    BY <2>2, <2>4 DEF SameSignals, Ticking, Agree, Stalled, Held
  <2>7. w.skid = <<>> => ~u.block
    <3>1. u.block => Len(w.skid) > 0
      BY <2>2, <2>5
    <3> QED BY <3>1, EmptyQueue
  <2>8. w.skid = <<>> => stall /\ ~w.block
    BY <2>2, <2>4, <2>7 DEF SameSignals
  <2>9. /\ Ticking(Unblock(w), stall) /\ DOMAIN Unblock(w) = DOMAIN w
        /\ Unblock(w).insts = w.insts /\ Unblock(w).skid = w.skid /\ Unblock(w).stall = w.stall
    BY <2>6, <2>8, Unblocks
  <2> QED BY <2>2, <2>3, <2>4, <2>5, <2>9 DEF SameSignals, Queues
<1>3. CASE s.status \notin {"Running", "Unblocking"}
  BY <1>3 DEF DecodeStage
<1> QED BY <1>1, <1>2, <1>3

\* checkSignalsAndUpdate of decode.
LEMMA DecodeHears ==
  ASSUME NEW s, NEW stall \in BOOLEAN, Stage(s), Queues(s), "stall" \in DOMAIN s,
         ~s.block, ~s.unblock, stall <=> s.status \in Held
  PROVE  LET v == DecodeSignals(s)
         IN  /\ Ticking(v, stall) /\ Queues(v) /\ DOMAIN v = DOMAIN s
             /\ v.stall = Stalled(s.stall, r)
<1> DEFINE t == [s EXCEPT !.stall = Stalled(@, r)]
           v == DecodeSignals(s)
<1>1. /\ DOMAIN t = DOMAIN s /\ Stage(t) /\ Queues(t) /\ t.stall = Stalled(s.stall, r)
      /\ t.status = s.status /\ ~t.block /\ ~t.unblock
  BY DEF Stage, Queues
<1>2. v = IF c.squash THEN DecodeSquash(t)
          ELSE IF t.stall THEN DecodeBlock(t)
          ELSE IF t.status = "Blocked" THEN Unblock([t EXCEPT !.status = "Unblocking"])
          ELSE IF t.status = "Squashing" THEN [t EXCEPT !.status = "Running"]
          ELSE t
  BY DEF DecodeSignals
<1>3. Ticking(t, stall)
  <2> HIDE DEF t
  <2> QED BY <1>1 DEF Ticking, Agree, Stalled
<1>4. ASSUME NEW status \in {"Unblocking", "Running"}, status = "Unblocking" <=> t.status \in Held
      PROVE  LET w == [t EXCEPT !.status = status]
             IN  /\ Ticking(w, stall) /\ Queues(w) /\ DOMAIN w = DOMAIN t /\ w.stall = t.stall
                 /\ w.status = status /\ ~w.block /\ w.skid = t.skid /\ w.insts = t.insts
  <2> DEFINE w == [t EXCEPT !.status = status]
  <2> HIDE DEF t
  <2>1. /\ DOMAIN w = DOMAIN t /\ Stage(w) /\ Queues(w) /\ w.stall = t.stall
        /\ w.status = status /\ w.block = t.block /\ w.unblock = t.unblock
        /\ w.skid = t.skid /\ w.insts = t.insts
    BY <1>1 DEF Stage, Queues
  <2> HIDE DEF w
  <2>2. Ticking(w, stall)
    BY <1>1, <1>4, <2>1 DEF Ticking, Agree, Stalled, Held
  <2> QED BY <1>1, <2>1, <2>2 DEF w
<1> HIDE DEF t, v
<1>5. CASE c.squash
  BY <1>1, <1>2, <1>3, <1>5, DecodeSquashes DEF v
<1>6. CASE ~c.squash /\ t.stall
  <2>1. v = DecodeBlock(t) /\ (t.status = "Blocked" => stall /\ ~t.block /\ ~t.unblock)
    BY <1>1, <1>2, <1>6 DEF Held
  <2>2. /\ Ticking(v, stall) /\ DOMAIN v = DOMAIN t /\ v.stall = t.stall
        /\ v.skid = SkidInsert(t).skid /\ v.insts = SkidInsert(t).insts
    BY <1>1, <2>1, DecodeBlocks
  <2>3. Queues(v)
    BY <1>1, <2>2, QueueBasics DEF Queues
  <2> QED BY <1>1, <2>2, <2>3 DEF v
<1>7. CASE ~c.squash /\ ~t.stall /\ t.status = "Blocked"
  <2> DEFINE w == [t EXCEPT !.status = "Unblocking"]
  <2>1. /\ Ticking(w, stall) /\ Queues(w) /\ DOMAIN w = DOMAIN t /\ w.stall = t.stall
        /\ w.status = "Unblocking" /\ ~w.block
    BY <1>4, <1>7 DEF Held
  <2>2. v = Unblock(w) /\ stall
    BY <1>1, <1>2, <1>7 DEF Held
  <2> HIDE DEF w
  <2>3. /\ Ticking(v, stall) /\ DOMAIN v = DOMAIN w /\ v.stall = w.stall
        /\ v.insts = w.insts /\ v.skid = w.skid
    BY <2>1, <2>2, Unblocks
  <2> QED BY <1>1, <2>1, <2>3 DEF v, Queues
<1>8. CASE ~c.squash /\ ~t.stall /\ t.status = "Squashing"
  <2>1. v = [t EXCEPT !.status = "Running"]
    BY <1>2, <1>8
  <2> QED BY <1>1, <1>4, <1>8, <2>1 DEF v, Held
<1>9. CASE ~c.squash /\ ~t.stall /\ t.status \notin {"Blocked", "Squashing"}
  BY <1>1, <1>2, <1>3, <1>9 DEF v
<1> QED BY <1>5, <1>6, <1>7, <1>8, <1>9

-----------------------------------------------------------------------------
(* Rename *)

\* What rename leaves behind on its way through tick.
Renaming(s, stall) ==
  /\ Stage(s) /\ stall \in BOOLEAN /\ Agree(stall, s, HeldBack)
  /\ s.status \in {"Running", "Unblocking"} => ~s.block

\* block of rename: it does not tell decode twice.
LEMMA RenameBlocks ==
  ASSUME NEW s, NEW stall \in BOOLEAN, Stage(s),
         s.status \in Held => stall /\ ~s.block /\ ~s.unblock
  PROVE  LET v == RenameBlock(s)
         IN  /\ Renaming(v, stall) /\ DOMAIN v = DOMAIN s /\ v.stall = s.stall
             /\ v.status = (IF s.status = "SerializeStall" THEN "SerializeStall" ELSE "Blocked")
             /\ v.block = (s.status \notin Held) /\ ~v.unblock
<1> DEFINE t == SkidInsert(s)
           v == RenameBlock(s)
<1>1. SameSignals(s, t)
  BY StageBasics
<1> HIDE DEF t
<1>2. CASE s.status = "Blocked"
  <2>1. v = t
    BY <1>2 DEF RenameBlock, t
  <2> HIDE DEF v
  <2> QED BY <1>1, <1>2, <2>1 DEF Renaming, Agree, Stalled, Held, HeldBack, Stage, SameSignals, v
<1>3. CASE s.status # "Blocked"
  <2>1. v = [t EXCEPT !.block = @ \/ s.status # "Unblocking",
                      !.unblock = @ /\ s.status = "Unblocking",
                      !.status = IF @ = "SerializeStall" THEN @ ELSE "Blocked"]
    BY <1>3 DEF RenameBlock, t
  <2> HIDE DEF v
  <2>2. /\ DOMAIN v = DOMAIN t /\ Stage(v) /\ v.stall = t.stall
        /\ v.status = (IF t.status = "SerializeStall" THEN "SerializeStall" ELSE "Blocked")
        /\ v.block = (t.block \/ s.status # "Unblocking")
        /\ v.unblock = (t.unblock /\ s.status = "Unblocking")
    BY <1>1, <2>1 DEF Stage, SameSignals
  <2>3. v.block = (s.status \notin Held) /\ ~v.unblock
    BY <1>1, <1>3, <2>2 DEF Held, SameSignals
  <2>4. Renaming(v, stall)
    BY <1>1, <2>2, <2>3 DEF Renaming, Agree, Stalled, Held, HeldBack, SameSignals
  <2> QED BY <1>1, <2>2, <2>3, <2>4 DEF SameSignals, v
<1> QED BY <1>2, <1>3

\* unblock of rename.
LEMMA RenameUnblocks ==
  ASSUME NEW s, NEW stall, Renaming(s, stall),
         s.skid = <<>> /\ s.status # "SerializeStall" => stall /\ ~s.block
  PROVE  LET v == RenameUnblock(s)
         IN  Renaming(v, stall) /\ DOMAIN v = DOMAIN s /\ v.stall = s.stall
<1> DEFINE v == RenameUnblock(s)
<1>1. CASE s.skid = <<>> /\ s.status # "SerializeStall"
  <2>1. v = [s EXCEPT !.unblock = TRUE, !.status = "Running"]
    BY <1>1 DEF RenameUnblock, Unblock
  <2> HIDE DEF v
  <2>2. /\ DOMAIN v = DOMAIN s /\ Stage(v) /\ v.stall = s.stall /\ v.block = s.block
        /\ v.status = "Running" /\ v.unblock = TRUE
    BY <2>1 DEF Renaming, Stage
  <2>3. Renaming(v, stall)
    BY <1>1, <2>2 DEF Renaming, Agree, Stalled, Held, HeldBack, Stage
  <2> QED BY <2>2, <2>3 DEF v
<1>2. CASE ~(s.skid = <<>> /\ s.status # "SerializeStall")
  BY <1>2 DEF RenameUnblock, Unblock
<1> QED BY <1>1, <1>2

\* squash of rename: the stage before it is told, held back or not.
LEMMA RenameSquashes ==
  ASSUME NEW s, NEW stall, Renaming(s, stall), ~s.block
  PROVE  LET v == RenameSquash(s)
         IN  Renaming(v, stall) /\ DOMAIN v = DOMAIN s /\ v.stall = s.stall
<1> DEFINE v == RenameSquash(s)
           p == [s EXCEPT !.status = "Squashing", !.insts = <<>>, !.skid = <<>>,
                          !.serializeInst = <<>>]
           q == [p EXCEPT !.temp = {}, !.handled = {}]
<1>1. /\ DOMAIN v = DOMAIN s /\ Stage(v) /\ v.stall = s.stall /\ v.block = s.block
      /\ v.status = "Squashing" /\ v.unblock = (s.unblock \/ s.status \in HeldBack)
  <2>1. v = [q EXCEPT !.unblock =
                        s.unblock \/ s.status \in {"Blocked", "Unblocking", "SerializeStall"},
                      !.history = {sn \in s.history : sn <= c.done}]
    BY Zenon DEF RenameSquash
  <2>2. /\ DOMAIN p = DOMAIN s /\ Stage(p) /\ p.stall = s.stall /\ p.block = s.block
        /\ p.status = "Squashing"
    BY DEF Renaming, Stage
  <2> HIDE DEF p
  <2>3. /\ DOMAIN q = DOMAIN s /\ Stage(q) /\ q.stall = s.stall /\ q.block = s.block
        /\ q.status = "Squashing"
    BY <2>2 DEF Stage
  <2> HIDE DEF q, v
  <2>4. HeldBack = {"Blocked", "Unblocking", "SerializeStall"}
    BY DEF Held, HeldBack
  <2> QED BY <2>1, <2>3, <2>4 DEF Stage
<1> HIDE DEF v
<1>2. Renaming(v, stall)
  BY <1>1 DEF Renaming, Agree, Stalled, Held, HeldBack, Stage
<1> QED BY <1>1, <1>2 DEF v

\* The end of SerializeStall.
LEMMA Resumes ==
  ASSUME NEW s, NEW stall, Renaming(s, stall), s.status = "SerializeStall", ~s.block
  PROVE  LET v == Resume(s)
         IN  Renaming(v, stall) /\ DOMAIN v = DOMAIN s /\ v.stall = s.stall
<1> DEFINE u == [s EXCEPT !.status = "Unblocking"]
           t == RenameUnblock(u)
           v == Resume(s)
<1>1. /\ DOMAIN u = DOMAIN s /\ Stage(u) /\ u.stall = s.stall /\ u.status = "Unblocking"
      /\ u.block = s.block /\ u.unblock = s.unblock
  BY DEF Renaming, Stage
<1> HIDE DEF u
<1>2. stall /\ Renaming(u, stall) /\ ~u.block
  BY <1>1 DEF Renaming, Agree, Stalled, Held, HeldBack
<1>3. Renaming(t, stall) /\ DOMAIN t = DOMAIN u /\ t.stall = u.stall
  BY <1>2, RenameUnblocks
<1> DEFINE inst  == s.serializeInst
           temp  == t.temp \ Sns(inst)
           skid  == IF t.skid # <<>> THEN inst \o t.skid ELSE t.skid
           insts == IF t.skid # <<>> THEN t.insts ELSE inst \o t.insts
<1>4. v = [t EXCEPT !.serializeInst = <<>>, !.temp = temp, !.skid = skid, !.insts = insts]
  BY DEF Resume, t, u
<1> HIDE DEF t, v, temp, skid, insts
<1>5. SameSignals(t, v)
  BY <1>3, <1>4 DEF Renaming, Stage, SameSignals
<1>6. Renaming(v, stall)
  BY <1>3, <1>5 DEF Renaming, Agree, Stalled, SameSignals
<1> QED BY <1>1, <1>3, <1>5, <1>6 DEF v, SameSignals

\* checkSignalsAndUpdate of rename.
LEMMA RenameHears ==
  ASSUME NEW s, NEW stall \in BOOLEAN, Stage(s), "stall" \in DOMAIN s,
         ~s.block, ~s.unblock, stall <=> s.status \in HeldBack
  PROVE  LET v == RenameSignals(s)
         IN  Renaming(v, stall) /\ DOMAIN v = DOMAIN s /\ v.stall = Stalled(s.stall, i)
<1> DEFINE u == ReadFreeEntries(s)
           t == [u EXCEPT !.stall = Stalled(@, i)]
           v == RenameSignals(s)
<1>1. SameSignals(s, u)
  BY DEF Stage, ReadFreeEntries, SameSignals
<1>2. v = IF c.squash THEN RenameSquash(t)
          ELSE IF RenameStalls(t) THEN RenameBlock(t)
          ELSE IF t.status = "Blocked" THEN RenameUnblock([t EXCEPT !.status = "Unblocking"])
          ELSE IF t.status = "Squashing" THEN [t EXCEPT !.status = "Running"]
          ELSE IF t.status = "SerializeStall" THEN Resume(t)
          ELSE t
  BY DEF RenameSignals
<1> HIDE DEF u
<1>3. /\ DOMAIN t = DOMAIN s /\ Stage(t) /\ t.stall = Stalled(s.stall, i)
      /\ t.status = s.status /\ ~t.block /\ ~t.unblock
  BY <1>1 DEF Stage, SameSignals
<1> HIDE DEF t, v
<1>4. Renaming(t, stall)
  BY <1>3 DEF Renaming, Agree, Stalled
<1>5. ASSUME NEW status \in {"Unblocking", "Running"},
             status = "Unblocking" <=> t.status \in HeldBack
      PROVE  LET w == [t EXCEPT !.status = status]
             IN  /\ Renaming(w, stall) /\ DOMAIN w = DOMAIN t /\ w.stall = t.stall
                 /\ w.status = status /\ ~w.block
  <2> DEFINE w == [t EXCEPT !.status = status]
  <2>1. /\ DOMAIN w = DOMAIN t /\ Stage(w) /\ w.stall = t.stall
        /\ w.status = status /\ w.block = t.block /\ w.unblock = t.unblock
    BY <1>3 DEF Stage
  <2> HIDE DEF w
  <2>2. Renaming(w, stall)
    BY <1>3, <1>5, <2>1 DEF Renaming, Agree, Stalled, Held, HeldBack
  <2> QED BY <1>3, <2>1, <2>2 DEF w
<1>6. CASE c.squash
  BY <1>2, <1>3, <1>4, <1>6, RenameSquashes DEF v
<1>7. CASE ~c.squash /\ RenameStalls(t)
  <2>1. v = RenameBlock(t) /\ (t.status \in Held => stall /\ ~t.block /\ ~t.unblock)
    BY <1>2, <1>3, <1>7 DEF HeldBack
  <2> QED BY <1>3, <2>1, RenameBlocks DEF v
<1>8. CASE ~c.squash /\ ~RenameStalls(t) /\ t.status = "Blocked"
  <2> DEFINE w == [t EXCEPT !.status = "Unblocking"]
  <2>1. Renaming(w, stall) /\ DOMAIN w = DOMAIN t /\ w.stall = t.stall /\ ~w.block
    BY <1>5, <1>8 DEF Held, HeldBack
  <2>2. v = RenameUnblock(w) /\ stall
    BY <1>2, <1>3, <1>8 DEF Held, HeldBack
  <2> HIDE DEF w
  <2> QED BY <1>3, <2>1, <2>2, RenameUnblocks DEF v
<1>9. CASE ~c.squash /\ ~RenameStalls(t) /\ t.status = "Squashing"
  <2>1. v = [t EXCEPT !.status = "Running"]
    BY <1>2, <1>9
  <2> QED BY <1>3, <1>5, <1>9, <2>1 DEF v, Held, HeldBack
<1>10. CASE ~c.squash /\ ~RenameStalls(t) /\ t.status = "SerializeStall"
  <2>1. v = Resume(t)
    BY <1>2, <1>10
  <2> QED BY <1>3, <1>4, <1>10, <2>1, Resumes DEF v
<1>11. CASE /\ ~c.squash /\ ~RenameStalls(t)
            /\ t.status \notin {"Blocked", "Squashing", "SerializeStall"}
  BY <1>2, <1>3, <1>4, <1>11 DEF v
<1> QED BY <1>6, <1>7, <1>8, <1>9, <1>10, <1>11

\* renameInsts: SerializeStall comes with a block (see LoopWaits), even when the stage
\* was unblocking.
LEMMA RenamesInsts ==
  ASSUME NEW s, NEW stall, Renaming(s, stall), s.status \in {"Running", "Unblocking"}
  PROVE  LET v == RenameInsts(s)
         IN  /\ Renaming(v, stall) /\ DOMAIN v = DOMAIN s /\ v.stall = s.stall
             /\ s.status = "Unblocking" /\ v.status # "SerializeStall" => ~v.block
<1> DEFINE e == RenameLoop(s)
           p == SetSource(s, e.q)
           t == [p EXCEPT
                   !.status = e.status, !.serializeInst = e.serializeInst,
                   !.serializeOnNext = e.serializeOnNext, !.temp = e.temp, !.handled = e.handled,
                   !.history = e.history, !.loads = e.loads, !.stores = e.stores,
                   !.inProgress = @ + Len(e.sent)]
           v == RenameInsts(s)
<1>1. e.status = s.status \/ (e.status = "SerializeStall" /\ e.full)
  BY LoopWaits DEF Renaming, Stage, Waits
<1>2. v = IF e.full \/ e.n > 0 THEN [RenameBlock(t) EXCEPT !.unblock = FALSE] ELSE t
  BY DEF RenameInsts
<1> HIDE DEF e, v
<1>3. SameSignals(s, p)
  BY StageBasics DEF Renaming
<1> HIDE DEF p
<1>4. /\ DOMAIN t = DOMAIN s /\ Stage(t) /\ t.stall = s.stall /\ t.block = s.block
      /\ t.unblock = s.unblock /\ t.status = e.status
  <2> DEFINE a == [p EXCEPT !.status = e.status, !.serializeInst = e.serializeInst,
                            !.serializeOnNext = e.serializeOnNext, !.temp = e.temp]
             b == [a EXCEPT !.handled = e.handled, !.history = e.history, !.loads = e.loads]
  <2>1. t = [b EXCEPT !.stores = e.stores, !.inProgress = p.inProgress + Len(e.sent)]
    BY Zenon
  <2>2. /\ DOMAIN a = DOMAIN p /\ a.status = e.status
        /\ \A x \in {"stall", "block", "unblock"} : a[x] = p[x]
    BY <1>3 DEF SameSignals, Stage
  <2> HIDE DEF a
  <2>3. /\ DOMAIN b = DOMAIN a /\ \A x \in {"status", "stall", "block", "unblock"} : b[x] = a[x]
    OBVIOUS
  <2> HIDE DEF b, t
  <2>4. /\ DOMAIN t = DOMAIN b /\ \A x \in {"status", "stall", "block", "unblock"} : t[x] = b[x]
    BY <2>1
  <2> QED BY <1>3, <2>2, <2>3, <2>4 DEF SameSignals, Stage
<1> HIDE DEF t
<1>5. CASE e.full \/ e.n > 0
  <2> DEFINE b == RenameBlock(t)
  <2>1. t.status \in Held => stall /\ ~t.block /\ ~t.unblock
    BY <1>1, <1>4 DEF Held, HeldBack, Renaming, Agree, Stalled
  <2>2. /\ Renaming(b, stall) /\ DOMAIN b = DOMAIN t /\ b.stall = t.stall
        /\ b.status = (IF t.status = "SerializeStall" THEN "SerializeStall" ELSE "Blocked")
        /\ b.block = (t.status \notin Held) /\ ~b.unblock
    <3>1. stall \in BOOLEAN
      BY DEF Renaming
    <3> QED BY <1>4, <2>1, <3>1, RenameBlocks
  <2>3. v = [b EXCEPT !.unblock = FALSE]
    BY <1>2, <1>5
  <2> HIDE DEF b
  <2>4. SameSignals(b, v)
    <3>1. Stage(b) /\ b.unblock = FALSE
      BY <2>2 DEF Renaming, Stage
    <3>2. DOMAIN v = DOMAIN b /\ \A x \in {"status", "stall", "block"} : v[x] = b[x]
      BY <2>3
    <3>3. v.unblock = FALSE
      BY <2>3, <3>1 DEF Stage
    <3> QED BY <3>1, <3>2, <3>3 DEF SameSignals, Stage
  <2>5. Renaming(v, stall)
    BY <2>2, <2>4 DEF Renaming, Agree, Stalled, SameSignals
  <2>6. s.status = "Unblocking" /\ v.status # "SerializeStall" => ~v.block
    BY <1>1, <1>4, <2>2, <2>4 DEF SameSignals, Held
  <2> QED BY <1>4, <2>2, <2>4, <2>5, <2>6 DEF SameSignals, v
<1>6. CASE ~(e.full \/ e.n > 0)
  <2>1. t.status = s.status /\ v = t
    BY <1>1, <1>2, <1>4, <1>6
  <2>2. Renaming(v, stall)
    BY <1>4, <2>1 DEF Renaming, Agree, Stalled
  <2>3. ~v.block
    BY <1>4, <2>1 DEF Renaming
  <2> QED BY <1>4, <2>1, <2>2, <2>3 DEF v
<1> QED BY <1>5, <1>6

\* What rename does with a queue.
LEMMA RenameTries ==
  ASSUME NEW s, NEW stall, Renaming(s, stall), s.status \in {"Running", "Unblocking"}
  PROVE  LET v == RenameTry(s)
         IN  /\ Renaming(v, stall) /\ DOMAIN v = DOMAIN s /\ v.stall = s.stall
             /\ s.status = "Unblocking" /\ v.status # "SerializeStall" => ~v.block
<1> DEFINE v == RenameTry(s)
<1>1. CASE v = s
  BY <1>1 DEF Renaming
<1>2. CASE v = RenameInsts(s)
  BY <1>2, RenamesInsts
<1>3. CASE v = RenameBlock(s)
  <2>1. s.status \in Held => stall /\ ~s.block /\ ~s.unblock
    BY DEF Held, HeldBack, Renaming, Agree, Stalled
  <2>2. Stage(s) /\ stall \in BOOLEAN
    BY DEF Renaming
  <2> HIDE DEF v
  <2>3. /\ Renaming(v, stall) /\ DOMAIN v = DOMAIN s /\ v.stall = s.stall
        /\ v.block = (s.status \notin Held)
    BY <1>3, <2>1, <2>2, RenameBlocks
  <2>4. s.status = "Unblocking" => ~v.block
    BY <2>3 DEF Held
  <2> QED BY <2>3, <2>4 DEF v
<1>4. v \in {s, RenameInsts(s), RenameBlock(s)}
  BY Zenon DEF RenameTry
<1> QED BY <1>1, <1>2, <1>3, <1>4

\* rename, and the end of its tick.
LEMMA RenameStages ==
  ASSUME NEW s, NEW stall, Renaming(s, stall)
  PROVE  LET v == RenameEnd(RenameStage(s))
         IN  Renaming(v, stall) /\ DOMAIN v = DOMAIN s /\ v.stall = s.stall
<1> DEFINE u == RenameStage(s)
           v == RenameEnd(u)
<1>1. Renaming(u, stall) /\ DOMAIN u = DOMAIN s /\ u.stall = s.stall
  <2>1. CASE s.status = "Running"
    <3>1. u = RenameTry(s)
      BY <2>1 DEF RenameStage
    <3> QED BY <2>1, <3>1, RenameTries
  <2>2. CASE s.status = "Unblocking"
    <3> DEFINE t == RenameTry(s)
               w == IF \E x \in Range(wire.rename) : Live(x) THEN SkidInsert(t) ELSE t
    <3>1. u = RenameUnblock(w)
      BY <2>2 DEF RenameStage
    <3>2. /\ Renaming(t, stall) /\ DOMAIN t = DOMAIN s /\ t.stall = s.stall
          /\ t.status # "SerializeStall" => ~t.block
      BY <2>2, RenameTries
    <3> HIDE DEF t, u
    <3>3. SameSignals(t, w)
      <4>1. SameSignals(t, t) /\ SameSignals(t, SkidInsert(t))
        BY <3>2, StageBasics DEF Renaming, SameSignals
      <4> QED BY <4>1
    <3> HIDE DEF w
    <3>4. Renaming(w, stall)
      BY <3>2, <3>3 DEF Renaming, Agree, Stalled, SameSignals
    <3>5. stall
      BY <2>2 DEF Renaming, Agree, Stalled, Held, HeldBack
    <3>6. w.status # "SerializeStall" => ~w.block
      BY <3>2, <3>3 DEF SameSignals
    <3>7. Renaming(u, stall) /\ DOMAIN u = DOMAIN w /\ u.stall = w.stall
      BY <3>1, <3>4, <3>5, <3>6, RenameUnblocks
    <3> QED BY <3>2, <3>3, <3>7 DEF SameSignals
  <2>3. CASE s.status \notin {"Running", "Unblocking"}
    BY <2>3 DEF RenameStage
  <2> QED BY <2>1, <2>2, <2>3
<1> HIDE DEF u
<1>2. SameSignals(u, v)
  BY <1>1 DEF Renaming, Stage, SameSignals, RenameEnd
<1> HIDE DEF v
<1>3. Renaming(v, stall)
  BY <1>1, <1>2 DEF Renaming, Agree, Stalled, SameSignals
<1> QED BY <1>1, <1>2, <1>3 DEF u, v, SameSignals

-----------------------------------------------------------------------------
(* Issue, execute, write-back *)

\* block of IEW, as checkStall and dispatchInsts use it.
LEMMA IEWBlocks ==
  ASSUME NEW s, NEW stall \in BOOLEAN, Stage(s), s.unblock => stall /\ s.status \notin Held,
         s.status \in Held => stall /\ ~s.block
  PROVE  LET v == [IEWBlock(s) EXCEPT !.unblock = FALSE]
         IN  /\ Ticking(v, stall) /\ v.status = "Blocked"
             /\ ~s.unblock => Ticking(IEWBlock(s), stall)
             /\ s.status \in Held => ~v.block
<1> DEFINE t == SkidInsert(s)
           u == IEWBlock(s)
           v == [u EXCEPT !.unblock = FALSE]
<1>1. SameSignals(s, t)
  BY StageBasics
<1> HIDE DEF t
<1>2. u = [t EXCEPT !.block = @ \/ s.status \notin {"Blocked", "Unblocking"},
                    !.status = "Blocked"]
  BY DEF IEWBlock, t
<1> HIDE DEF u
<1>3. /\ Stage(u) /\ u.status = "Blocked" /\ u.unblock = t.unblock
      /\ u.block = (t.block \/ s.status \notin Held)
  BY <1>1, <1>2 DEF Stage, SameSignals, Held
<1>4. /\ Stage(v) /\ v.status = "Blocked" /\ v.unblock = FALSE /\ v.block = u.block
  BY <1>3 DEF Stage
<1>5. ~s.unblock => Ticking(u, stall)
  BY <1>1, <1>3 DEF Ticking, Agree, Stalled, Held, SameSignals
<1> HIDE DEF v
<1>6. Ticking(v, stall)
  BY <1>1, <1>3, <1>4 DEF Ticking, Agree, Stalled, Held, SameSignals
<1>7. s.status \in Held => ~v.block
  BY <1>1, <1>3, <1>4 DEF SameSignals
<1> QED BY <1>4, <1>5, <1>6, <1>7 DEF u, v

\* Telling rename what has arrived signals nothing else.
LEMMA ArrivedSignals ==
  ASSUME NEW s, Stage(s), NEW q
  PROVE  SameSignals(s, Arrived(s, q)) /\ SameSignals(s, EmptyRenameInsts(s))
<1>1. ASSUME NEW p PROVE SameSignals(s, Arrived(s, p))
  BY DEF Stage, SameSignals, Arrived
<1> DEFINE t == Arrived(s, s.insts)
<1>2. SameSignals(s, t)
  BY <1>1
<1> HIDE DEF t
<1>3. SameSignals(t, [t EXCEPT !.insts = <<>>])
  BY <1>2 DEF SameSignals, Stage
<1>4. SameSignals(s, [t EXCEPT !.insts = <<>>])
  BY <1>2, <1>3 DEF SameSignals
<1> QED BY <1>1, <1>4 DEF t, EmptyRenameInsts

\* checkSignalsAndUpdate of IEW.
LEMMA IEWHears ==
  ASSUME NEW s, NEW stall \in BOOLEAN, Stage(s), ~s.block, ~s.unblock, stall <=> s.status \in Held
  PROVE  Ticking(IEWSignals(s), stall)
<1> DEFINE t == IF c.robSquashing THEN [EmptyRenameInsts(s) EXCEPT !.status = "Squashing"] ELSE s
           v == IEWSignals(s)
<1>1. v = IF c.squash THEN IEWSquash(s)
          ELSE IF c.robSquashing \/ Cardinality(t.iq) = NumIQ THEN IEWBlock(t)
          ELSE IF t.status = "Blocked" THEN Unblock([t EXCEPT !.status = "Unblocking"])
          ELSE IF t.status = "Squashing" THEN [t EXCEPT !.status = "Running"]
          ELSE t
  BY DEF IEWSignals
<1>2. /\ Stage(t) /\ ~t.block /\ ~t.unblock
      /\ t.status = (IF c.robSquashing THEN "Squashing" ELSE s.status)
  <2> DEFINE e == EmptyRenameInsts(s)
  <2>1. SameSignals(s, e)
    BY ArrivedSignals
  <2> HIDE DEF e
  <2>2. /\ Stage([e EXCEPT !.status = "Squashing"])
        /\ \A x \in {"block", "unblock"} : [e EXCEPT !.status = "Squashing"][x] = s[x]
        /\ [e EXCEPT !.status = "Squashing"].status = "Squashing"
    BY <2>1 DEF SameSignals, Stage
  <2> QED BY <2>2 DEF e
<1> HIDE DEF t, v
<1>3. ASSUME NEW status \in {"Unblocking", "Running"}, status = "Unblocking" <=> t.status \in Held,
             ~c.robSquashing
      PROVE  LET w == [t EXCEPT !.status = status] IN Ticking(w, stall) /\ ~w.block
  <2> DEFINE w == [t EXCEPT !.status = status]
  <2>1. Stage(w) /\ w.status = status /\ w.block = t.block /\ w.unblock = t.unblock
    BY <1>2 DEF Stage
  <2> HIDE DEF w
  <2>2. Ticking(w, stall)
    BY <1>2, <1>3, <2>1 DEF Ticking, Agree, Stalled, Held
  <2> QED BY <1>2, <2>1, <2>2 DEF w
<1>4. CASE c.squash
  <2> DEFINE a == [Arrived(s, s.skid) EXCEPT !.skid = <<>>]
             b == EmptyRenameInsts(a)
             Kept(S) == {sn \in S : sn <= c.done}
             k == [b EXCEPT !.squashedTo = c.done, !.squashTail = c.tail,
                            !.iq = Kept(@), !.lq = Kept(@), !.sq = Kept(@) \cup s.toWB]
  <2>1. IEWSquash(s) = [k EXCEPT !.unblock = b.unblock \/ s.status \in {"Blocked", "Unblocking"},
                                 !.status = "Squashing"]
    BY Zenon DEF IEWSquash
  <2>2. SameSignals(s, a)
    <3> DEFINE g == Arrived(s, s.skid)
    <3>1. SameSignals(s, g)
      BY ArrivedSignals
    <3> HIDE DEF g
    <3>2. SameSignals(g, [g EXCEPT !.skid = <<>>])
      BY <3>1 DEF SameSignals, Stage
    <3> QED BY <3>1, <3>2 DEF SameSignals, g
  <2> HIDE DEF a
  <2>3. SameSignals(a, b)
    BY <2>2, ArrivedSignals DEF SameSignals
  <2> HIDE DEF b
  <2>4. Stage(k) /\ k.block = b.block /\ k.unblock = b.unblock
    BY <2>3 DEF SameSignals, Stage
  <2> HIDE DEF k
  <2>5. /\ Stage(v) /\ ~v.block /\ v.status = "Squashing" /\ (v.unblock <=> s.status \in Held)
    BY <1>1, <1>4, <2>1, <2>2, <2>3, <2>4 DEF SameSignals, Stage, Held
  <2>6. Ticking(v, stall)
    BY <2>5 DEF Ticking, Agree, Stalled, Held
  <2> QED BY <2>6 DEF v
<1>5. CASE ~c.squash /\ (c.robSquashing \/ Cardinality(t.iq) = NumIQ)
  <2>1. v = IEWBlock(t) /\ (t.status \in Held => stall)
    BY <1>1, <1>2, <1>5 DEF Held
  <2>2. Ticking(v, stall)
    BY <1>2, <2>1, IEWBlocks
  <2> QED BY <2>2 DEF v
<1>6. CASE ~c.squash /\ ~(c.robSquashing \/ Cardinality(t.iq) = NumIQ)
  <2>1. CASE t.status = "Blocked"
    <3> DEFINE w == [t EXCEPT !.status = "Unblocking"]
    <3>1. Ticking(w, stall) /\ ~w.block
      BY <1>3, <1>6, <2>1 DEF Held
    <3>2. v = Unblock(w) /\ stall
      BY <1>1, <1>2, <1>6, <2>1 DEF Held
    <3> HIDE DEF w
    <3> QED BY <3>1, <3>2, Unblocks DEF v
  <2>2. CASE t.status = "Squashing"
    <3>1. v = [t EXCEPT !.status = "Running"]
      BY <1>1, <1>6, <2>2
    <3> QED BY <1>3, <1>6, <2>2, <3>1 DEF v, Held
  <2>3. CASE t.status \notin {"Blocked", "Squashing"}
    <3>1. v = t /\ t.status = s.status
      BY <1>1, <1>2, <1>6, <2>3
    <3>2. Ticking(t, stall)
      BY <1>2, <3>1 DEF Ticking, Agree, Stalled
    <3> QED BY <3>1, <3>2 DEF v
  <2> QED BY <2>1, <2>2, <2>3
<1> QED BY <1>4, <1>5, <1>6

\* dispatchInsts.
LEMMA DispatchesInsts ==
  ASSUME NEW s, NEW stall, Ticking(s, stall), s.status \in {"Running", "Unblocking"}
  PROVE  LET v == DispatchInsts(s)
         IN  Ticking(v, stall) /\ (s.status = "Unblocking" => stall /\ ~v.block)
<1> DEFINE e == DispatchLoop(s)
           p == SetSource(s, e.q)
           t == [p EXCEPT !.dispatched = e.dispatched, !.toLQ = e.toLQ, !.toSQ = e.toSQ,
                          !.iq = e.iq, !.lq = e.lq, !.sq = e.sq]
           v == DispatchInsts(s)
<1>1. v = IF e.q = <<>> THEN t ELSE [IEWBlock(t) EXCEPT !.unblock = FALSE]
  BY DEF DispatchInsts
<1> HIDE DEF e, v
<1>2. SameSignals(s, p)
  BY StageBasics DEF Ticking
<1> HIDE DEF p
<1>3. SameSignals(p, t)
  BY <1>2 DEF SameSignals, Stage
<1> HIDE DEF t
<1>4. SameSignals(s, t) /\ Ticking(t, stall) /\ ~t.block
  BY <1>2, <1>3 DEF SameSignals, Ticking, Agree, Stalled
<1>5. s.status = "Unblocking" => stall
  BY DEF Ticking, Agree, Stalled, Held
<1>6. CASE e.q = <<>>
  BY <1>1, <1>4, <1>5, <1>6 DEF v
<1>7. CASE e.q # <<>>
  <2>1. t.unblock => stall /\ t.status \notin Held
    BY <1>4 DEF Ticking, Agree, Stalled
  <2>2. t.status \in Held => stall /\ ~t.block
    BY <1>4 DEF Ticking, Agree, Stalled
  <2>3. v = [IEWBlock(t) EXCEPT !.unblock = FALSE] /\ Stage(t) /\ stall \in BOOLEAN
    BY <1>1, <1>4, <1>7 DEF Ticking
  <2>4. Ticking(v, stall) /\ (t.status \in Held => ~v.block)
    BY <2>1, <2>2, <2>3, IEWBlocks
  <2> QED BY <1>4, <1>5, <2>4 DEF SameSignals, Held, v
<1> QED BY <1>6, <1>7

\* dispatch.
LEMMA Dispatches ==
  ASSUME NEW s, NEW stall, Ticking(s, stall)
  PROVE  Ticking(Dispatch(s), stall)
<1> DEFINE v == DispatchInsts(s)
<1>1. CASE s.status = "Running"
  <2>1. Dispatch(s) = v
    BY <1>1 DEF Dispatch
  <2> QED BY <1>1, <2>1, DispatchesInsts
<1>2. CASE s.status = "Unblocking"
  <2> DEFINE w == SkidInsert(v)
  <2>1. Dispatch(s) = Unblock(w)
    BY <1>2 DEF Dispatch
  <2>2. Ticking(v, stall) /\ stall /\ ~v.block
    BY <1>2, DispatchesInsts
  <2> HIDE DEF v
  <2>3. SameSignals(v, w)
    BY <2>2, StageBasics DEF Ticking
  <2> HIDE DEF w
  <2>4. Ticking(w, stall) /\ ~w.block
    BY <2>2, <2>3 DEF Ticking, Agree, Stalled, SameSignals
  <2> QED BY <2>1, <2>2, <2>4, Unblocks
<1>3. CASE s.status \notin {"Running", "Unblocking"}
  BY <1>3 DEF Dispatch
<1> QED BY <1>1, <1>2, <1>3

\* The end of the tick of IEW touches no handshake.
LEMMA IEWEnds ==
  ASSUME NEW s, NEW stall, Ticking(s, stall), NEW X, NEW writeback
  PROVE  Ticking(IEWEnd(s, X, writeback), stall)
<1> DEFINE v     == IEWEnd(s, X, writeback)
           done  == c.done # 0 /\ ~c.squash /\ ~c.robSquashing
           tell  == c.squash \/ X # {} \/ i.updateLSQ
           store == IF writeback THEN {Min(i.toWB)} ELSE {}
           iq    == s.iq \ X
           lq    == {sn \in s.lq : done => sn > c.done}
           sq    == s.sq \ store
           toWB  == (s.toWB \ store) \cup {sn \in sq : done /\ sn <= c.done}
           a     == [s EXCEPT !.iq = iq, !.lq = lq, !.sq = sq, !.toWB = toWB]
           b     == [a EXCEPT !.executed = X, !.updateLSQ = done \/ writeback, !.used = tell]
<1>1. v = [b EXCEPT !.freeIQ = IF tell THEN NumIQ - Cardinality(iq) ELSE 0,
                    !.freeLQ = IF tell THEN NumLQ - Cardinality(lq) ELSE 0,
                    !.freeSQ = IF tell THEN NumSQ - Cardinality(sq) ELSE 0]
  BY Zenon DEF IEWEnd
<1> HIDE DEF v, done, tell, store, iq, lq, sq, toWB
<1>2. SameSignals(s, a)
  BY DEF Ticking, SameSignals, Stage
<1> HIDE DEF a
<1>3. SameSignals(a, b)
  BY <1>2 DEF SameSignals, Stage
<1> HIDE DEF b
<1>4. SameSignals(b, v)
  BY <1>1, <1>3 DEF SameSignals, Stage
<1>5. SameSignals(s, v)
  BY <1>2, <1>3, <1>4 DEF SameSignals
<1>6. Ticking(v, stall)
  BY <1>5 DEF Ticking, Agree, Stalled, SameSignals
<1> QED BY <1>6 DEF v

-----------------------------------------------------------------------------
(* The handshakes *)

\* Nothing is stalled at the start.
LEMMA HandshakeInit ==
  Init => HandshakeInv
<1> SUFFICES ASSUME Init PROVE HandshakeInv
  OBVIOUS
<1>1. f = [status |-> "Running", queue |-> <<>>, nextPos |-> 1, stall |-> FALSE]
  BY DEF Init
<1>2. d = [status |-> "Running", insts |-> <<>>, skid |-> <<>>, stall |-> FALSE,
           block |-> FALSE, unblock |-> FALSE, squash |-> <<>>]
  BY DEF Init
<1>3. /\ {"status", "insts", "skid", "stall", "block", "unblock"} \subseteq DOMAIN r
      /\ r.status = "Running" /\ r.stall = FALSE /\ r.block = FALSE /\ r.unblock = FALSE
  BY DEF Init
<1>4. /\ {"status", "insts", "skid", "block", "unblock"} \subseteq DOMAIN i
      /\ i.status = "Running" /\ i.block = FALSE /\ i.unblock = FALSE
  BY DEF Init
<1>5. phase = "fetch" /\ "decode" \in DOMAIN out /\ out.decode = <<>> /\ wire.decode = <<>>
  BY DEF Init
<1>6. StageShape
  BY <1>1, <1>2, <1>3, <1>4, <1>5, EmptyQueue DEF StageShape
<1> QED BY <1>1, <1>2, <1>3, <1>4, <1>5, <1>6
           DEF HandshakeInv, Agree, Stalled, Held, HeldBack

\* Each stage hears the one after it and is not yet heard by the one before it.
LEMMA FetchStep ==
  ASSUME HandshakeInv, NEW n \in 0..FetchWidth, Fetch(n)
  PROVE  HandshakeInv'
<1> DEFINE squash == c.squash
           decodeSquash == ~squash /\ d.squash # <<>> /\ f.status # "Squashing"
           stall == Stalled(f.stall, d)
           g     == IF squash THEN FetchSquash(c.pc)
                    ELSE IF decodeSquash THEN FetchSquash(d.squash[1].pos + 1)
                    ELSE [f EXCEPT !.status = "Running", !.queue = @ \o Fetched(n),
                                   !.nextPos = @ + n]
           sent  == Sends(stall, g.queue)
<1>1. /\ phase = "fetch" /\ phase' = "decode"
      /\ f' = [g EXCEPT !.stall = stall, !.queue = From(g.queue, sent + 1)]
      /\ out' = [out EXCEPT !.decode = SubSeq(g.queue, 1, sent)]
      /\ UNCHANGED <<d, r, i, wire>>
  BY Zenon DEF Fetch
<1>2. {"stall", "queue"} \subseteq DOMAIN f /\ Queue(f.queue) /\ "decode" \in DOMAIN out
  BY DEF HandshakeInv, StageShape
<1>3. {"stall", "queue"} \subseteq DOMAIN g /\ Queue(g.queue)
  <2>1. n \in Nat
    BY FrontEndAssumption
  <2>2. Fetched(n) \in Seq({Fetched(n)[k] : k \in 1..n})
    <3> DEFINE F == Fetched(n)
               S == {F[k] : k \in 1..n}
    <3>1. F = [k \in 1..n |-> F[k]]
      BY DEF Fetched
    <3> HIDE DEF F
    <3>2. F \in [1..n -> S]
      BY <3>1
    <3> HIDE DEF S
    <3> QED BY <2>1, <3>2 DEF S, F
  <2>3. Queue(Fetched(n)) /\ Queue(<<>>)
    BY <2>2, QueueIsSeq, EmptyQueue
  <2>4. Queue(f.queue \o Fetched(n))
    BY <1>2, <2>3, QueueOps
  <2>5. ASSUME NEW pos
        PROVE  {"stall", "queue"} \subseteq DOMAIN FetchSquash(pos) /\ Queue(FetchSquash(pos).queue)
    BY <1>2, <2>3 DEF FetchSquash
  <2>6. CASE squash \/ decodeSquash
    BY <2>5, <2>6
  <2>7. CASE ~squash /\ ~decodeSquash
    <3>1. g = [f EXCEPT !.status = "Running", !.queue = @ \o Fetched(n), !.nextPos = @ + n]
      BY <2>7
    <3> HIDE DEF g
    <3> QED BY <1>2, <2>4, <3>1
  <2> QED BY <2>6, <2>7
<1> HIDE DEF g, stall
<1>4. sent \in Nat /\ sent <= Len(g.queue)
  <2>1. Len(g.queue) \in Nat /\ DecodeWidth \in Nat
    BY <1>3, FrontEndAssumption DEF Queue
  <2>2. Min({DecodeWidth, Len(g.queue)}) \in Nat /\ Min({DecodeWidth, Len(g.queue)}) <= Len(g.queue)
    BY <2>1 DEF Min
  <2> QED BY <2>1, <2>2 DEF Sends
<1> HIDE DEF sent
<1>5. Queue(SubSeq(g.queue, 1, sent)) /\ Queue(From(g.queue, sent + 1))
  BY <1>3, <1>4, QueueCut
<1>6. /\ {"stall", "queue"} \subseteq DOMAIN f' /\ f'.stall = stall /\ Queue(f'.queue)
      /\ "decode" \in DOMAIN out' /\ Queue(out'.decode)
  BY <1>1, <1>2, <1>3, <1>5
<1>7. stall \in BOOLEAN /\ (stall <=> d.status \in Held)
  BY <1>1 DEF HandshakeInv, StageShape, Agree, Stalled, stall
<1>8. StageShape'
  BY <1>1, <1>6, <1>7 DEF HandshakeInv, StageShape
<1> QED BY <1>1, <1>6, <1>7, <1>8 DEF HandshakeInv, Agree, Stalled

LEMMA DecodeStep ==
  ASSUME HandshakeInv, NEW wrong \in Nat, Decode(wrong)
  PROVE  HandshakeInv'
<1> DEFINE s0 == [d EXCEPT !.insts = @ \o wire.decode, !.block = FALSE,
                           !.unblock = FALSE, !.squash = <<>>]
           s  == DecodeSignals(s0)
           q  == IF Active(s) THEN Source(s) ELSE <<>>
<1>1. /\ phase = "decode" /\ phase' = "rename"
      /\ wrong > 0 => wrong <= DecodeTakes(q)
      /\ d' = DecodeStage(s, wrong)
      /\ \E x : out' = [out EXCEPT !.rename = x]
      /\ UNCHANGED <<f, r, i, wire>>
  BY Zenon DEF Decode
<1>2. /\ {"status", "insts", "skid", "stall", "block", "unblock"} \subseteq DOMAIN d
      /\ Queue(d.insts) /\ Queue(d.skid) /\ Queue(wire.decode) /\ f.stall \in BOOLEAN
  BY DEF HandshakeInv, StageShape
<1>3. /\ DOMAIN s0 = DOMAIN d /\ Stage(s0) /\ Queues(s0) /\ ~s0.block /\ ~s0.unblock
      /\ s0.status = d.status /\ s0.stall = d.stall
  <2>1. Queue(d.insts \o wire.decode)
    BY <1>2, QueueOps
  <2> QED BY <1>2, <2>1 DEF Stage, Queues
<1>4. f.stall <=> s0.status \in Held
  BY <1>1, <1>3 DEF HandshakeInv, Held
<1> HIDE DEF s0
<1>5. /\ Ticking(s, f.stall) /\ Queues(s) /\ DOMAIN s = DOMAIN s0 /\ s.stall = Stalled(s0.stall, r)
  BY <1>2, <1>3, <1>4, DecodeHears
<1> HIDE DEF s
<1>6. wrong <= DecodeTakes(q)
  <2>1. Queue(q)
    BY <1>5, EmptyQueue, QueueBasics DEF Ticking
  <2>2. DecodeTakes(q) \in 0..Len(q) /\ Len(q) \in Nat
    BY <2>1, TakesSome DEF Queue
  <2> HIDE DEF q
  <2> QED BY <1>1, <2>2
<1>7. Ticking(d', f.stall) /\ Queues(d') /\ DOMAIN d' = DOMAIN s /\ d'.stall = s.stall
  BY <1>1, <1>5, <1>6, DecodeStages
<1>8. d'.stall = Stalled(d.stall, r)
  BY <1>3, <1>5, <1>7
<1>9. d'.stall \in BOOLEAN /\ (d'.stall <=> r.status \in HeldBack)
  BY <1>1, <1>8 DEF HandshakeInv, StageShape, Agree, Stalled
<1>10. "decode" \in DOMAIN out' /\ out'.decode = out.decode
  BY <1>1 DEF HandshakeInv, StageShape
<1>11. StageShape'
  BY <1>1, <1>2, <1>3, <1>5, <1>7, <1>9, <1>10
     DEF HandshakeInv, StageShape, Ticking, Stage, Queues
<1> QED BY <1>1, <1>7, <1>9, <1>11 DEF HandshakeInv, Agree, Stalled, Ticking, Held

LEMMA RenameStep ==
  ASSUME HandshakeInv, Rename
  PROVE  HandshakeInv'
<1> DEFINE s0 == [r EXCEPT !.insts = @ \o wire.rename, !.block = FALSE, !.unblock = FALSE]
           s  == RenameSignals(s0)
<1>1. /\ phase = "rename" /\ phase' = "iew"
      /\ r' = RenameEnd(RenameStage(s))
      /\ \E x : out' = [out EXCEPT !.iew = x]
      /\ UNCHANGED <<f, d, i, wire>>
  BY Zenon DEF Rename
<1>2. /\ {"status", "insts", "skid", "stall", "block", "unblock"} \subseteq DOMAIN r
      /\ d.stall \in BOOLEAN
  BY DEF HandshakeInv, StageShape
<1>3. /\ DOMAIN s0 = DOMAIN r /\ Stage(s0) /\ ~s0.block /\ ~s0.unblock
      /\ s0.status = r.status /\ s0.stall = r.stall
  BY <1>2 DEF Stage
<1>4. d.stall <=> s0.status \in HeldBack
  BY <1>1, <1>3 DEF HandshakeInv, Held, HeldBack
<1> HIDE DEF s0
<1>5. Renaming(s, d.stall) /\ DOMAIN s = DOMAIN s0 /\ s.stall = Stalled(s0.stall, i)
  BY <1>2, <1>3, <1>4, RenameHears
<1> HIDE DEF s
<1>6. Renaming(r', d.stall) /\ DOMAIN r' = DOMAIN s /\ r'.stall = s.stall
  BY <1>1, <1>5, RenameStages
<1>7. r'.stall = Stalled(r.stall, i)
  BY <1>3, <1>5, <1>6
<1>8. r'.stall \in BOOLEAN /\ (r'.stall <=> i.status \in Held)
  BY <1>1, <1>7 DEF HandshakeInv, StageShape, Agree, Stalled
<1>9. "decode" \in DOMAIN out' /\ out'.decode = out.decode
  BY <1>1 DEF HandshakeInv, StageShape
<1>10. StageShape'
  BY <1>1, <1>2, <1>3, <1>5, <1>6, <1>8, <1>9 DEF HandshakeInv, StageShape, Renaming, Stage
<1> QED BY <1>1, <1>6, <1>8, <1>10 DEF HandshakeInv, Agree, Stalled, Renaming, Held, HeldBack

LEMMA IEWStep ==
  ASSUME HandshakeInv, NEW X, NEW writeback, IEW(X, writeback)
  PROVE  HandshakeInv'
<1> DEFINE s0 == [i EXCEPT !.insts = @ \o wire.iew[RenameToIEWDelay],
                           !.block = FALSE, !.unblock = FALSE,
                           !.dispatched = 0, !.toLQ = 0, !.toSQ = 0]
           s  == IEWSignals(s0)
<1>1. /\ phase = "iew" /\ phase' = "commit"
      /\ i' = IEWEnd(Dispatch(s), X, writeback)
      /\ UNCHANGED <<f, d, r, wire, out>>
  BY Zenon DEF IEW
<1>2. /\ {"status", "insts", "skid", "block", "unblock"} \subseteq DOMAIN i
      /\ r.stall \in BOOLEAN
  BY DEF HandshakeInv, StageShape
<1>3. Stage(s0) /\ ~s0.block /\ ~s0.unblock /\ s0.status = i.status
  BY <1>2 DEF Stage
<1>4. r.stall <=> s0.status \in Held
  BY <1>1, <1>3 DEF HandshakeInv, Held
<1> HIDE DEF s0
<1>5. Ticking(s, r.stall)
  BY <1>2, <1>3, <1>4, IEWHears
<1> HIDE DEF s
<1>6. Ticking(i', r.stall)
  BY <1>1, <1>5, Dispatches, IEWEnds
<1>7. StageShape'
  BY <1>1, <1>6 DEF HandshakeInv, StageShape, Ticking, Stage
<1> QED BY <1>1, <1>6, <1>7 DEF HandshakeInv, Agree, Stalled, Ticking, Held

LEMMA CommitStep ==
  ASSUME HandshakeInv, NEW p, NEW k, NEW enter, Commit(p, k, enter)
  PROVE  HandshakeInv'
<1>1. /\ phase = "commit" /\ phase' = "fetch"
      /\ \E x, y : wire' = [decode |-> out.decode, rename |-> x, iew |-> y]
      /\ out' = [decode |-> <<>>, rename |-> <<>>, iew |-> <<>>]
      /\ UNCHANGED <<f, d, r, i>>
  BY Zenon DEF Commit
<1>2. /\ wire'.decode = out.decode /\ out'.decode = <<>> /\ "decode" \in DOMAIN out'
  BY <1>1
<1>3. StageShape'
  BY <1>1, <1>2, EmptyQueue DEF HandshakeInv, StageShape
<1> QED BY <1>1, <1>3 DEF HandshakeInv, Agree, Stalled

\* Every step keeps the agreement.
LEMMA HandshakeNext ==
  HandshakeInv /\ [Next]_vars => HandshakeInv'
<1> SUFFICES ASSUME HandshakeInv, [Next]_vars PROVE HandshakeInv'
  OBVIOUS
<1>1. CASE \E n \in 0..FetchWidth : Fetch(n)
  BY <1>1, FetchStep
<1>2. CASE \E wrong \in 0..(2 * FetchWidth + DecodeWidth) : Decode(wrong)
  <2>1. \A wrong \in 0..(2 * FetchWidth + DecodeWidth) : wrong \in Nat
    BY FrontEndAssumption
  <2> QED BY <1>2, <2>1, DecodeStep
<1>3. CASE Rename
  BY <1>3, RenameStep
<1>4. CASE \E X \in {{}} \cup {{sn} : sn \in i.iq}, writeback \in BOOLEAN : IEW(X, writeback)
  BY <1>4, IEWStep
<1>5. CASE \E p \in Squashes, k \in 0..NumROB, enter \in BOOLEAN : Commit(p, k, enter)
  BY <1>5, CommitStep
<1>6. CASE UNCHANGED vars
  BY <1>6 DEF vars, HandshakeInv, StageShape, Queue, Agree, Stalled
<1> QED BY <1>1, <1>2, <1>3, <1>4, <1>5, <1>6 DEF Next

\* The agreement holds from one tick to the next, in every cycle.
THEOREM HandshakeInvariance ==
  Spec => []HandshakeInv
<1> QED BY HandshakeInit, HandshakeNext, PTL DEF Spec

\* The two ends of each handshake agree: a stage is stalled, or will find itself
\* so, exactly while the one after it holds instructions back, and an unblock
\* always finds a stall (fetch.cc:1013, decode.cc:485, rename.cc:1211).
THEOREM HandshakeSoundInvariant ==
  Spec => []HandshakeSound
<1>1. HandshakeInv => HandshakeSound
  BY DEF HandshakeInv, HandshakeSound, Agree, Held, HeldBack
<1> QED BY <1>1, HandshakeInvariance, PTL
=============================================================================
